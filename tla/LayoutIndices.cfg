CONSTANTS
  Line1 = 64
  Line2 = 64
  MsgSizes = {64}
  AddMsgs = {12}
  MaxChannels = 1
SPECIFICATION Spec
INVARIANT IndicesApart
