CONSTANTS
  Line1 = 64
  Line2 = 128
  MsgSizes = {1, 65}
  AddMsgs = {0, 11, 12}
  MaxChannels = 2
SPECIFICATION Spec
INVARIANTS ChannelsApart SameAligned
