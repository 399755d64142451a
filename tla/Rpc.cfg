CONSTANTS
  MaxCommands = 3
  NumEvents = 3
  event_len = 0
  MAX_CYCLES = 5
  MAX_TRIES = 2
  Failures = {"client_new", "server_new", "poll"}
SPECIFICATION Spec
INVARIANTS RightAnswer SameVersion EventsTold
PROPERTY Answered
\* Both programs end; a C client without a server waits for ever.
CHECK_DEADLOCK FALSE
