\* A client with every mix of channels and one that competes with it.
CONSTANTS
  Clients = {c1, c2}
  Plain = {c2}
  MaxProducers = 2
  MaxConsumers = 1
  SCM_MAX_FD = 3
  Failures = {"socket", "group", "request", "send", "answer", "receive",
              "fd_limit", "parse", "shm", "verify", "channel", "crash"}
SPECIFICATION FairSpec
INVARIANTS EndsPaired OwnedOnce Agreed
PROPERTY ConnectReturns
\* A client connects once.
CHECK_DEADLOCK FALSE
