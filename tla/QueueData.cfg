\* With the content of the messages, and the inductive invariant of the proofs.
CONSTANTS
  n_msgs = 4
  ProducerOps = {"force", "try"}
  ConsumerOps = {"pop", "flush", "count"}
  FlushOverlap = FALSE
  MaxPush = 8
SPECIFICATION FairDataSpec
INVARIANTS FreshestKept CountExact StreamInv
PROPERTIES IsLossyFifo HeldStable PopHonest PushHonest CountSafe Delivered
\* The application stops after MaxPush messages.
CHECK_DEADLOCK FALSE
