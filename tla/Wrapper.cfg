\* Consumers of two types and two producers; channel 4 has small messages.
CONSTANTS
  n_producers = 2
  n_consumers = 2
  WithEventfd = {1, 3}
  Threads = {a, b, s, p, q}
  ProducerObjects = {p, q}
  WideObjects = {a, b, p, q}
  WideChannels = {1, 2, 3}
  Failures = {"attrs", "producer_attrs", "channels", "shm", "mlock", "channel"}
SPECIFICATION FairWrapperSpec
INVARIANTS HandlesValid DeletedOnce NoLeak Reacquirable
PROPERTIES Reclaimed UsesGroup
\* A group that is gone stays gone.
CHECK_DEADLOCK FALSE
