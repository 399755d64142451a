\* ri_consumer_flush while pushes are in progress.
CONSTANTS
  n_msgs = 3
  ProducerOps = {"force", "try"}
  ConsumerOps = {"pop", "flush"}
  FlushOverlap = TRUE
SPECIFICATION Spec
INVARIANT Exclusive
