\* ri_consumer_flush of a channel with an eventfd, after an overrun.
CONSTANTS
  n_msgs = 3
  ProducerOps = {"force", "try"}
  ConsumerOps = {"pop", "flush"}
  FlushOverlap = TRUE
  MaxPush = 5
SPECIFICATION ChannelSpec
PROPERTY FlushReachesHead
CHECK_DEADLOCK FALSE
