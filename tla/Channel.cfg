CONSTANTS
  n_msgs = 3
  ProducerOps = {"force", "try"}
  ConsumerOps = {"pop", "flush"}
  FlushOverlap = TRUE
  MaxPush = 6
SPECIFICATION FairChannelSpec
INVARIANT EventCountExact
PROPERTIES EventMeansMessage ChannelStream FlushUpToGap WokenForAll
\* The application stops after MaxPush messages.
CHECK_DEADLOCK FALSE
