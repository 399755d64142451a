\* Two sides calling everything they can, without end; flush kept apart from
\* pushes.
CONSTANTS
  n_msgs = 4
  ProducerOps = {"force", "try"}
  ConsumerOps = {"pop", "flush", "count"}
  FlushOverlap = FALSE
SPECIFICATION FairSpec
INVARIANTS TypeOK Exclusive NoError ChainWhole
PROPERTY CallsReturn
