CONSTANTS
  MaxProducers = 1
  MaxConsumers = 1
  InfoSizes = {0, 3}
  Cachelines = {64}
  EmptyFirst = TRUE
SPECIFICATION Spec
INVARIANT InfosInPlace
