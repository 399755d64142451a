\* Channels with an info before those without, buffers and arrays of every size.
CONSTANTS
  MaxProducers = 2
  MaxConsumers = 1
  InfoSizes = {0, 3, 17}
  Cachelines = {64, 128}
  EmptyFirst = FALSE
  MaxFds = 4
  MapFails = {"shm", "verify", "channel"}
SPECIFICATION HandoverSpec
INVARIANTS Mirrored SizeExact InfosInPlace HandoverPaired AllTransferred
