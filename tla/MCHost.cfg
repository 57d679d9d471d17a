SPECIFICATION MCSpec
\* Of Scrub: two extents of two blocks on two replicas; a write, a decayed
\* block and a lost call.
CONSTANTS
  NumExtents = 2
  NumBlocks = 2
  Replicas = {"a", "b"}
  MaxWrites = 1
  MaxDecays = 1
  MaxLostCalls = 1
\* Of Sanitizer: a device of three units, parts and blocks that divide it
\* and that do not.
  NumJobs = {0, 2, 3}
  BlockSizes = {0, 1, 2}
  Ranges = {0, 2}
  DeviceSize = 3
  MaxShort = 4
INVARIANT ToolsTruthful
PROPERTIES
  KernelServed DevicesKept NothingClosedUnder MemorySound KeepsFiring SetsKnownAgain
\* The parts come to their end.
CHECK_DEADLOCK FALSE
