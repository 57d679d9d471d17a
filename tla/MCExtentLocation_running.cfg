CONSTANTS
  BlockSize = 2
  Capacity = 15
  MaxBlocksPerChunk = 5
  ExtentSize = 3
  Extents = {1, 2, 3}
  Threads = {t1, t2}
  None = None
SPECIFICATION FairSpec
INVARIANTS FreeSpaceReachable IoOnOwnExtent
PROPERTY MutexReleased
