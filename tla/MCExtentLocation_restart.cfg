CONSTANTS
  BlockSize = 2
  Capacity = 15
  MaxBlocksPerChunk = 5
  ExtentSize = 3
  Extents = {1, 2, 3}
  Threads = {t1}
  None = None
SPECIFICATION Spec
INVARIANT FreeSpaceReachable
