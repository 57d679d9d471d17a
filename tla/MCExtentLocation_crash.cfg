CONSTANTS
  BlockSize = 2
  Capacity = 15
  MaxBlocksPerChunk = 5
  ExtentSize = 3
  Extents = {1, 2, 3, 4}
  Threads = {t1, t2}
  None = None
SPECIFICATION Spec
INVARIANTS TypeOK LocationsDisjoint SpaceAccounted MapMatchesStore
PROPERTY ImplementsTable
SYMMETRY Symmetry
