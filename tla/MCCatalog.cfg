SPECIFICATION MCSpec
CONSTANTS
  t1 = t1
  t2 = t2
  u1 = u1
  u2 = u2
  n1 = n1
  n2 = n2
  \* Of UserManager: two users, two names and two calls at a time.
  Users = {u1, u2}
  Names = {n1, n2}
  Keep = ""
  Threads = {t1, t2}
  MaxFaults = 1
  MaxRestarts = 1
  \* Of Catalog: two pools, a blob and two users; the first of two workers
  \* also walks the pools.
  Pools = {1, 2}
  Blobs = {"b"}
  Owners = {u1, u2}
  BlobNames = {"n"}
  Handlers = {1, 2}
  Walkers = {1}
  PoolTypes = {"POOL_TYPE_HDD", "POOL_TYPE_SSD", "POOL_TYPE_SPECIAL"}
  BlobTypes = {"BLOB_TYPE_SUPERIOR"}
  Capacity <- Capacities
  NoName = ""
  NoPool = 0
  MaxBeats = 1
  MaxLost = 1
INVARIANTS
  UsersAsTold CatalogAsTold
SYMMETRY Symmetry
\* The counts of faults, restarts and heartbeats come to their bounds.
CHECK_DEADLOCK FALSE
