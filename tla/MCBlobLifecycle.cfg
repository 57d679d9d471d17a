SPECIFICATION MCSpec
CONSTANTS
  \* Of BlobLifecycle: a blob of at most two extents.
  Users = {u1}
  Pools = {p1}
  Blobs = {b1}
  Replicas = {r1}
  Threads = {t1}
  MaxSize = 2
  BatchSize = 1
  Faults = {"crash", "store", "rg", "time"}
  \* Of Access: two sets, one user and two requests at a time.
  Sets = {1, 2}
  Addrs <- Places
  Homes <- FirstPlaces
  Hosts <- SetHosts
  Order <- SetOrder
  Uids = {"u"}
  Workers = {"w1", "w2"}
  MaxMishaps = 1
INVARIANTS RoutersMatchBlobs StoreFollowsMap RightManager
PROPERTY DeletionIsFinal
\* Requests and faults come to their bounds.
CHECK_DEADLOCK FALSE
