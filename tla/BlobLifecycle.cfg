SPECIFICATION FairSpec
CONSTANTS
  Users = {u1}
  Pools = {p1}
  Blobs = {b1}
  Replicas = {r1}
  Threads = {t1}
  MaxSize = 1
  BatchSize = 1
  Faults = {}
CHECK_DEADLOCK FALSE
PROPERTY DeletedBlobsGo
