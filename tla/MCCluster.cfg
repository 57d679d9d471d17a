SPECIFICATION SpecAll
CONSTANTS
  t1 = t1
  t2 = t2
  s1 = s1
  s2 = s2
  s3 = s3
  PoolIds = {"poolid-a"}
  Beats <- TwoServers
  EsNums = {1, 2}
  Blobs = {"blobid-1"}
  Threads = {t1, t2}
  MaxFaults = 1
  MaxRestarts = 1
  MaxPools = 2
  Servers = {s1, s2, s3}
  Host <- TwoHosts
  Rack <- OneRack
  Weight <- Weights
  EsSets <- EsAll
  ReplicaCounts = {2}
  RgPerEs = 1
  Batch = 2
  Used = {90, 100}
  MaxPasses = 2
  MaxWant = 2
  MaxExtents = 2
INVARIANTS
  GroupsDealt ExtentsSpread PoolsWhole NothingLeftBehind
CONSTRAINT Bound
SYMMETRY Symmetry
\* The counts of calls, faults and restarts come to their bounds.
CHECK_DEADLOCK FALSE
