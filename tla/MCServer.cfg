SPECIFICATION MCSpec
\* Of ExtentIO: two writes with one Request, one unit and a ring of one slot.
CONSTANTS
  Writes = {w1, w2}
  Reads = {}
  Others = {}
  Reqs = {q1}
  Workers = {k1}
  Secondaries = {s1, s2}
  Primary = p
  IOUnits = 1
  RingSize = 1
  BatchNums = 2
  MaxCopies = 1
  None = None
\* Of KvStore.
  Threads = {"t1", "t2"}
  Keys = {1, 2, 3}
  PrefixOf <- Prefixes
  Batches = {{1, 2}}
  Values = {"v"}
  NoValue = "none"
  MaxStops = 1
\* Of RouterCache.
  Bthreads = {"t1", "t2"}
  Extents = {"e1", "e2"}
  Peers = {"p1", "p2"}
  Routers <- HomeRouters
  ThreadLocal = FALSE
  MaxConns = 3
  NoExtent = "none"
SYMMETRY Symmetry
INVARIANTS
  NoUseAfterPut AckReplicated ReplicasAgree AnsweredSurvives StaleOnlyIfAnswered
\* The calls are answered and nothing more comes.
CHECK_DEADLOCK FALSE
