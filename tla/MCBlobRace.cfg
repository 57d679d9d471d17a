SPECIFICATION SpecAll
CONSTANTS
  Users = {"u1"}
  Pools = {"p1"}
  Blobs = {"b1"}
  Replicas = {"r1"}
  Threads = {"t1", "t2"}
  MaxSize = 2
  BatchSize = 1
  Faults = {}
INVARIANTS AnswersHold RemovedInOrder
PROPERTY WrittenBlobsGo
\* Requests and faults come to their bounds.
CHECK_DEADLOCK FALSE
