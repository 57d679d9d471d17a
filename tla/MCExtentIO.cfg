SPECIFICATION FairSpec
CONSTANTS
  Writes = {w1}
  Reads = {r1}
  Others = {o1}
  Reqs = {q1, q2}
  Workers = {k1}
  Secondaries = {s1}
  Primary = p
  IOUnits = 2
  RingSize = 2
  BatchNums = 2
  MaxCopies = 1
  None = None
CHECK_DEADLOCK FALSE
INVARIANT UnitsConserved
PROPERTY EveryCallAnswered
