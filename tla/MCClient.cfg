SPECIFICATION MCSpec
\* Of ClientStream: a reader and a writer of extents of four units, one
\* sender with a ring of one slot.
CONSTANTS
  Handles = {"h1", "h2"}
  Readers = {"h1"}
  ExtentSize = 4
  Senders = {0}
  RingCap = 1
  MaxIo = 1
  MaxFaults = 1
INVARIANT QuietWhenFreed
PROPERTIES CalledBack IsQueue RangesKept CallbacksReaped
\* The parts come to their end.
CHECK_DEADLOCK FALSE
