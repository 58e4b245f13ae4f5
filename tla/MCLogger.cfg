CONSTANTS
  Writers = {w1, w2}
  Capacity = 1
  Limit = 3
  MaxLines = 3
  MaxBufs = 6
  None = None
SPECIFICATION FairSpec
INVARIANTS TypeOK OnePlace LinesInOrder DropsAtLimit ClosedHasAll
PROPERTIES QueuedIsWritten
CHECK_DEADLOCK FALSE
