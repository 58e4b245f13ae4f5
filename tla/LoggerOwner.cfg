CONSTANTS
  Writers = {w1, w2}
  Capacity = 1
  Limit = 2
  MaxLines = 3
  MaxBufs = 5
  None = None
SPECIFICATION Spec
INVARIANTS EachThreadOwnsItsBuffer
CHECK_DEADLOCK FALSE
