CONSTANTS
  Conns = {c1, c2}
  Workers = {w1}
  MaxRequests = 1
  ResponseSize = 2
  None = None
SPECIFICATION Spec
INVARIANTS TypeOK CleanupOnce NoDanglingChannel
PROPERTY ImplementsLifecycle
SYMMETRY ConnSymmetry
CHECK_DEADLOCK FALSE
