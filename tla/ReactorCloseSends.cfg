CONSTANTS
  Conns = {c1}
  Workers = {w1}
  MaxRequests = 1
  ResponseSize = 2
  None = None
SPECIFICATION Spec
PROPERTY CloseSendsFirst
CHECK_DEADLOCK FALSE
