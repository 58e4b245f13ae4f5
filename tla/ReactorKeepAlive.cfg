CONSTANTS
  Conns = {c1}
  Workers = {w1}
  MaxRequests = 1
  ResponseSize = 2
  None = None
SPECIFICATION Spec
PROPERTY KeepAliveStays
CHECK_DEADLOCK FALSE
