CONSTANTS
  Timers = {t1, t2}
  Timeouts = {0, 2, 3}
  SlotNum = 2
  ClockPeriod = 3
  MaxLag = 2
  MaxOps = 2
  None = None
  ClientNum = 3
  ThreadNum = 2
  MaxConnection = 3
  MaxAcceptErrors = 1
  MaxPieces = 2
SPECIFICATION ThreadsSpec
INVARIANTS ThreadsTypeOK RegistryMatches CountLedger NoStrandedClient RelayConserves
PROPERTIES  NoTickFromNowhere OneShotFires DestructionEnds 
CHECK_DEADLOCK FALSE
