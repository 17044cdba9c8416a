CONSTANTS
  Sockets <- ThreeSockets
  Configs <- OneThread
  MaxTroubles = 2
SPECIFICATION FairSpec
INVARIANTS OneSocketCallsBack SessionHasSocket NothingLeftOpen NoHandlerWaits
PROPERTIES CloseReturns Served
CHECK_DEADLOCK FALSE
