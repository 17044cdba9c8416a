CONSTANTS
  Sockets <- ThreeSockets
  Configs <- AllConfigs
  MaxTroubles = 3
SPECIFICATION FairSpec
INVARIANTS OneSocketCallsBack SessionHasSocket OneConnection NoStaleFrame CloseEnds StoppedQuietly
PROPERTIES Reconnects
CHECK_DEADLOCK FALSE
