CONSTANTS
  Sockets <- TwoSockets
  Configs <- TLSConfigs
  MaxTroubles = 1
SPECIFICATION Spec
INVARIANTS WriteEnds
CHECK_DEADLOCK FALSE
