CONSTANTS
  Sockets <- TwoSockets
  Configs <- ReplacedOnly
  MaxTroubles = 0
SPECIFICATION Spec
INVARIANTS HandlersNonBlocking
CHECK_DEADLOCK FALSE
