CONSTANTS
  Sizes = {3}
  MinSize = 2
  Troubles = {"refused", "declined", "finish", "replay", "broken", "long", "memory", "replace"}
  MaxFrames = 3
  MaxConnections = 2
SPECIFICATION Spec
INVARIANTS PendingExact NoOldBytes NothingAfterClose
 
CHECK_DEADLOCK FALSE
