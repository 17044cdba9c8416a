CONSTANTS
  I = I
  A = A
  none = none
  NoBody = none
  Unreplayable <- NoUnreplayable
  Refused <- NoRefused
  Bodies <- OneEach
  Scenarios <- CutScenarios
SPECIFICATION FairSpec
PROPERTIES GapCloses
CHECK_DEADLOCK FALSE
