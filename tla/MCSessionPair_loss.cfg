CONSTANTS
  I = I
  A = A
  none = none
  NoBody = none
  Unreplayable <- NoUnreplayable
  Refused <- NoRefused
  Bodies <- TwoEach
  Scenarios <- LossScenarios
SPECIFICATION Spec
INVARIANTS TargetNotAhead AgreedOnceUp
PROPERTIES InOrderDelivery
CHECK_DEADLOCK FALSE
