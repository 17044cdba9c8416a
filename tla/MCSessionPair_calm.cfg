CONSTANTS
  I = I
  A = A
  none = none
  NoBody = none
  Unreplayable <- NoUnreplayable
  Refused <- NoRefused
  Bodies <- OneEach
  Scenarios <- CalmScenarios
SPECIFICATION FairSpec
INVARIANTS NoGap
PROPERTIES LogonCompletes LogoutCompletes AllDelivered
CHECK_DEADLOCK FALSE
