CONSTANTS
  MaxNumber = 3
  MaxRecords = 4
  Misread = {1, 9}
  MaxMadeUp = 2
SPECIFICATION Spec
INVARIANTS NumbersNotReused ReceivedNotLost StoredSurvives AscendsAfterRestart
PROPERTIES Durable
CHECK_DEADLOCK FALSE
