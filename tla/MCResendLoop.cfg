CONSTANTS
  plain = plain
  broken = broken
  Bodies <- MCBodies
  Unreplayable <- MCUnreplayable
  MaxSeq = 4
SPECIFICATION Spec
INVARIANTS Contiguous NoMessageSkipped OnlyStored RangeCovered
CHECK_DEADLOCK FALSE
