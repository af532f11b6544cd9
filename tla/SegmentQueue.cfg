CONSTANTS
  POSINF = 20
  NoVal = NoVal
  NumValues = 3
  MaxConc = 2
SPECIFICATION Spec
INVARIANT SegmentIsRightOnQueues
CHECK_DEADLOCK FALSE
