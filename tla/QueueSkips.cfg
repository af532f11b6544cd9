CONSTANTS
  POSINF = 20
  NoVal = NoVal
  NumValues = 4
  MaxConc = 2
SPECIFICATION Spec
INVARIANT QueueOkIsLinearizable
CHECK_DEADLOCK FALSE
