CONSTANTS
  POSINF = 20
  NoVal = NoVal
  Kinds <- DuplicatingKind
SPECIFICATION Spec
INVARIANT OkIsLinearizable
CHECK_DEADLOCK FALSE
