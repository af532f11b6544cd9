CONSTANTS
  POSINF = 20
  NoVal = NoVal
  Kinds <- SomeKinds
SPECIFICATION FairSpec
INVARIANTS
  TypeOK
  NoInternalError
  SimplifyIsEquivalent
  OkIsLinearizable
  LinearizableIsOk
  SegmentIsRight
  QueueIsRight
PROPERTY Terminates
