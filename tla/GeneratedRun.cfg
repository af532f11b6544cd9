CONSTANTS
  POSINF = 20
  NoVal = NoVal
  NumValues = 3
  MaxConc = 3
SPECIFICATION Spec
INVARIANTS
  VerdictIsRight
  WorklistIsEquivalent
  WorklistIsDisjoint
  SegmentIsRight
  QueueIsRight
  AutomatonIsSound
