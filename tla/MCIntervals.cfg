CONSTANTS
  POSINF = 6
  MaxAtoms = 3
  MaxNodes = 5
SPECIFICATION Spec
INVARIANTS
  CoverIsExact
  CoverIsNormal
  ComplementIsExact
  IntersectIsExact
  TreeIsSearchTree
  SearchIsExact
CHECK_DEADLOCK FALSE
