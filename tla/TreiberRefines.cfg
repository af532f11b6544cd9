CONSTANTS
  Threads = {0, 1, 2}
  NumOps = 2
  Nodes = {n1, n2, n3}
  Null = Null
  NoVal = NoVal
  MaxCalls = 5
  WaitNonEmpty = FALSE
  Programs <- AnyPrograms
SPECIFICATION FairSpec
INVARIANTS
  TypeOK
  MemoryHoldsStack
  NewNodeIsPrivate
  CasInstallsSuccessor
  DestructorIsExact
PROPERTY
  AbstractSpec
  AllReturn
CHECK_DEADLOCK FALSE
