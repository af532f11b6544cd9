CONSTANTS
  Threads = {0, 1}
  NumOps = 4
  Nodes = {n1, n2, n3, n4}
  Null = Null
  NoVal = NoVal
  MaxCalls = 8
  WaitNonEmpty = TRUE
  Programs <- RunnerPrograms
SPECIFICATION FairSpec
INVARIANT NeverEmpty
PROPERTY AllReturn
CHECK_DEADLOCK FALSE
