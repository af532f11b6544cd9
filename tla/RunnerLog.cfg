CONSTANTS
  POSINF = 20
  NoVal = NoVal
  Threads = {0, 1}
  NumOps = 2
  ClockSteps = {1}
  Programs <- RunnerLists
SPECIFICATION Spec
INVARIANTS
  LogIsComplete
  LogKeepsOrder
  NeverAccused
