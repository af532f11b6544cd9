CONSTANTS
  Threads = {0, 1, 2}
  NumOps = 3
  MaxCallsOfTwo = 5
  MaxCallsOfThree = 4
  Null = Null
  NoVal = NoVal
  Garbage = Garbage
  Unlocked = Unlocked
  Size = 2
  MaxItems = 3
  Impls = {"coarse_stack", "coarse_queue", "msqueue", "hwqueue", "tsstack",
           "tsstack_unlin", "elim_backoff", "elimbackoff", "backoffelim"}
  Programs <- SomePrograms
  Calls <- SomeCalls
SPECIFICATION Spec
INVARIANTS
  WrongOnlyByFlaw
  
  
CONSTRAINT Unflawed
CHECK_DEADLOCK FALSE
