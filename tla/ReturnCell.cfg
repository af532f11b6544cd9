CONSTANTS
  Threads = {0, 1, 2}
  NumOps = 3
  MaxCallsOfTwo = 3
  MaxCallsOfThree = 3
  Null = Null
  NoVal = NoVal
  Garbage = Garbage
  Unlocked = Unlocked
  Size = 2
  MaxItems = 3
  Impls = {"backoffelim"}
  Programs <- SomePrograms
  Calls <- SomeCalls
SPECIFICATION Spec
INVARIANT AlwaysReturnCell
CHECK_DEADLOCK FALSE
