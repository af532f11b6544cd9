CONSTANTS
  MaxThr = 2
  CountEvery = 12
  NumHistories = 3
  Lengths = {1, 2}
  Sizes <- SomeSizes
  AlgAnswer <- Answer
  CmpAnswer <- OtherAnswer
  Drawn <- SomeDrawn
SPECIFICATION FairSpec
INVARIANTS
  EveryHistoryOnce
  TotalsAddUp
  NothingUnreceived
  FilesAreExact
PROPERTY AllFinish
CHECK_DEADLOCK FALSE
