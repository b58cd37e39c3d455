SPECIFICATION FairBatchSpec
CONSTANTS
  Files = {f1, f2, f3, f4}
  MaxProc = 2
  ForkMayFail = TRUE
INVARIANTS ChildrenAccounted
PROPERTY BatchEnds
