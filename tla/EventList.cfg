CONSTANTS
  t1 = t1  t2 = t2  t3 = t3  a = a  b = b
  Threads <- ThreeThreads
  Ids <- TwoIds
  MaxOps <- TwoThenOne
  AllocMayFail = TRUE
SPECIFICATION FairSpec
INVARIANTS AppendsAtTail
PROPERTIES AtomicOperations ReturnWhileMemoryLasts
CHECK_DEADLOCK FALSE
