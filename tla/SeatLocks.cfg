CONSTANTS
  t1 = t1  t2 = t2  t3 = t3
  None = None
  Threads <- ThreeThreads
  Rows = 1
  Cols = 3
  Requests <- RingRequests
  MaxOps = 1
SPECIFICATION FairSpec
INVARIANTS TypeOK CounterExact
PROPERTIES AtomicOperations EveryCommandReturns
CHECK_DEADLOCK FALSE
