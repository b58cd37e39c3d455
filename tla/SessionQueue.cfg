CONSTANTS
  p1 = p1  p2 = p2  c1 = c1  c2 = c2  host = host  Null = Null
  s1 = s1  s2 = s2  s3 = s3
  Producers <- TwoProducers
  Consumers <- TwoConsumers
  Closer = host
  Sessions <- ThreeSessions
  Capacity = 2
  Joins = TRUE
  MaxWakes = 1
SPECIFICATION FairSpec
INVARIANTS NoLostWakeup
PROPERTIES KeepsOrder QueuedIsFetched ClosingEnds
CHECK_DEADLOCK FALSE
