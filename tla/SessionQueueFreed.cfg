CONSTANTS
  p1 = p1  p2 = p2  c1 = c1  c2 = c2  host = host  Null = Null
  s1 = s1  s2 = s2  s3 = s3
  Producers <- TwoProducers
  Consumers <- TwoConsumers
  Closer = host
  Sessions <- NoSessions
  Capacity = 2
  Joins = FALSE
  MaxWakes = 1
SPECIFICATION Spec
INVARIANT FreedIsUnused
CHECK_DEADLOCK FALSE
