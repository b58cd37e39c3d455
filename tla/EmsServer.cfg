CONSTANTS
  alice = alice  bob = bob  w1 = w1  w2 = w2  e1 = e1  Host = Host  Null = Null
  Clients <- TwoClients
  Workers <- TwoWorkers
  Events <- OneEvent
  Seats = 2
  QueueSize = 1
  PipeSize = 1
  Asks <- Mixed
  MaxSignals = 2
  Mortal <- OnlyBob
SPECIFICATION Spec
SYMMETRY Alike
INVARIANTS TypeOK NobodyIsLeftWaiting
PROPERTIES AtomicRequests
CHECK_DEADLOCK FALSE
