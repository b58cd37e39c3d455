CONSTANTS
  alice = alice  bob = bob  w1 = w1  w2 = w2  e1 = e1  Host = Host  Null = Null
  Clients <- OneClient
  Workers <- OneWorker
  Events <- OneEvent
  Seats = 2
  QueueSize = 1
  PipeSize = 1
  Asks <- One
  MaxSignals = 0
  Mortal <- OneClient
SPECIFICATION FairSpec
PROPERTIES WorkersRepeat
CHECK_DEADLOCK FALSE
