SPECIFICATION FairSpec
CONSTANTS
  NThreads = 2
  Jobs <- AllJobs
  CreateMayFail = TRUE
INVARIANTS ExactlyOnce DelaysConserved
PROPERTIES KeepsOrder JobEnds
