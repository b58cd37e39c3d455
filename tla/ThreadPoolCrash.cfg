SPECIFICATION Spec
CONSTANTS
  NThreads = 2
  Jobs <- ShortJobs
  CreateMayFail = TRUE
INVARIANT NoCrash
