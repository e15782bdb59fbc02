SPECIFICATION FairSpec
CONSTANTS
  Newest = 3
  Sites <- MCSites
INVARIANTS TypeOK NothingBrokenPasses WayBack GoneIsReported
PROPERTIES RollbackRestores FailureRestores QueueDrains
CHECK_DEADLOCK FALSE
