SPECIFICATION FairSpec
CONSTANTS
  MaxErrors = 1
  MaxJobs = 2
  MaxRecords = 1
  MaxObjects = 2
CHECK_DEADLOCK FALSE
INVARIANTS
  TypeOK
  NothingLost
  FailureTold
  StoppedJobIsQuiet
PROPERTIES
  StopEndsWork
  JobFollowsTask
