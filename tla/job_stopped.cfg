SPECIFICATION FairSpec
CONSTANTS
  MaxErrors = 1
  MaxJobs = 1
  MaxRecords = 1
  MaxObjects = 1
CHECK_DEADLOCK FALSE
PROPERTIES
  JobEnds
