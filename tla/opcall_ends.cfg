SPECIFICATION FairSpec
CONSTANTS
  m1 = m1
  m2 = m2
  Verbs = {"put", "patch", "post", "delete", "get"}
  FinalVias = {"original-uri", "location", "azure-async-operation", "default"}
  Exceptions = {"none", "default"}
  Targets = {m1}
  None = None
  MaxRunning = 1
INVARIANTS
  EveryResponseHandled
PROPERTIES
  CallEnds
