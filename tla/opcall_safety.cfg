SPECIFICATION Spec
CONSTANTS
  m1 = m1
  m2 = m2
  Verbs = {"put", "post"}
  FinalVias = {"original-uri", "location", "azure-async-operation", "default"}
  Exceptions = {"none"}
  Targets = {m1, m2}
  None = None
  MaxRunning = 2
SYMMETRY TargetSymmetry
INVARIANTS
  TypeOK
  VerdictHeeded
  PollsWhereTold
  NoWaitStops
  NothingLeftOpen
  NothingUsedAfterDispose
