SPECIFICATION Spec
CONSTANTS
  m1 = m1
  m2 = m2
  Verbs = {"get"}
  FinalVias = {"original-uri", "location", "azure-async-operation", "default"}
  Exceptions = {"specific"}
  Targets = {m1}
  None = None
  MaxRunning = 1
INVARIANTS
  EveryResponseHandled
