SPECIFICATION FairSpec
CONSTANTS
  w1 = w1
  w2 = w2
  w3 = w3
  Workers = {w1, w2}
  Awaited = {w1}
  Main = Main
  Methods = {"prompt", "throw", "write"}
  AllowInteractive = FALSE
  MaxCalls = 1
  NoDelegate = NoDelegate
CHECK_DEADLOCK FALSE
INVARIANTS
  OnlyMainPrompts
PROPERTIES
  MainLeaves
  AwaitedCallsEnd
  CancellationFreesHolder
  ImplementsChannel
