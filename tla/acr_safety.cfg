SPECIFICATION Spec
CONSTANTS
  w1 = w1
  w2 = w2
  w3 = w3
  Workers = {w1, w2, w3}
  Awaited = {w1, w2}
  Main = Main
  Methods = {"write"}
  AllowInteractive = FALSE
  MaxCalls = 1
  NoDelegate = NoDelegate
SYMMETRY AwaitedSymmetry
CHECK_DEADLOCK FALSE
INVARIANTS
  TypeOK
  TurnExclusion
  ServedBeforeReturn
  CallerWaitsWhileServed
  RunsAtMostOnce
  NothingLeftBehind
