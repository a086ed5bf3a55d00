SPECIFICATION FairSpec
CONSTANTS
  w1 = w1
  w2 = w2
  w3 = w3
  Workers = {w1}
  Awaited = {w1}
  Main = Main
  Methods = {"write", "throw"}
  AllowInteractive = FALSE
  MaxCalls = 1
  NoDelegate = NoDelegate
CHECK_DEADLOCK FALSE
PROPERTIES
  CallsEnd
