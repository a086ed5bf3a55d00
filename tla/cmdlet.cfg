SPECIFICATION FairSpec
CONSTANTS
  Cmdlets <- MCCmdlets
  Records = 2
  Pages = 2
INVARIANTS
  TypeOK
  NothingSilent
  PagesInOrder
  OwnPipeline
PROPERTIES
  StopEnds
