SPECIFICATION Spec
CONSTANTS
  IdentityCorrection = TRUE
  Singular <- MCSingular
  Verbs <- MCVerbs
  VerbMap <- MCVerbMap
  SubjectPrefix <- MCPrefix
  ModulePrefix <- MCModule
  NoInline <- MCNoInline
  DisableViaIdentity = FALSE
  MaxWords = 4
  Threshold = 8
  Azure = TRUE
  SubResourcesByReference = TRUE
  SanitizeNames = TRUE
  Inputs <- MCDiamonds
CHECK_DEADLOCK FALSE
PROPERTIES
  NothingLost
