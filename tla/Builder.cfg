CONSTANTS
  Exposure <- MCExposure
  DefaultCheck = TRUE
  MaxHeaderMatches = 2
  MaxLifted = 2
  ClassIsDefault = FALSE
  Families <- MCFamilies
  Requests <- MCRequests
SPECIFICATION Spec
CHECK_DEADLOCK FALSE
INVARIANTS
  HealthyMeansServed
  BuildTranslates
  NamesOwned
  ChecksSettled
  PrecedenceHeld
PROPERTIES
  RelistChangesNothing
  NewcomerTakesNothing
