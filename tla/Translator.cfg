SPECIFICATION Spec
CONSTANTS
  IRs <- MCIRs
  MaxStops = 1
INVARIANTS
  BatchAccepted
  DesiredReached
  NothingMissingMeanwhile
  ClustersHeld
PROPERTY AdoptedExact
