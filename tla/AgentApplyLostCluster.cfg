SPECIFICATION FairSpec
CONSTANTS
  Objects <- ClusterObjects
  Wanted <- ClusterWanted
  Workers = {w1}
  MaxChanges = 2
  MaxBreaks = 2
  MaxMisses = 0
  MaxGiveUps = 1
PROPERTY ReDiffConverges
CHECK_DEADLOCK FALSE
