SPECIFICATION FairSpec
CONSTANTS
  Objects <- MCObjects
  Wanted <- MCWanted
  Workers = {w1, w2}
  MaxChanges = 1
  MaxBreaks = 2
  MaxMisses = 2
  MaxGiveUps = 1
INVARIANTS
  RepliesAreOwn
  ReplayableHeld
  SuccessHeld
  AbandonStops
PROPERTY DriftConverges
CHECK_DEADLOCK FALSE
