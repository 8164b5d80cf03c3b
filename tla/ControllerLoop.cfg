SPECIFICATION FairFromOne
CONSTANTS
  Objects = {o1, o2}
  Args <- TickArgs
  MaxSockets = 2
  MaxFaults = 1
  MaxChanges = 1
INVARIANTS
  TypeOK
  BaselineSound
  ResumeSound
  ReconnectPending
  NeverSleepsOnWork
PROPERTIES
  ImplementsReconciler
  Converges
  RetryIsExact
  EventuallyReady
CHECK_DEADLOCK FALSE
