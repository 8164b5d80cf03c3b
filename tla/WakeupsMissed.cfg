SPECIFICATION Spec
CONSTANTS
  Services = {s1, s2}
  Capacity = 2
  Resync = FALSE
  MaxEvents = 2
  MaxFaults = 0
INVARIANT AnyChangeReconciles
CHECK_DEADLOCK FALSE
