SPECIFICATION FairSpec
CONSTANTS
  Objects = {o1}
  Args <- ProbeOnly
  MaxSockets = 1
  MaxFaults = 0
  MaxChanges = 1
PROPERTY NoOrphans
