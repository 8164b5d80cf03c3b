SPECIFICATION Spec
CONSTANTS
  Procs = {old, new}
  Names = {g}
  Resources = {"Budget"}
  Plan <- OnAndOff
  CleanupOrder <- BudgetCleanup
  Optional = {"Budget"}
  Respelled = {}
  Finalized = {}
  Resync = {FALSE}
  Retries = 2
  MaxIncarnations = 1
  MaxTemplates = 3
  MaxEvents = 2
  MaxStrayWrites = 1
  MaxFaults = 0
INVARIANTS
  DeletesOnlyDisowned
  StaleWritesRefused
  MemoSound
PROPERTY ForeignUntouched
CHECK_DEADLOCK FALSE
SYMMETRY Symmetry
