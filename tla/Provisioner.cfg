SPECIFICATION BothWays
CONSTANTS
  Procs = {p}
  Names = {g}
  Resources = {"Service", "Budget", "Deployment"}
  Plan <- BudgetDropped
  CleanupOrder <- InstanceCleanup
  Optional = {"Budget"}
  Respelled = {"Deployment"}
  Finalized = {"Service"}
  Resync = {TRUE, FALSE}
  Retries = 2
  MaxIncarnations = 2
  MaxTemplates = 2
  MaxEvents = 3
  MaxStrayWrites = 1
  MaxFaults = 1
PROPERTIES
  Provisions
  Settles
CHECK_DEADLOCK FALSE
