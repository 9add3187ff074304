CONSTANTS
  Scopes <- EveryScope
  Installed = {TRUE, FALSE}
  Activations = 2
  MaxFaults = 2
  MaxCrashes = 1
  MaxJobs = 1
  Others = 1
  None = None
SPECIFICATION HistorySpec
INVARIANTS
  TypeOK
  OnlyIdleStopped
  OneGeneration
  HoldsRetired
PROPERTIES
  ImplementsInstalledRelease
  OthersHoldKept
  NotLeftStopped
CHECK_DEADLOCK FALSE
