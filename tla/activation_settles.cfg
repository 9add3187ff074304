CONSTANTS
  Scopes <- EveryScope
  Installed = {TRUE, FALSE}
  Activations = 1
  MaxFaults = 2
  MaxCrashes = 1
  MaxJobs = 1
  Others = 1
  None = None
SPECIFICATION LiveSpec
PROPERTIES
  PendingSettles
CHECK_DEADLOCK FALSE
