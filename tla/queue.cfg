SPECIFICATION LiveSpec
CONSTANTS
  a = a
  b = b
  Msgs = {a, b}
  MaxStops = 1
  MaxSends = 2
  MaxMoves = 1
  MaxFaults = 1
  MaxCrashes = 1
  Torn = FALSE
  None = None
INVARIANTS TypeOK NoReplay OneOwner NothingLost NoStaleSuccess
PROPERTIES HoldRespected QueueProgress
CHECK_DEADLOCK FALSE
