SPECIFICATION Spec
CONSTANTS
  a = a
  b = b
  Msgs = {a, b}
  MaxStops = 1
  MaxSends = 1
  MaxMoves = 0
  MaxFaults = 0
  MaxCrashes = 0
  Torn = FALSE
  None = None

PROPERTY StopHolds
CHECK_DEADLOCK FALSE
