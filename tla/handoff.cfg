SPECIFICATION FairSpec
CONSTANTS
  u1 = u1
  u2 = u2
  Updates <- MCUpdates
  Other = Other
  Retry = Retry
  None = None
  MaxRestarts = 2
  MaxFaults = 2
INVARIANT AcknowledgedMeansReleased
PROPERTY HoldReleased
