SPECIFICATION Spec
CONSTANTS
  s1 = s1
  s2 = s2
  f1 = f1
  f2 = f2
  Streams = {s1, s2}
  Feeds = {f1, f2}
  Lanes = {"mail", "bulletin"}
  MaxHead <- Heads
  Capacity = 2
  MaxInvalidations = 1
  None = None
SYMMETRY StreamSymmetry
INVARIANTS TypeOK QuietMeansCurrent FeedKept
PROPERTIES SilentOnceInvalidated ImplementsHintStream
CHECK_DEADLOCK FALSE
