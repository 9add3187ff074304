SPECIFICATION LiveSpec
CONSTANTS
  s1 = s1
  Streams = {s1}
  Requests = {q1}
  Lanes = {"mail", "bulletin"}
  MaxHead <- Heads
  MaxChanges = 2
  PeerLimit = 2
  MaxClosures = 1
  None = None
INVARIANTS TypeOK QuietMeansCurrent
PROPERTIES SilentOnceEnded ClosuresReturn ImplementsHintStream
CHECK_DEADLOCK FALSE
