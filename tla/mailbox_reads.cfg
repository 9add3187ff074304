SPECIFICATION Spec
CONSTANTS
  None = None
  a = a
  b = b
  ab = ab
  r1 = r1
  r2 = r2
  r3 = r3
  u1 = u1
  u2 = u2
  Chats = {a, b}
  Messages = {m1, m2, m3}
  Direct <- NoDirect
  Pairs = {ab}
  Ends <- OnePair
  Grants <- FullAuthority
  Requests = {r1, r2, r3}
  Runs = {u1, u2}
  Limits = {1, 2}
  Claims = {}
  LegacyReads <- AmbiguousKey
  Senders = {a}
  Readers = {b}
  Wakeable = {}
  Announcing = {}
SYMMETRY MessageSymmetry
INVARIANTS
  ReceiptExact
  SnapshotHonoured
  ReadBeatsCancel
  SnapshotExhausted
  RetryReplays
CHECK_DEADLOCK FALSE
