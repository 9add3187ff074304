SPECIFICATION LiveSpec
CONSTANTS
  None = None
  a = a
  b = b
  ab = ab
  r1 = r1
  r2 = r2
  r3 = r3
  u1 = u1
  u2 = u2
  Chats = {a, b}
  Messages = {m1, m2}
  Direct <- OneDirect
  Pairs = {ab}
  Ends <- OnePair
  Grants <- AnyAuthority
  Requests = {r1}
  Runs = {u1}
  Limits = {1}
  Claims = {c1, c2}
  LegacyReads <- NoLegacy
  Senders = {a, b}
  Readers = {b}
  Wakeable = {b}
  Announcing = {b}
PROPERTIES
  MailNotStranded WakeForNewMail
INVARIANTS TypeOK LaunchesAdvance
CHECK_DEADLOCK FALSE
