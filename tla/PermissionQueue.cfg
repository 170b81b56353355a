\* Two asserts of a Session, an ask with the ID of one of them, two repliers.
CONSTANTS
  a = a
  b = b
  c = c
  x = x
  y = y
  s1 = s1
  s2 = s2
  None = None
  Request = {a, b, c}
  Asserting = {a, b}
  Id <- MCId
  SessionOf <- MCSession
  Configured <- MCConfigured
  Save <- MCSave
  Replier = {p1, p2}
  MaxReplies = 2
SPECIFICATION Spec
INVARIANTS
  TypeOK
  NoOrphan
  OutcomeWasAnnounced
PROPERTIES
  SweepIsComplete
  AnnouncedIsResumed
CHECK_DEADLOCK FALSE
