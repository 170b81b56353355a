\* Two prompts, a shell and a cancel of one Session.
CONSTANTS
  Prompt = {p1, p2}
  Shell = {s1}
  Canceller = {k1}
  None = None
SPECIFICATION Spec
INVARIANTS
  TypeOK
  BusyWithItsWork
PROPERTIES
  CallersAreAnswered
CHECK_DEADLOCK FALSE
