\* Two remote workspaces and a local one, two requests to move the Session that may overlap,
\* three events, one fault.
CONSTANTS
  s = s
  w1 = w1
  w2 = w2
  l1 = l1
  p = p
  Message = message
  None = None
  Control = c
  Aggregate <- MCAggregate
  EventId <- MCEventId
  Data <- MCData
  Owner <- MCOwner
  Session = s
  Remote = {w1, w2}
  Local = {l1}
  Project = p
  Origin = {w1}
  MaxEvents = 3
  MaxWarps = 2
  MaxFaults = 1
  MaxStarts = 1
SPECIFICATION Spec
INVARIANTS
  TypeOK
  TargetHoldsTheLog
PROPERTIES
  OldWorkspaceIsShutOut
  ConnectionCatchesUp
CHECK_DEADLOCK FALSE
