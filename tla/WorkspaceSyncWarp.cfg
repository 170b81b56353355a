\* Two remote workspaces and a local one, one move, no fault.
CONSTANTS
  s = s
  w1 = w1
  w2 = w2
  l1 = l1
  p = p
  Message = message
  None = None
  Control = c
  Aggregate <- MCAggregate
  EventId <- MCEventId
  Data <- MCData
  Owner <- MCOwner
  Session = s
  Remote = {w1, w2}
  Local = {l1}
  Project = p
  Origin = {c}
  MaxEvents = 4
  MaxWarps = 1
  MaxFaults = 0
  MaxStarts = 1
SPECIFICATION Safe
INVARIANT MessagesReachControl
CHECK_DEADLOCK FALSE
