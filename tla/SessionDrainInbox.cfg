\* A steer and a queued prompt under each of two IDs, two clients, one restart.
CONSTANTS
  Session = session
  NoRow = NoRow
  Client = {c1, c2}
  Request <- FourPrompts
  MaxSteps = 2
  MaxReverts = 0
  MaxCrashes = 1
SPECIFICATION Safe
INVARIANTS
  TypeOK
  TurnIsDue
PROPERTIES
  DeliveryOrder
  AnswersAgree
SYMMETRY Clients
