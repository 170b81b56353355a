\* One call, and no process death.
CONSTANTS
  c1 = c1
  c2 = c2
  c3 = c3
  planned = planned
  other = other
  None = None
  Call = {c1}
  Dimension = {planned, other}
  DimensionOf <- Declared
  Planned = {planned}
  MaxAnchors = 1
  MaxCrashes = 0
SPECIFICATION Safe
PROPERTIES
  AbsenceIsTrue
