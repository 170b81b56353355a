\* Three calls, one of them planned, two anchors shown, one process death.
CONSTANTS
  c1 = c1
  c2 = c2
  c3 = c3
  planned = planned
  other = other
  None = None
  Call = {c1, c2, c3}
  Dimension = {planned, other}
  DimensionOf <- Declared
  Planned = {planned}
  MaxAnchors = 2
  MaxCrashes = 1
SPECIFICATION Spec
CONSTRAINTS
  ThirdMatters
  BlockIsLast
INVARIANTS
  TypeOK
  ReceiptsAreInLedger
PROPERTIES
  PlannedAnchorsSurvive
  AbortSettlesCalls
  DecisionsReachTheTranscript
