\* One key, three callers, one live entry and one identity to hand over to.
CONSTANTS
  None = None
  Key = {k1}
  Caller = {c1, c2, c3}
  Entry = {e1, e2}
SPECIFICATION SpecDrainsEnd
INVARIANTS
  TypeOK
  OneExecutionPerKey
  NoAbandonedWaiter
PROPERTIES
  StoppedOnlyEnds
  ImplementsSerialExecution
  CallersAreReleased
