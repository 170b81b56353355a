\* One aggregate, followed by one tail while two fibers publish or replay.
CONSTANTS
  a = a
  b = b
  x = x
  y = y
  z = z
  w1 = w1
  w2 = w2
  d1 = d1
  d2 = d2
  None = None
  Aggregate = {a}
  EventId = {x, y}
  Data = {d1}
  Owner = {}
  Fiber = {f1, f2}
  Reader = {t1}
  Chunk <- OneHistory
  MaxSeq = 1
  MaxRemoves = 0
SPECIFICATION Spec
INVARIANTS
  TailHasNoGap
PROPERTIES
  AnnouncedOnce
  TailCatchesUp
