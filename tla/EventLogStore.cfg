\* Two fibers that publish or replay, two owners, one removal, no tails.
CONSTANTS
  a = a
  b = b
  x = x
  y = y
  z = z
  w1 = w1
  w2 = w2
  d1 = d1
  d2 = d2
  None = None
  Aggregate = {a, b}
  EventId = {x, y}
  Data = {d1, d2}
  Owner = {w1, w2}
  Fiber = {f1, f2}
  Reader = {}
  Chunk <- Chunks
  MaxSeq = 1
  MaxRemoves = 1
SYMMETRY Owners
SPECIFICATION Safe
INVARIANTS
  TypeOK
  LogIsSound
  OneWriter
