SPECIFICATION Spec
CONSTANTS
  q1 = q1  q2 = q2
  p1 = p1  p2 = p2
  c1 = c1  c2 = c2
  None = None
  Quotas = {q1, q2}
  Proxies = {p1, p2}
  Committers = {c1}
  Src <- There
  Dst <- Back
  MaxLimit = 2
  MaxChunk = 1
  Recorded = 2
  MaxBytes = 2
  MaxRecords = 1
SYMMETRY Symmetry
INVARIANTS HandedOnce OvershootBounded
