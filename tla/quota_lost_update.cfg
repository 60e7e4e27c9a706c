SPECIFICATION Spec
CONSTANTS
  q1 = q1  q2 = q2
  p1 = p1  p2 = p2
  c1 = c1  c2 = c2
  None = None
  Quotas = {q1, q2}
  Proxies = {p1}
  Committers = {c1, c2}
  Src <- There
  Dst <- Back
  MaxLimit <- Unlimited
  MaxChunk = 2
  Recorded = 1
  MaxBytes = 3
  MaxRecords = 1
INVARIANT UpdatesAdd
