SPECIFICATION Spec
CONSTANTS
  s1 = s1  s2 = s2  s3 = s3
  n1 = n1  n2 = n2
  a1 = a1  a2 = a2
  None = None
  Sessions = {s1, s2}
  Nets = {n1, n2}
  Addrs = {a1, a2}
  IdOf <- OneId
  FixedIP <- AnyIP
  Proto <- AllQUIC
  Resumers = {s2}
  MaxStops = 1
SYMMETRY AddrSymmetry
CHECK_DEADLOCK FALSE
INVARIANT StopReachesAll
