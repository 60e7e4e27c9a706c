SPECIFICATION Spec
CONSTANTS
  s1 = s1  s2 = s2  s3 = s3
  n1 = n1  n2 = n2
  a1 = a1  a2 = a2
  None = None
  Sessions = {s1, s2}
  Nets = {n1}
  Addrs = {a1}
  IdOf <- OneId
  FixedIP <- AnyIP
  Proto <- AllTCP
  Resumers = {}
  MaxStops = 0
CHECK_DEADLOCK FALSE
INVARIANT CleanupKeepsOthers
