SPECIFICATION StartupSpec
CONSTANTS
  r1 = r1
  d1 = d1
  k1 = k1
  k2 = k2
  k3 = k3
  k4 = k4
  Receiver = {r1}
  Sender = {d1}
  Plain = {}
  FirstPort = 1
  LastPort = 2
  Id = {k1, k2, k3, k4}
INVARIANTS
  StartupTypeOK
  IdentityStable
PROPERTIES
  PairKept
  StartSettles
CHECK_DEADLOCK FALSE
