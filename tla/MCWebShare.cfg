SPECIFICATION WebSpec
CONSTANTS
  a1 = a1
  a2 = a2
  c1 = c1
  c2 = c2
  v1 = v1
  v2 = v2
  x = x
  None = None
  Starter = {a1, a2}
  Stopper = {c1, c2}
  Deadline = {c1}
  Visit = {v1, v2}
  SharedFile = {x}
  Shares <- MCShares
INVARIANTS
  WebTypeOK
  SeenIsOneShare
PROPERTIES
  PortReleased
  NobodyLockedOut
CHECK_DEADLOCK FALSE
