SPECIFICATION PoliteSpec
CONSTANTS
  a1 = a1
  a2 = a2
  c1 = c1
  c2 = c2
  v1 = v1
  v2 = v2
  x = x
  None = None
  Starter = {a1, a2}
  Stopper = {c1}
  Deadline = {}
  Visit = {v1}
  SharedFile = {x}
  Shares <- MCShares
PROPERTIES
  StopReturns
CHECK_DEADLOCK FALSE
