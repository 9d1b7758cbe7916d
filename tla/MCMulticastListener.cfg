SPECIFICATION ListenerSpec
CONSTANTS
  c1 = c1
  c2 = c2
  a1 = a1
  a2 = a2
  own = own
  Conn = {c1, c2}
  Packet = {a1, a2, own}
  KeyOf <- MCKeyOf
  MyKey = "me"
  Asking = {a2}
  Window = 1
  MaxClock = 3
INVARIANTS
  ListenerTypeOK
  FilteredIsDelivered
PROPERTIES
  HeardIsDiscovered
  ListenerStops
CHECK_DEADLOCK FALSE
