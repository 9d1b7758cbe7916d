SPECIFICATION SearchSpec
CONSTANTS
  a1 = a1
  own = own
  m1 = m1
  m2 = m2
  Packet = {a1, own}
  KeyOf <- MCKeyOf
  MyKey = "me"
  LocalIP = {"10.0.0.1"}
  Loopback = "127.0.0.1"
  Subnet <- MCSubnet
  Port = {1}
  DefaultPort = 1
  MyPort = 0
  MyNamed = TRUE
  Slots = 2
  Speaks <- MCSpeaks
  Service = {m1, m2}
  Incomplete = {m2}
  AddressOf <- MCAddressOf
  Deadline = 5
  MaxClock = 6
INVARIANTS
  SearchTypeOK
  SlotsHeldByProbes
  FoundInTimeIsListed
PROPERTIES
  SearchEnds
  SearchReleased
CHECK_DEADLOCK FALSE
