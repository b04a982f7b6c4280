SPECIFICATION DeliverySpec
CONSTANTS
  a1 = a1
  a2 = a2
  b = b
  Clients = {a1, a2, b}
  SeatOf <- Seat
  First <- Begins
  Workers = {w}
  Faulty = {a1}
  Talkers = {a1}
  RefusalBound = 1
  NoClient = NoClient
  Capacity = 1
  VersionBound = 2
  BusyBound = 2
CHECK_DEADLOCK FALSE
INVARIANT
  StateFollows
