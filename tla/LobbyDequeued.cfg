SPECIFICATION LobbySpec
CONSTANTS
  a1 = a1
  a2 = a2
  A = A
  Clients = {a1, a2, b1}
  Sessions <- Names
  SessionOf <- Owner
  Rooms = {r1}
  NoClient = NoClient
  NoRoom = NoRoom
  BusyBound = 1
CHECK_DEADLOCK FALSE
INVARIANTS
  WaitersWait
