SPECIFICATION FairAtomicSpec
CONSTANTS
  Plates = {p1, p2, p3, p4}
  Slots = {s1, s2}
  NoTimer = NoTimer
  NoPlate = NoPlate
  TurnLimit = 3
  MinTokens = 1
  PurseBound = 4
  TokenBound = 2
  Leavers = {}
CONSTRAINT Bounded
ACTION_CONSTRAINT InOrder
PROPERTIES
  TurnIsLimited
