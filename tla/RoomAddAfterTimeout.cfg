SPECIFICATION AtomicSpec
CONSTANTS
  Plates = {p1, p2, p3, p4}
  Slots = {s1, s2}
  NoTimer = NoTimer
  NoPlate = NoPlate
  TurnLimit = 3
  MinTokens = 1
  PurseBound = 6
  TokenBound = 4
  Leavers = {}
CONSTRAINT Bounded
SYMMETRY Symmetric
PROPERTIES
  AddOnlyAfterMatch
