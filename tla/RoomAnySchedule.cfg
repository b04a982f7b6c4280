SPECIFICATION Spec
CONSTANTS
  Plates = {p1, p2, p3, p4}
  Slots = {s1, s2}
  NoTimer = NoTimer
  NoPlate = NoPlate
  TurnLimit = 1
  MinTokens = 1
  PurseBound = 5
  TokenBound = 3
  Leavers = {0, 1}
CONSTRAINT Bounded
SYMMETRY Symmetric
INVARIANTS
  PlacementPairs
  LocksHaveOwners
  FinisherStays
