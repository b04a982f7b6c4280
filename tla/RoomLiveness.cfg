SPECIFICATION FairAtomicSpec
CONSTANTS
  Plates = {p1, p2, p3, p4}
  Slots = {s1, s2}
  NoTimer = NoTimer
  NoPlate = NoPlate
  TurnLimit = 1
  MinTokens = 1
  PurseBound = 6
  TokenBound = 3
  Leavers = {1}
CONSTRAINT Bounded
ACTION_CONSTRAINT InOrder
INVARIANTS
  NoPeeking
PROPERTIES
  FinishedIsFinal
  LocksAreReleased
  EndIsCarriedOut
