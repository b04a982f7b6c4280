SPECIFICATION InTimeSpec
CONSTANTS
  Plates = {p1, p2, p3, p4}
  Slots = {s1, s2}
  NoTimer = NoTimer
  NoPlate = NoPlate
  TurnLimit = 3
  MinTokens = 1
  PurseBound = 8
  TokenBound = 6
  Leavers = {0, 1}
CONSTRAINT Bounded
SYMMETRY Symmetric
INVARIANTS
  TypeOK
  OneTurnEnder
  GapFree
  EmptyPurseWins
  OneResult
  HonestResult
PROPERTIES
  AddOnlyAfterMatch
  OneAddPerTurn
  ImplementsRules
