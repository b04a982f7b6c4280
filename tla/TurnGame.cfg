SPECIFICATION RulesSpec
CONSTANTS
  Plates = {p1, p2, p3, p4, p5, p6}
  MinTokens = 5
  PurseBound = 12
  IntRange = 256
CONSTRAINT Bounded
SYMMETRY Symmetric
INVARIANTS
  RulesTypeOK
  NoGap
  PairToFind
  EmptyPurseEnds
  RoomsArePlayable
CHECK_DEADLOCK FALSE
