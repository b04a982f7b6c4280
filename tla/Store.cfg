SPECIFICATION StoreSpec
CONSTANTS
  Rooms = {r}
  Sessions = {s}
  Callers = {g, h}
  Values = {v, w}
  Nothing = Nothing
SYMMETRY Symmetric
INVARIANTS
  StoreTypeOK
  SameAsMemory
  AnswersAreTrue
