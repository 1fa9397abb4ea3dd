SPECIFICATION Spec
CONSTANTS
  Ids = {a, b, c}
  None = None
  Order <- MCOrder
  Forests <- MCForests
  Callers = {p, q}
  Reuse = FALSE
  Attempts = 2
  MaxMutations = 3
  MaxTail = 1
SYMMETRY Symmetry
INVARIANTS AnswersAreTrue OnlyPurgesDeadlock TablesAreSound
PROPERTIES Refinement
CHECK_DEADLOCK FALSE
