SPECIFICATION Spec
CONSTANTS
  Ids = {a, b, c}
  None = None
  Order <- MCOrder
  Forests <- MCForests
  Callers = {p, q}
  Reuse = FALSE
  Attempts = 2
  MaxMutations = 3
  MaxTail = 1
SYMMETRY Symmetry
INVARIANT ReadsWhatItHolds
CHECK_DEADLOCK FALSE
