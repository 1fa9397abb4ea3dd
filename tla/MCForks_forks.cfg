SPECIFICATION Spec
CONSTANTS
  Ids = {a, b, c}
  None = None
  Callers = {p, q}
  Chains = {TRUE, FALSE}
  MaxBirths = 3
  MaxTail = 2
  MaxSize = 1
SYMMETRY Symmetry
INVARIANT ForksAreWhole
PROPERTY Refinement
CHECK_DEADLOCK FALSE
