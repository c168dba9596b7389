SPECIFICATION Spec
CONSTANTS
  w = w
  c1 = c1
  c2 = c2
  Claimant = {w, c1, c2}
  Wish <- MCWish
  None = None
  Mishap = {"fsync"}
SYMMETRY Symmetry
INVARIANTS
  AnswerIsDurable
CHECK_DEADLOCK FALSE
