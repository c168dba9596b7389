SPECIFICATION Spec
CONSTANTS
  w = w
  c1 = c1
  c2 = c2
  Claimant = {w, c1, c2}
  Wish <- MCWish
  None = None
  Mishap = {"write", "confirm", "kill", "power"}
SYMMETRY Symmetry
INVARIANTS
  TypeOK
  AnswerIsDurable
PROPERTIES
  ImplementsDecision
CHECK_DEADLOCK FALSE
