SPECIFICATION Spec
CONSTANTS
  u1 = u1
  u2 = u2
  r1 = r1
  Upload = {u1, u2}
  Run = {r1}
  Nil = Nil
  MaxDamage = 1
  MaxCrash = 0
  MaxFault = 0
INVARIANTS
  ReviewsAreKept
CHECK_DEADLOCK FALSE
