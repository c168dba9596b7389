SPECIFICATION Spec
CONSTANTS
  j1 = j1
  j2 = j2
  k1 = k1
  k2 = k2
  k3 = k3
  Job = {j1, j2}
  Key = {k1, k2, k3}
  Body <- MCBody
  Nil = Nil
  MaxAttempt = 2
  MaxClock = 1
SYMMETRY Symmetry
INVARIANTS
  TypeOK
  OneActivePerWork
  AliasResolves
  ResultIsCurrent
PROPERTIES
  ImplementsLedger
CHECK_DEADLOCK FALSE
