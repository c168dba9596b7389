SPECIFICATION AgentSpec
CONSTANTS
  j1 = j1
  j2 = j2
  k1 = k1
  k2 = k2
  Job = {j1, j2}
  Key = {k1, k2}
  Body <- AllBodies
  Nil = Nil
  MaxAttempt = 2
  MaxClock = 0
  Fault = {"pause", "crash", "stop"}
CONSTRAINT AloneOrPair
SYMMETRY Symmetry
INVARIANTS
  AgentTypeOK
  RunningIsOwned
  WorkerIsGuarded
  SuccessIsVisible
  NoForgottenRun
CHECK_DEADLOCK FALSE
