SPECIFICATION AgentSpec
CONSTANTS
  j1 = j1
  j2 = j2
  k1 = k1
  k2 = k2
  Job = {j1}
  Key = {k1}
  Body <- OneBody
  Nil = Nil
  MaxAttempt = 2
  MaxClock = 0
  Fault = {}
PROPERTIES
  CommitIsFinal
CHECK_DEADLOCK FALSE
