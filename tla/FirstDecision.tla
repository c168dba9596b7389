--------------------------- MODULE FirstDecision ---------------------------
(***************************************************************************)
(* What the attempt fence promises: of the outcomes that are claimed for   *)
(* an attempt one is decided, once and for ever, and only what is decided  *)
(* is ever told to a claimant.                                             *)
(***************************************************************************)
CONSTANTS Claimant, Outcome, None

VARIABLES
  decision,  \* the outcome of the attempt, or None
  told       \* what each claimant was told, or None

decisionVars == <<decision, told>>

Init == decision = None /\ told = [c \in Claimant |-> None]

Decide(d) ==
  /\ decision = None
  /\ decision' = d
  /\ UNCHANGED told

\* A claimant may be told at the very moment its own outcome is decided.
Tell(c, d) ==
  /\ decision \in {None, d}
  /\ told[c] = None
  /\ decision' = d
  /\ told' = [told EXCEPT ![c] = d]

Next ==
  \E d \in Outcome : Decide(d) \/ \E c \in Claimant : Tell(c, d)

Spec == Init /\ [][Next]_decisionVars
=============================================================================
