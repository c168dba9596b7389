-------------------------- MODULE MCCompanionAgent --------------------------
(***************************************************************************)
(* CompanionAgent on one or two jobs.  A transcription has one track, a    *)
(* fixture two units: the second is what a retried fixture has left.       *)
(***************************************************************************)
EXTENDS CompanionAgent, FiniteSets, TLC

CONSTANTS j1, j2, k1, k2

Craig(profile) ==
  [kind |-> "craig", target |-> "here", source |-> "s1", profile |-> profile, units |-> 1]
Fixture ==
  [kind |-> "fixture", target |-> "here", source |-> "s1", profile |-> "", units |-> 2]

OneBody == {Craig("p1")}
AllBodies == {Craig("p1"), Craig("p2"), Fixture}

Symmetry == Permutations({j1, j2}) \cup Permutations({k1, k2})

-----------------------------------------------------------------------------
(* Bound: what is explored from a state.  One job of one key goes through  *)
(* its attempts, with every fault; a pair of transcriptions, whose work    *)
(* may be the same, through one attempt each in an Agent that stays up,     *)
(* with one cancel or retry handler at a time.                             *)
(* The profiles are alike: the first of a pair has p1.                     *)
Used == DOMAIN jobs \cup DOMAIN receipts
Carried == {jobs[j].body : j \in DOMAIN jobs}

Alone ==
  /\ Cardinality(Used) <= 1 /\ Cardinality(DOMAIN aliases) <= 1
  /\ Craig("p2") \notin Carried

Pair ==
  /\ Cardinality(Used) = 1 => Craig("p2") \notin Carried
  /\ Fixture \notin Carried
  /\ \A j \in DOMAIN jobs :
       /\ jobs[j].attempt <= 1 /\ jobs[j].status # "interrupted"
       /\ jobs[j].status = "queued" => jobs[j].attempt = 0
  /\ loop.pc \notin {"down", "halting"} /\ ~ stopping /\ ~ paused
  /\ DOMAIN jobs # {}
  /\ Cardinality({j \in Job : cancelling[j].pc # "none"}) + (IF retrying = Nil THEN 0 ELSE 1) <= 1

AloneOrPair == Alone \/ Pair
=============================================================================
