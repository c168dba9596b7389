----------------------------- MODULE MCJobStore -----------------------------
(***************************************************************************)
(* JobStore on two jobs and three keys.  Two bodies are the same work for  *)
(* two destinations, the third is a synthetic fixture.                     *)
(***************************************************************************)
EXTENDS JobStore, TLC

CONSTANTS j1, j2, k1, k2, k3

Craig(target, units) ==
  [kind |-> "craig", target |-> target, source |-> "s1", profile |-> "p1", units |-> units]

MCBody == {Craig("here", 2), Craig("there", 2),
           [kind |-> "fixture", target |-> "here", source |-> "s1", profile |-> "", units |-> 2]}

Symmetry == Permutations({j1, j2}) \cup Permutations({k1, k2, k3})
=============================================================================
