--------------------------- MODULE MCAttemptFence ---------------------------
(***************************************************************************)
(* One worker that asks for commit and two cancel requests.                *)
(***************************************************************************)
EXTENDS AttemptFence, TLC

CONSTANTS w, c1, c2

MCWish == [c \in {w, c1, c2} |-> IF c = w THEN "commit" ELSE "cancel"]
Symmetry == Permutations({c1, c2})
=============================================================================
