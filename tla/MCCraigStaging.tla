--------------------------- MODULE MCCraigStaging ---------------------------
(***************************************************************************)
(* One recording that is uploaded twice, the second time over damaged      *)
(* tracks, and one run of it.                                              *)
(***************************************************************************)
EXTENDS CraigStaging

CONSTANTS u1, u2, r1
=============================================================================
