---------------------------- MODULE MCWorldEdit ----------------------------
(* Two editors of the World, one of them for the layout only. *)
EXTENDS WorldEditSession

CONSTANTS layouter, editor

MCTab == {layouter, editor}
MCOwner == [t \in MCTab |-> t]
MCLayouter == {layouter}
=============================================================================
