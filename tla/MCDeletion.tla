----------------------------- MODULE MCDeletion -----------------------------
(* Instances of Deletion for TLC: two projects, and a deletion after the first. *)
EXTENDS Deletion

CONSTANTS p1, p2, t1, t2
=============================================================================
