-------------------------- MODULE MCAttachedRunner --------------------------
(***************************************************************************)
(* Instances of AttachedRunner for TLC: a binding and its neighbour.       *)
(***************************************************************************)
EXTENDS AttachedRunner

CONSTANTS b1, b2
=============================================================================
