---------------------------- MODULE MCTraversal ----------------------------
(* Instances of Traversal for TLC. *)
EXTENDS Traversal
=============================================================================
