--------------------------- MODULE MCPartialFile ---------------------------
(* Instances of PartialFile for TLC. *)
EXTENDS PartialFile
=============================================================================
