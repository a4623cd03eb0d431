---------------------------- MODULE MCHistoryFile ----------------------------
(* Instances of HistoryFile for TLC. *)
EXTENDS HistoryFile
=============================================================================
