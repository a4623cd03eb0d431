------------------------------- MODULE MCRelay -------------------------------
(* Instances of Relay for TLC. *)
EXTENDS Relay, TLC

RelaySymmetry == Permutations(Token) \cup Permutations(Addr)
=============================================================================
