------------------------- MODULE MCRendezvousServer -------------------------
(* Instances of RendezvousServer for TLC. *)
EXTENDS RendezvousServer

\* Device 1 has an identity of its own, devices 2 and 3 are two processes of one
\* installation.
MCFingerprint == [d \in Device |-> d \div 2]
=============================================================================
