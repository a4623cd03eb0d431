--------------------------- MODULE MCSendPipeline ---------------------------
(* Instances of SendPipeline for TLC. *)
EXTENDS SendPipeline

\* A chunk of four bytes that compresses well, and one that grows by a byte.
MCSizes == {<<4, 1>>, <<4, 5>>}
=============================================================================
