------------------------- MODULE MCIngestionBuffer -------------------------
(* Instances of IngestionBuffer for TLC. *)
EXTENDS IngestionBuffer
=============================================================================
