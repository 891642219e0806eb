-------------------------- MODULE MCReliableQueue --------------------------
(* Instances of ReliableQueue for TLC. *)
EXTENDS ReliableQueue
=============================================================================
