---------------------------- MODULE MCFairQueue ----------------------------
(* Instances of FairQueue for TLC. *)
EXTENDS FairQueue, TLC

Identical == Permutations(Jobs) \cup Permutations(Workers) \cup Permutations(Tenants)
=============================================================================
