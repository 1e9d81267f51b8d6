---------------------------- MODULE MCBroadcast -----------------------------
(* Broadcast on small instances; the configurations name the constants. *)
EXTENDS Broadcast, TLC

Interchangeable == Permutations(Keepers)
=============================================================================
