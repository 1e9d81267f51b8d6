---------------------------- MODULE MCSendQueue ----------------------------
(* SendQueue on small instances; the configurations name the constants. *)
EXTENDS SendQueue, TLC

Interchangeable == Permutations(Workers)
=============================================================================
