------------------------------ MODULE MCWallet ------------------------------
(* Wallet on small instances; the configurations name the constants. *)
EXTENDS Wallet, TLC

Interchangeable == Permutations(Attempts) \cup Permutations(Staff) \cup Permutations(Keys)
=============================================================================
