------------------------------ MODULE MCLease ------------------------------
(* Lease on small instances; the configurations name the constants. *)
EXTENDS Lease, TLC

Interchangeable == Permutations(Workers)

\* The part of the state space without drains and late builds, for the run
\* whose counterexample needs three workers and neither of them.
Undisturbed == \A w \in Workers : stray[w] = NoStray /\ ~drain[w]
=============================================================================
