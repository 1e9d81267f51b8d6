------------------------------ MODULE MCPacing ------------------------------
(* Pacing on small instances; the configurations name the other constants. *)
EXTENDS Pacing, TLC

CONSTANTS a, b, i, p, q, exempt

\* Three jobs of one instance.
OfJobs == (p :> i) @@ (q :> i) @@ (exempt :> i)
KindOfJobs == (p :> "new") @@ (q :> "group") @@ (exempt :> "exempt")

Interchangeable == Permutations(Loops)
=============================================================================
