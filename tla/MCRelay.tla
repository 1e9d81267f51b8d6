------------------------------ MODULE MCRelay -------------------------------
(* Relay on small instances; the configurations name the other constants. *)
EXTENDS Relay, TLC

CONSTANTS k, hook, s, t

\* Three events of one key; the configuration says that the first does not parse.
KeyOfEvents == (1 :> k) @@ (2 :> k) @@ (3 :> k)
=============================================================================
