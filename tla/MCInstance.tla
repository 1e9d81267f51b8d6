----------------------------- MODULE MCInstance -----------------------------
(* Instance on small instances; the configurations name the constants. *)
EXTENDS Instance
=============================================================================
