-------------------------- MODULE SessionContract --------------------------
(***************************************************************************)
(* What leasing promises of one instance.  Fences are minted in increasing *)
(* order.  A lease is granted with a fence above that of every lease still *)
(* held, so an old lease and its successor may overlap for a while; the    *)
(* sockets opened under them may not.  A lease that is dropped takes its   *)
(* socket with it.                                                         *)
(***************************************************************************)
EXTENDS Integers

CONSTANT Workers

VARIABLES
    minted,   \* the highest fence minted so far
    granted,  \* the leases held, as [worker, fence] records
    live      \* the leases under which a socket is open

vars == <<minted, granted, live>>

Leases == [worker : Workers, fence : 1 .. minted]

Init == minted = 0 /\ granted = {} /\ live = {}

Mint ==
    /\ minted' = minted + 1
    /\ UNCHANGED <<granted, live>>

\* A worker holds one lease at most, so a grant replaces the one it held.
Grant(l) ==
    LET others == {g \in granted : g.worker # l.worker}
    IN /\ \A g \in granted : g.fence < l.fence
       /\ granted' = others \cup {l}
       /\ live' = live \cap others
       /\ UNCHANGED minted

Drop(l) ==
    /\ l \in granted
    /\ granted' = granted \ {l}
    /\ live' = live \ {l}
    /\ UNCHANGED minted

Open(l) ==
    /\ l \in granted
    /\ live = {}
    /\ live' = {l}
    /\ UNCHANGED <<minted, granted>>

Close ==
    /\ live # {}
    /\ live' = {}
    /\ UNCHANGED <<minted, granted>>

Next ==
    \/ Mint
    \/ \E l \in Leases : Grant(l) \/ Drop(l) \/ Open(l)
    \/ Close

Spec == Init /\ [][Next]_vars
=============================================================================
