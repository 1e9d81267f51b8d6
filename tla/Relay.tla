------------------------------- MODULE Relay --------------------------------
(***************************************************************************)
(* The event outbox, its relay and the webhook deliveries.                 *)
(*                                                                         *)
(* A business transaction leaves an event in the outbox.  A drain tick     *)
(* claims the oldest events that no other tick has locked, hands the       *)
(* newest of each coalesce key to the realtime publisher, and in the same  *)
(* transaction writes the webhook deliveries and marks the events: a tick  *)
(* that dies in between is done again.  The dispatcher claims a delivery   *)
(* by moving its next attempt away and lets go of the row; the request     *)
(* follows, and the outcome is written by a transaction that asks neither  *)
(* who claimed the row last nor what has become of it.                     *)
(***************************************************************************)
EXTENDS Integers, FiniteSets

CONSTANTS
    Events,           \* by their ids
    Key, NoKey,       \* the coalesce key of an event; NoKey: not for sse
    Hooked,           \* the events for webhooks
    Malformed,        \* the sse events that do not parse
    Ephemeral,        \* the sse events that may be dropped
    Limit,            \* of a claim
    DepthLimit,       \* backpressureDepthThreshold
    Ceiling,          \* POISON_ATTEMPT_CEILING
    Drains,           \* drain ticks that may overlap
    Endpoints, Senders, NoEvent, NoEndpoint,
    MaxAttempts, Threshold,   \* of the dispatcher
    Slow,             \* whether a claimed delivery may outlast its visibility
    MaxCrashes, MaxPatches    \* bounds

ASSUME RelayAssumption ==
    /\ Events \subseteq Nat \ {0} /\ IsFiniteSet(Events)
    /\ NoEvent \notin Events /\ NoEndpoint \notin Endpoints
    /\ DOMAIN Key = Events
    /\ Hooked \subseteq Events
    /\ Malformed \cup Ephemeral \subseteq {e \in Events : Key[e] # NoKey}
    /\ \A e \in Events : e \in Hooked \/ Key[e] # NoKey
    /\ {Limit, Ceiling, MaxAttempts, Threshold} \subseteq Nat \ {0}
    /\ {DepthLimit, MaxCrashes, MaxPatches} \subseteq Nat
    /\ Slow \in BOOLEAN

VARIABLES
    outbox,    \* outbox_events
    drain,     \* what each drain tick has locked, and will drop of it
    framed,    \* history: the events handed to the publisher
    endpoint,  \* webhook_endpoints
    delivery,  \* webhook_deliveries
    sender,    \* the requests of the dispatcher
    announced, \* history: webhook.endpoint_disabled since an endpoint was enabled
    crashes, patches

vars == <<outbox, drain, framed, endpoint, delivery, sender, announced,
          crashes, patches>>
events == <<outbox, drain, framed>>
hooks == <<endpoint, sender, announced>>
bounds == <<crashes, patches>>

Rows == [state : {"absent", "waiting", "published", "poisoned", "deleted"},
         attempts : 0 .. Ceiling]
Hooks == [exists : BOOLEAN, enabled : BOOLEAN, failures : Nat]
Deliveries == [status : {"none", "pending", "sent", "failed"},
               attempt : 0 .. MaxAttempts,    \* the CHECK of the table
               due : BOOLEAN]                 \* next_attempt_at has come
Requests == [event : Events \cup {NoEvent}, endpoint : Endpoints \cup {NoEndpoint},
             attempt : 0 .. MaxAttempts]
NoTick == [rows |-> {}, dropped |-> {}]
NoRequest == [event |-> NoEvent, endpoint |-> NoEndpoint, attempt |-> 0]
NoDelivery == [status |-> "none", attempt |-> 0, due |-> FALSE]
Pending == [status |-> "pending", attempt |-> 0, due |-> TRUE]

Init ==
    /\ outbox = [e \in Events |-> [state |-> "absent", attempts |-> 0]]
    /\ drain = [d \in Drains |-> NoTick]
    /\ framed = {}
    /\ endpoint = [p \in Endpoints |-> [exists |-> TRUE, enabled |-> TRUE, failures |-> 0]]
    /\ delivery = [e \in Events |-> [p \in Endpoints |-> NoDelivery]]
    /\ sender = [s \in Senders |-> NoRequest]
    /\ announced = [p \in Endpoints |-> 0]
    /\ crashes = 0 /\ patches = 0

-----------------------------------------------------------------------------
(* The outbox. *)

\* emit, whose transaction commits: not in the order of the ids.
Emit(e) ==
    /\ outbox[e].state = "absent"
    /\ outbox' = [outbox EXCEPT ![e].state = "waiting"]
    /\ UNCHANGED <<drain, framed, delivery, hooks, bounds>>

Waiting == {e \in Events : outbox[e].state = "waiting"}
Claimable == Waiting \ UNION {drain[d].rows : d \in Drains}
\* claim-outbox: ORDER BY id LIMIT, locked rows skipped.
Oldest == {e \in Claimable : Cardinality({f \in Claimable : f < e}) < Limit}

Dropped(rows) ==
    {e \in rows : e \in Ephemeral \ Hooked /\ Cardinality(Waiting) > DepthLimit}
Parsed(rows) == {e \in rows : Key[e] # NoKey} \ (Dropped(rows) \cup Malformed)
Framed(rows) ==
    {e \in Parsed(rows) : \A f \in Parsed(rows) : Key[f] = Key[e] => f <= e}

\* The claim of a tick and its frames.  A client that is sent a truncated frame
\* fetches all of its state, as if it had been sent the rest.
Drain(d) ==
    /\ drain[d] = NoTick /\ Oldest # {}
    /\ drain' = [drain EXCEPT ![d] = [rows |-> Oldest, dropped |-> Dropped(Oldest)]]
    /\ framed' = framed \cup Framed(Oldest)
    /\ UNCHANGED <<outbox, delivery, hooks, bounds>>

\* Mutant of Quarantined: the ceiling is to be exceeded.
QuarantinedLate(n) == n > Ceiling

Quarantined(n) == n >= Ceiling

\* The statements that mark a row.
Marked(e, dropped) ==
    LET r == outbox[e] IN
    IF e \in dropped \/ e \notin Malformed THEN [r EXCEPT !.state = "published"]
    ELSE [state |-> CASE Quarantined(r.attempts + 1) -> "poisoned"
                      [] ~Quarantined(r.attempts + 1) /\ e \in Hooked -> "published"
                      [] OTHER -> "waiting",
          attempts |-> r.attempts + 1]

\* writeDeliveries, to the endpoints that are enabled by now.
HandsOver(e, p) ==
    e \in Hooked /\ endpoint[p].exists /\ endpoint[p].enabled
    /\ delivery[e][p] = NoDelivery

DrainCommits(d) ==
    /\ drain[d] # NoTick
    /\ outbox' = [e \in Events |-> IF e \in drain[d].rows THEN Marked(e, drain[d].dropped)
                                   ELSE outbox[e]]
    /\ delivery' = [e \in Events |-> [p \in Endpoints |->
                        IF e \in drain[d].rows /\ HandsOver(e, p) THEN Pending
                        ELSE delivery[e][p]]]
    /\ drain' = [drain EXCEPT ![d] = NoTick]
    /\ UNCHANGED <<framed, hooks, bounds>>

\* The process dies, or a statement fails, and the tick is rolled back.
DrainRollsBack(d) ==
    /\ drain[d] # NoTick /\ crashes < MaxCrashes
    /\ crashes' = crashes + 1
    /\ drain' = [drain EXCEPT ![d] = NoTick]
    /\ UNCHANGED <<outbox, framed, delivery, hooks, patches>>

\* runOutboxCleanup, an hour later: the deliveries are taken to have ended.
Cleanup(e) ==
    /\ outbox[e].state \in {"published", "poisoned"}
    /\ \A p \in Endpoints : delivery[e][p].status = "pending" => ~endpoint[p].exists
    /\ outbox' = [outbox EXCEPT ![e].state = "deleted"]
    /\ UNCHANGED <<drain, framed, delivery, hooks, bounds>>

-----------------------------------------------------------------------------
(* The endpoints, as their tenant changes them. *)

Patch(p) ==
    /\ endpoint[p].exists /\ patches < MaxPatches
    /\ patches' = patches + 1
    /\ IF endpoint[p].enabled
       THEN /\ endpoint' = [endpoint EXCEPT ![p].enabled = FALSE]
            /\ UNCHANGED announced
       ELSE /\ endpoint' = [endpoint EXCEPT ![p].enabled = TRUE, ![p].failures = 0]
            /\ announced' = [announced EXCEPT ![p] = 0]
    /\ UNCHANGED <<events, delivery, sender, crashes>>

Delete(p) ==
    /\ endpoint[p].exists /\ patches < MaxPatches
    /\ patches' = patches + 1
    /\ endpoint' = [endpoint EXCEPT ![p] = [exists |-> FALSE, enabled |-> FALSE, failures |-> 0]]
    /\ UNCHANGED <<events, delivery, sender, announced, crashes>>

-----------------------------------------------------------------------------
(* The dispatcher. *)

Requested(e, p) == \E s \in Senders : sender[s].event = e /\ sender[s].endpoint = p

\* A backoff has passed or a claim is no longer visible.
Due(e, p) ==
    /\ delivery[e][p].status = "pending" /\ ~delivery[e][p].due
    /\ Requested(e, p) => Slow
    /\ delivery' = [delivery EXCEPT ![e][p].due = TRUE]
    /\ UNCHANGED <<events, hooks, bounds>>

\* claimDueDeliveries.  The row is moved on, and is returned only where its
\* endpoint and its event are still there.
Claim(s, e, p) ==
    /\ sender[s] = NoRequest
    /\ delivery[e][p].status = "pending" /\ delivery[e][p].due
    /\ delivery' = [delivery EXCEPT ![e][p].due = FALSE]
    /\ sender' = IF endpoint[p].exists /\ outbox[e].state # "deleted"
                 THEN [sender EXCEPT ![s] = [event |-> e, endpoint |-> p,
                                             attempt |-> delivery[e][p].attempt]]
                 ELSE sender
    /\ UNCHANGED <<events, endpoint, announced, bounds>>

\* The outcome of a request, whose transaction the CHECK on the number of
\* attempts may abort.
Records(s, row) ==
    LET e == sender[s].event
        p == sender[s].endpoint
    IN /\ sender' = [sender EXCEPT ![s] = NoRequest]
       /\ IF delivery[e][p].attempt < MaxAttempts
          THEN delivery' = [delivery EXCEPT ![e][p] =
                               [row EXCEPT !.attempt = delivery[e][p].attempt + 1]]
          ELSE UNCHANGED delivery

Aborted(s) == delivery[sender[s].event][sender[s].endpoint].attempt = MaxAttempts

\* 2xx: markDeliverySent, recordEndpointSuccess.
Succeeds(s) ==
    LET p == sender[s].endpoint
    IN /\ sender[s] # NoRequest
       /\ Records(s, [delivery[sender[s].event][p] EXCEPT !.status = "sent"])
       /\ endpoint' = IF endpoint[p].exists /\ ~Aborted(s)
                      THEN [endpoint EXCEPT ![p].failures = 0] ELSE endpoint
       /\ UNCHANGED <<events, announced, bounds>>

\* Mutant of Exhausted: counted from the attempts before this one.
ExhaustedLate(n) == n >= MaxAttempts

\* attemptsExhausted.
Exhausted(n) == n + 1 >= MaxAttempts

\* Mutant of Disables: whether the endpoint is still enabled is not asked.
DisablesAgain(p) == endpoint[p].failures + 1 >= Threshold

Disables(p) == endpoint[p].enabled /\ endpoint[p].failures + 1 >= Threshold

\* applyTerminalOutcome: a code that is not retried, or the last attempt.  It
\* throws where the endpoint is gone.
FailsForGood(s) ==
    LET p == sender[s].endpoint
    IN /\ sender[s] # NoRequest
       /\ IF endpoint[p].exists /\ ~Aborted(s)
          THEN /\ Records(s, [delivery[sender[s].event][p] EXCEPT !.status = "failed"])
               /\ endpoint' = [endpoint EXCEPT
                                 ![p].failures = @ + 1,
                                 ![p].enabled = @ /\ ~Disables(p)]
               /\ announced' = [announced EXCEPT ![p] = @ + (IF Disables(p) THEN 1 ELSE 0)]
          ELSE /\ sender' = [sender EXCEPT ![s] = NoRequest]
               /\ UNCHANGED <<delivery, endpoint, announced>>
       /\ UNCHANGED <<events, bounds>>

\* scheduleDeliveryRetry, which leaves the status alone.
FailsForNow(s) ==
    /\ sender[s] # NoRequest /\ ~Exhausted(sender[s].attempt)
    /\ Records(s, [delivery[sender[s].event][sender[s].endpoint] EXCEPT !.due = FALSE])
    /\ UNCHANGED <<events, endpoint, announced, bounds>>

\* The process dies during a request, or the outcome cannot be written.
RequestLost(s) ==
    /\ sender[s] # NoRequest /\ crashes < MaxCrashes
    /\ crashes' = crashes + 1
    /\ sender' = [sender EXCEPT ![s] = NoRequest]
    /\ UNCHANGED <<events, endpoint, delivery, announced, patches>>

Answered(s) == Succeeds(s) \/ FailsForGood(s) \/ FailsForNow(s)

Next ==
    \/ \E e \in Events : Emit(e) \/ Cleanup(e)
    \/ \E e \in Events, p \in Endpoints : Due(e, p)
    \/ \E d \in Drains : Drain(d) \/ DrainCommits(d) \/ DrainRollsBack(d)
    \/ \E p \in Endpoints : Patch(p) \/ Delete(p)
    \/ \E s \in Senders :
         \/ \E e \in Events, p \in Endpoints : Claim(s, e, p)
         \/ Succeeds(s) \/ FailsForGood(s) \/ FailsForNow(s) \/ RequestLost(s)

Spec == Init /\ [][Next]_vars

\* The timers go on ticking, a statement or a request ends, time passes, and
\* the deliveries are claimed in the order in which they are due.
Fairness ==
    /\ WF_vars(\E d \in Drains : Drain(d))
    /\ \A d \in Drains : WF_vars(DrainCommits(d))
    /\ \A e \in Events, p \in Endpoints :
         WF_vars(Due(e, p)) /\ SF_vars(\E s \in Senders : Claim(s, e, p))
    /\ \A s \in Senders : WF_vars(Answered(s))

FairSpec == Spec /\ Fairness

-----------------------------------------------------------------------------
(* Properties. *)

\* Every variable has its type; an event is locked by one tick at most and only
\* while it waits.
TypeOK ==
    /\ outbox \in [Events -> Rows]
    /\ \A d \in Drains : drain[d].rows \subseteq Waiting /\ drain[d].dropped \subseteq drain[d].rows
    /\ \A c, d \in Drains : c # d => drain[c].rows \cap drain[d].rows = {}
    /\ framed \subseteq Events
    /\ endpoint \in [Endpoints -> Hooks]
    /\ delivery \in [Events -> [Endpoints -> Deliveries]]
    /\ sender \in [Senders -> Requests]
    /\ announced \in [Endpoints -> Nat]
    /\ crashes \in 0 .. MaxCrashes /\ patches \in 0 .. MaxPatches

\* An endpoint that is disabled for its failures is announced and audited once,
\* however many of its requests fail at the same time, until its tenant has
\* enabled it again.
DisabledOnce ==
    \A p \in Endpoints : announced[p] <= 1 /\ (endpoint[p].enabled => announced[p] = 0)

\* A well-formed hint that may not be dropped is handed to the publisher, or a
\* newer one of its key is, whatever else is in the outbox.
HintsArrive ==
    \A e \in Events : Key[e] # NoKey /\ e \notin Malformed \cup Ephemeral =>
        (outbox[e].state = "waiting" ~> \E f \in framed : Key[f] = Key[e] /\ f >= e)

\* A delivery that was handed over is sent or has failed in the end, unless its
\* endpoint is deleted.
DeliveriesEnd ==
    \A e \in Events, p \in Endpoints :
        delivery[e][p].status = "pending" ~>
            delivery[e][p].status \in {"sent", "failed"} \/ ~endpoint[p].exists

\* No event is left behind, on either way out.
EveryEventEnds == HintsArrive /\ DeliveriesEnd
=============================================================================
