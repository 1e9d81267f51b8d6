---------------------------- MODULE RelayProofs -----------------------------
(***************************************************************************)
(* Theorems about Relay, for any events, keys, endpoints, limits, numbers  *)
(* of ticks and requests that overlap, crashes and patches.                *)
(***************************************************************************)
EXTENDS Relay, TLAPS

Ticks == [rows : SUBSET Events, dropped : SUBSET Events]

\* TypeOK is inductive with this: what waits has not been tried up to the ceiling,
\* which is where a row that does not parse is poisoned, and a request is one of
\* an event and an endpoint.
RelayInv ==
    /\ TypeOK
    /\ drain \in [Drains -> Ticks]
    /\ \A e \in Events : outbox[e].state \in {"absent", "waiting"} => outbox[e].attempts < Ceiling
    /\ \A s \in Senders : sender[s] # NoRequest =>
          sender[s].event \in Events /\ sender[s].endpoint \in Endpoints

\* The initial values, and the bounds one by one.
LEMMA RelayTypes ==
    /\ NoTick \in Ticks /\ NoTick.rows = {} /\ NoTick.dropped = {}
    /\ NoRequest \in Requests /\ NoDelivery \in Deliveries
    /\ Pending \in Deliveries
    /\ Limit \in Nat /\ Ceiling \in Nat /\ 0 < Ceiling /\ MaxAttempts \in Nat
    /\ Threshold \in Nat /\ MaxCrashes \in Nat /\ MaxPatches \in Nat
  BY RelayAssumption DEF NoTick, Ticks, NoRequest, Requests, NoDelivery, Deliveries, Pending

\* emit and the cleanup move an event that no tick has locked.
LEMMA OutboxStep ==
    ASSUME RelayInv, NEW e \in Events, Emit(e) \/ Cleanup(e)
    PROVE  RelayInv'
<1>1. /\ UNCHANGED <<drain, framed, hooks, delivery, bounds>>
      /\ \E x \in {"waiting", "deleted"} : outbox' = [outbox EXCEPT ![e].state = x]
      /\ outbox[e].state # "waiting"
      /\ outbox[e].state # "absent" => outbox'[e].state # "waiting"
  BY DEF Emit, Cleanup, RelayInv, TypeOK, Rows
<1>2. PICK x \in {"waiting", "deleted"} : outbox' = [outbox EXCEPT ![e].state = x]
  BY <1>1
<1>3. [outbox[e] EXCEPT !.state = x] \in Rows
      /\ [outbox[e] EXCEPT !.state = x].attempts = outbox[e].attempts
      /\ [outbox[e] EXCEPT !.state = x].state = x
  BY DEF RelayInv, TypeOK, Rows
<1>4. outbox' \in [Events -> Rows] /\ outbox'[e].attempts = outbox[e].attempts
      /\ outbox'[e].state = x /\ \A f \in Events \ {e} : outbox'[f] = outbox[f]
  BY <1>2, <1>3 DEF RelayInv, TypeOK
<1>5. Waiting \subseteq Waiting'
  BY <1>1, <1>4 DEF Waiting
<1>6. TypeOK'
  BY <1>1, <1>4, <1>5 DEF RelayInv, TypeOK, hooks, bounds
<1>7. \A f \in Events : outbox'[f].state \in {"absent", "waiting"} => outbox'[f].attempts < Ceiling
  BY <1>1, <1>4 DEF RelayInv
<1> QED BY <1>1, <1>6, <1>7 DEF RelayInv, hooks

\* A claim locks what waits and nobody else has.
LEMMA DrainKeeps ==
    ASSUME RelayInv, NEW d \in Drains, Drain(d)
    PROVE  RelayInv'
<1> DEFINE tick == [rows |-> Oldest, dropped |-> Dropped(Oldest)]
<1>1. drain' = [drain EXCEPT ![d] = tick] /\ UNCHANGED <<outbox, delivery, hooks, bounds>>
      /\ framed' = framed \cup Framed(Oldest)
  BY DEF Drain
<1>2. Oldest \subseteq Waiting /\ Waiting \subseteq Events /\ Dropped(Oldest) \subseteq Oldest
      /\ \A c \in Drains : Oldest \cap drain[c].rows = {}
  BY DEF Oldest, Claimable, Waiting, Dropped
<1>3. Framed(Oldest) \subseteq Events
  BY <1>2 DEF Framed, Parsed
<1>4. tick \in Ticks /\ tick.rows = Oldest /\ tick.dropped = Dropped(Oldest)
  BY <1>2 DEF Ticks
<1> HIDE DEF tick
<1>5. drain' \in [Drains -> Ticks] /\ drain'[d] = tick
      /\ \A c \in Drains \ {d} : drain'[c] = drain[c]
  BY <1>1, <1>4 DEF RelayInv
<1>6. Waiting' = Waiting
  BY <1>1 DEF Waiting
<1>7. \A c \in Drains : drain'[c].rows \subseteq Waiting /\ drain'[c].dropped \subseteq drain'[c].rows
  BY <1>2, <1>4, <1>5 DEF RelayInv, TypeOK
<1>8. \A b, c \in Drains : b # c => drain'[b].rows \cap drain'[c].rows = {}
  BY <1>2, <1>4, <1>5 DEF RelayInv, TypeOK
<1>9. TypeOK'
  BY <1>1, <1>3, <1>6, <1>7, <1>8 DEF RelayInv, TypeOK, hooks, bounds
<1> QED BY <1>1, <1>5, <1>9 DEF RelayInv, hooks

\* A row that is marked is counted up to the ceiling, where it is poisoned.
LEMMA MarkedRow ==
    ASSUME RelayInv, NEW e \in Waiting, NEW D
    PROVE  /\ Marked(e, D) \in Rows
           /\ Marked(e, D).state = "waiting" => Marked(e, D).attempts < Ceiling
           /\ Marked(e, D).state # "absent"
<1> DEFINE r == outbox[e]
<1>1. r \in Rows /\ r.state = "waiting" /\ r.attempts < Ceiling /\ e \in Events
  BY DEF RelayInv, TypeOK, Waiting
<1>2. CASE e \in D \/ e \notin Malformed
  <2>1. Marked(e, D) = [r EXCEPT !.state = "published"]
    BY <1>2 DEF Marked
  <2> HIDE DEF r
  <2> QED BY <1>1, <2>1 DEF Rows
<1>3. CASE ~(e \in D \/ e \notin Malformed)
  <2> DEFINE x == CASE Quarantined(r.attempts + 1) -> "poisoned"
                    [] ~Quarantined(r.attempts + 1) /\ e \in Hooked -> "published"
                    [] OTHER -> "waiting"
  <2>1. Marked(e, D) = [state |-> x, attempts |-> r.attempts + 1]
    BY <1>3 DEF Marked
  <2>2. x \in {"poisoned", "published", "waiting"}
        /\ (x = "waiting" => ~Quarantined(r.attempts + 1))
    OBVIOUS
  <2>3. r.attempts + 1 \in 0 .. Ceiling
    BY <1>1, RelayTypes DEF Rows
  <2> HIDE DEF x, r
  <2> QED BY <2>1, <2>2, <2>3, RelayTypes DEF Rows, Quarantined
<1> QED BY <1>2, <1>3

\* A tick's own rows are marked; those of the others go on waiting.
LEMMA CommitKeeps ==
    ASSUME RelayInv, NEW d \in Drains, DrainCommits(d)
    PROVE  RelayInv'
<1>1. drain' = [drain EXCEPT ![d] = NoTick] /\ UNCHANGED <<framed, hooks, bounds>>
  BY DEF DrainCommits
<1>2. drain' \in [Drains -> Ticks] /\ drain'[d] = NoTick
      /\ \A c \in Drains \ {d} : drain'[c] = drain[c]
  BY <1>1, RelayTypes DEF RelayInv
<1>3. \A e \in drain[d].rows : e \in Waiting
  BY DEF RelayInv, TypeOK
<1>4. \A e \in Events : outbox'[e] = IF e \in drain[d].rows THEN Marked(e, drain[d].dropped)
                                     ELSE outbox[e]
  BY DEF DrainCommits
<1>5. outbox' \in [Events -> Rows]
      /\ \A e \in Events : outbox'[e].state \in {"absent", "waiting"}
                             => outbox'[e].attempts < Ceiling
  <2>1. \A e \in Events : outbox'[e] \in Rows
          /\ (outbox'[e].state \in {"absent", "waiting"} => outbox'[e].attempts < Ceiling)
    BY <1>3, <1>4, MarkedRow DEF RelayInv, TypeOK
  <2>2. outbox' = [e \in Events |-> outbox'[e]]
    BY DEF DrainCommits
  <2> QED BY <2>1, <2>2
<1>6. delivery' \in [Events -> [Endpoints -> Deliveries]]
  BY RelayTypes DEF DrainCommits, RelayInv, TypeOK
<1>7. \A e \in Waiting \ drain[d].rows : e \in Waiting'
  BY <1>4 DEF Waiting
<1>8. \A c \in Drains : drain'[c].rows \subseteq Waiting' /\ drain'[c].dropped \subseteq drain'[c].rows
  <2> SUFFICES ASSUME NEW c \in Drains
               PROVE  drain'[c].rows \subseteq Waiting' /\ drain'[c].dropped \subseteq drain'[c].rows
    OBVIOUS
  <2>1. CASE c = d
    BY <1>2, <2>1, RelayTypes
  <2>2. CASE c # d
    <3>1. drain'[c] = drain[c] /\ drain[c].rows \subseteq Waiting
          /\ drain[c].rows \cap drain[d].rows = {} /\ drain[c].dropped \subseteq drain[c].rows
      BY <1>2, <2>2 DEF RelayInv, TypeOK
    <3> QED BY <1>7, <3>1
  <2> QED BY <2>1, <2>2
<1>9. \A b, c \in Drains : b # c => drain'[b].rows \cap drain'[c].rows = {}
  BY <1>2, RelayTypes DEF RelayInv, TypeOK
<1>10. TypeOK'
  BY <1>1, <1>5, <1>6, <1>8, <1>9 DEF RelayInv, TypeOK, hooks, bounds
<1> QED BY <1>1, <1>2, <1>5, <1>10 DEF RelayInv, hooks

\* A tick that dies unlocks its rows.
LEMMA RollbackKeeps ==
    ASSUME RelayInv, NEW d \in Drains, DrainRollsBack(d)
    PROVE  RelayInv'
<1>1. drain' = [drain EXCEPT ![d] = NoTick] /\ UNCHANGED <<outbox, framed, delivery, hooks, patches>>
      /\ crashes' = crashes + 1 /\ crashes < MaxCrashes
  BY DEF DrainRollsBack
<1>2. drain' \in [Drains -> Ticks] /\ drain'[d] = NoTick
      /\ \A c \in Drains \ {d} : drain'[c] = drain[c]
  BY <1>1, RelayTypes DEF RelayInv
<1>3. crashes' \in 0 .. MaxCrashes
  BY <1>1, RelayTypes DEF RelayInv, TypeOK
<1>4. Waiting' = Waiting
  BY <1>1 DEF Waiting
<1>5. \A c \in Drains : drain'[c].rows \subseteq Waiting /\ drain'[c].dropped \subseteq drain'[c].rows
  BY <1>2, RelayTypes DEF RelayInv, TypeOK
<1>6. \A b, c \in Drains : b # c => drain'[b].rows \cap drain'[c].rows = {}
  BY <1>2, RelayTypes DEF RelayInv, TypeOK
<1>7. TypeOK'
  BY <1>1, <1>3, <1>4, <1>5, <1>6 DEF RelayInv, TypeOK, hooks
<1> QED BY <1>1, <1>2, <1>7 DEF RelayInv, hooks

\* Whatever else happens does not touch the outbox or a tick.
HookInv ==
    /\ endpoint \in [Endpoints -> Hooks]
    /\ delivery \in [Events -> [Endpoints -> Deliveries]]
    /\ sender \in [Senders -> Requests]
    /\ announced \in [Endpoints -> Nat]
    /\ crashes \in 0 .. MaxCrashes /\ patches \in 0 .. MaxPatches
    /\ \A s \in Senders : sender[s] # NoRequest =>
          sender[s].event \in Events /\ sender[s].endpoint \in Endpoints

\* Such a step keeps the invariant if it keeps that part.
LEMMA HooksKeep ==
    ASSUME RelayInv, UNCHANGED events, HookInv'
    PROVE  RelayInv'
<1>1. Waiting' = Waiting
  BY DEF Waiting, events
<1>2. TypeOK'
  BY <1>1 DEF RelayInv, TypeOK, HookInv, events
<1> QED BY <1>2 DEF RelayInv, HookInv, events

\* The part of the invariant that speaks of the hooks.
LEMMA HooksHold == ASSUME RelayInv PROVE HookInv
  BY DEF RelayInv, TypeOK, HookInv

\* The tenant's changes.
LEMMA TenantKeeps ==
    ASSUME RelayInv, NEW p \in Endpoints, Patch(p) \/ Delete(p)
    PROVE  HookInv' /\ UNCHANGED events
<1>1. HookInv
  BY HooksHold
<1>2. UNCHANGED <<events, delivery, sender, crashes>> /\ patches < MaxPatches
      /\ patches' = patches + 1
  BY DEF Patch, Delete
<1>3. patches' \in 0 .. MaxPatches
  BY <1>1, <1>2, RelayTypes DEF HookInv
<1>4. endpoint' \in [Endpoints -> Hooks] /\ announced' \in [Endpoints -> Nat]
  <2>1. CASE Patch(p)
    <3>1. endpoint[p] \in Hooks
      BY <1>1 DEF HookInv
    <3>2. PICK x \in Hooks : endpoint' = [endpoint EXCEPT ![p] = x]
      <4>1. [endpoint[p] EXCEPT !.enabled = FALSE] \in Hooks
            /\ [endpoint[p] EXCEPT !.enabled = TRUE, !.failures = 0] \in Hooks
        BY <3>1 DEF Hooks
      <4>2. endpoint' \in {[endpoint EXCEPT ![p] = [endpoint[p] EXCEPT !.enabled = FALSE]],
                           [endpoint EXCEPT ![p] = [endpoint[p] EXCEPT !.enabled = TRUE,
                                                                      !.failures = 0]]}
        BY <1>1, <2>1 DEF Patch, HookInv
      <4> QED BY <4>1, <4>2
    <3> QED BY <1>1, <2>1, <3>2 DEF HookInv, Patch
  <2>2. CASE Delete(p)
    BY <1>1, <2>2 DEF HookInv, Delete, Hooks
  <2> QED BY <2>1, <2>2
<1> QED BY <1>1, <1>2, <1>3, <1>4 DEF HookInv

\* A delivery of which only the time changes.
LEMMA DueForm ==
    ASSUME NEW d \in Deliveries, NEW x \in BOOLEAN
    PROVE  /\ [d EXCEPT !.due = x] = [status |-> d.status, attempt |-> d.attempt, due |-> x]
           /\ [status |-> d.status, attempt |-> d.attempt, due |-> x] \in Deliveries
           /\ d.status \in {"none", "pending", "sent", "failed"}
  BY DEF Deliveries

\* A delivery becomes due and is claimed.
LEMMA ClaimKeeps ==
    ASSUME RelayInv, NEW e \in Events, NEW p \in Endpoints,
           Due(e, p) \/ \E s \in Senders : Claim(s, e, p)
    PROVE  HookInv' /\ UNCHANGED events
<1>1. HookInv
  BY HooksHold
<1>2. UNCHANGED <<events, endpoint, announced, bounds>>
  BY DEF Due, Claim, hooks
<1>3. PICK x \in BOOLEAN : delivery' = [delivery EXCEPT ![e][p].due = x]
  BY DEF Due, Claim
<1>4. delivery' \in [Events -> [Endpoints -> Deliveries]]
  <2>1. [delivery[e][p] EXCEPT !.due = x] \in Deliveries
    <3> DEFINE d == delivery[e][p]
               y == [status |-> d.status, attempt |-> d.attempt, due |-> x]
    <3>1. d \in Deliveries
      BY <1>1 DEF HookInv
    <3> HIDE DEF d
    <3>2. [d EXCEPT !.due = x] = y /\ y \in Deliveries
      BY <3>1, DueForm
    <3> HIDE DEF y
    <3>3. [d EXCEPT !.due = x] \in Deliveries
      BY <3>2
    <3> QED BY <3>3 DEF d
  <2>2. delivery' = [delivery EXCEPT ![e][p] = [delivery[e][p] EXCEPT !.due = x]]
    BY <1>1, <1>3 DEF HookInv
  <2> QED BY <1>1, <2>1, <2>2 DEF HookInv
<1>5. CASE sender' = sender
  BY <1>1, <1>2, <1>4, <1>5 DEF HookInv, bounds
<1>6. CASE sender' # sender
  <2>1. PICK s \in Senders : Claim(s, e, p)
    BY <1>6 DEF Due, hooks
  <2> DEFINE q == [event |-> e, endpoint |-> p, attempt |-> delivery[e][p].attempt]
  <2>2. sender' = [sender EXCEPT ![s] = q]
    BY <1>6, <2>1 DEF Claim
  <2>3. q \in Requests /\ q.event = e /\ q.endpoint = p
    BY <1>1 DEF HookInv, Deliveries, Requests
  <2> HIDE DEF q
  <2> QED BY <1>1, <1>2, <1>4, <2>2, <2>3 DEF HookInv, bounds
<1> QED BY <1>5, <1>6

\* The outcome of a request: its number is written once more, or not at all.
LEMMA RecordsType ==
    ASSUME RelayInv, NEW s \in Senders, sender[s] # NoRequest,
           NEW row, row.status \in {"none", "pending", "sent", "failed"},
           row = [status |-> row.status, attempt |-> row.attempt, due |-> row.due],
           row.due \in BOOLEAN, Records(s, row)
    PROVE  /\ delivery' \in [Events -> [Endpoints -> Deliveries]]
           /\ sender' = [sender EXCEPT ![s] = NoRequest]
<1> DEFINE e == sender[s].event
           p == sender[s].endpoint
           n == delivery[e][p].attempt + 1
<1>1. HookInv /\ e \in Events /\ p \in Endpoints
  BY HooksHold DEF RelayInv
<1>2. CASE delivery' = delivery
  BY <1>1, <1>2 DEF HookInv, Records
<1>3. CASE delivery' # delivery
  <2>1. delivery' = [delivery EXCEPT ![e][p] = [row EXCEPT !.attempt = n]]
        /\ delivery[e][p].attempt < MaxAttempts
    BY <1>3 DEF Records
  <2>2. n \in 0 .. MaxAttempts
    BY <1>1, <2>1, RelayTypes DEF HookInv, Deliveries
  <2> HIDE DEF n
  <2>3. [row EXCEPT !.attempt = n] = [status |-> row.status, attempt |-> n, due |-> row.due]
    OBVIOUS
  <2>4. [row EXCEPT !.attempt = n] \in Deliveries
    BY <2>2, <2>3 DEF Deliveries
  <2> QED BY <1>1, <2>1, <2>4 DEF HookInv, Records
<1> QED BY <1>2, <1>3 DEF Records

\* The request is over, and its sender free.
LEMMA SenderFree ==
    ASSUME HookInv, NEW s \in Senders, sender' = [sender EXCEPT ![s] = NoRequest]
    PROVE  /\ sender' \in [Senders -> Requests]
           /\ \A t \in Senders : sender'[t] # NoRequest =>
                sender'[t].event \in Events /\ sender'[t].endpoint \in Endpoints
  BY RelayTypes DEF HookInv

\* The three outcomes of a request, and its loss.
LEMMA AnswerKeeps ==
    ASSUME RelayInv, NEW s \in Senders, Answered(s) \/ RequestLost(s)
    PROVE  HookInv' /\ UNCHANGED events
<1> DEFINE e == sender[s].event
           p == sender[s].endpoint
           r == delivery[e][p]
<1>1. HookInv /\ sender[s] # NoRequest /\ e \in Events /\ p \in Endpoints
  BY HooksHold DEF RelayInv, Answered, Succeeds, FailsForGood, FailsForNow, RequestLost
<1>2. r \in Deliveries
  BY <1>1 DEF HookInv
<1>3. CASE Succeeds(s)
  <2> DEFINE x == [r EXCEPT !.status = "sent"]
  <2>1. Records(s, x) /\ UNCHANGED <<events, announced, bounds>>
    BY <1>3 DEF Succeeds
  <2>2. x = [status |-> x.status, attempt |-> x.attempt, due |-> x.due]
        /\ x.due \in BOOLEAN /\ x.status = "sent"
    BY <1>2 DEF Deliveries
  <2>3. endpoint' \in [Endpoints -> Hooks]
    BY <1>1, <1>3 DEF Succeeds, HookInv, Hooks
  <2> HIDE DEF x
  <2>4. x.status \in {"none", "pending", "sent", "failed"}
    BY <2>2
  <2>5. /\ delivery' \in [Events -> [Endpoints -> Deliveries]]
        /\ sender' = [sender EXCEPT ![s] = NoRequest]
    BY <1>1, <2>1, <2>2, <2>4, RecordsType
  <2>6. /\ sender' \in [Senders -> Requests]
        /\ \A t \in Senders : sender'[t] # NoRequest =>
             sender'[t].event \in Events /\ sender'[t].endpoint \in Endpoints
    BY <1>1, <2>5, SenderFree
  <2> QED BY <1>1, <2>1, <2>3, <2>5, <2>6 DEF HookInv, bounds
<1>4. CASE FailsForGood(s)
  <2>1. UNCHANGED <<events, bounds>>
    BY <1>4 DEF FailsForGood
  <2>2. CASE endpoint[p].exists /\ ~Aborted(s)
    <3> DEFINE x == [r EXCEPT !.status = "failed"]
    <3>1. Records(s, x)
      BY <1>4, <2>2 DEF FailsForGood
    <3>2. x = [status |-> x.status, attempt |-> x.attempt, due |-> x.due]
          /\ x.due \in BOOLEAN /\ x.status = "failed"
      BY <1>2 DEF Deliveries
    <3>3. endpoint' \in [Endpoints -> Hooks]
      <4>1. endpoint' = [endpoint EXCEPT ![p].failures = @ + 1, ![p].enabled = @ /\ ~Disables(p)]
        BY <1>4, <2>2 DEF FailsForGood
      <4> QED BY <1>1, <4>1 DEF HookInv, Hooks
    <3>4. announced' \in [Endpoints -> Nat]
      BY <1>1, <1>4, <2>2 DEF FailsForGood, HookInv
    <3> HIDE DEF x
    <3> QED BY <1>1, <2>1, <3>1, <3>2, <3>3, <3>4, RecordsType, SenderFree DEF HookInv, bounds
  <2>3. CASE ~(endpoint[p].exists /\ ~Aborted(s))
    BY <1>1, <1>4, <2>1, <2>3, SenderFree DEF FailsForGood, HookInv, bounds
  <2> QED BY <2>2, <2>3
<1>5. CASE FailsForNow(s)
  <2> DEFINE x == [r EXCEPT !.due = FALSE]
  <2>1. Records(s, x) /\ UNCHANGED <<events, endpoint, announced, bounds>>
    BY <1>5 DEF FailsForNow
  <2>2. x = [status |-> x.status, attempt |-> x.attempt, due |-> x.due]
        /\ x.due \in BOOLEAN /\ x.status \in {"none", "pending", "sent", "failed"}
    <3>1. x = [status |-> r.status, attempt |-> r.attempt, due |-> FALSE]
          /\ r.status \in {"none", "pending", "sent", "failed"}
      BY <1>2, DueForm
    <3> HIDE DEF x
    <3> QED BY <3>1
  <2> HIDE DEF x
  <2> QED BY <1>1, <2>1, <2>2, RecordsType, SenderFree DEF HookInv, bounds
<1>6. CASE RequestLost(s)
  <2>1. crashes' \in 0 .. MaxCrashes
    BY <1>1, <1>6, RelayTypes DEF RequestLost, HookInv
  <2> QED BY <1>1, <1>6, <2>1, SenderFree DEF RequestLost, HookInv
<1> QED BY <1>3, <1>4, <1>5, <1>6 DEF Answered

\* Every step, one group after the other.
LEMMA RelayStep == ASSUME RelayInv, [Next]_vars PROVE RelayInv'
<1>1. ASSUME NEW e \in Events, Emit(e) \/ Cleanup(e) PROVE RelayInv'
  BY <1>1, OutboxStep
<1>2. ASSUME NEW d \in Drains, Drain(d) \/ DrainCommits(d) \/ DrainRollsBack(d)
      PROVE  RelayInv'
  BY <1>2, DrainKeeps, CommitKeeps, RollbackKeeps
<1>3. ASSUME NEW e \in Events, NEW p \in Endpoints,
             Due(e, p) \/ \E s \in Senders : Claim(s, e, p)
      PROVE  RelayInv'
  BY <1>3, ClaimKeeps, HooksKeep
<1>4. ASSUME NEW p \in Endpoints, Patch(p) \/ Delete(p) PROVE RelayInv'
  BY <1>4, TenantKeeps, HooksKeep
<1>5. ASSUME NEW s \in Senders, Answered(s) \/ RequestLost(s) PROVE RelayInv'
  BY <1>5, AnswerKeeps, HooksKeep
<1>6. CASE UNCHANGED vars
  <2>1. HookInv' /\ UNCHANGED events
    BY <1>6, HooksHold DEF vars, events, HookInv
  <2> QED BY <2>1, HooksKeep
<1> QED BY <1>1, <1>2, <1>3, <1>4, <1>5, <1>6 DEF Next, Answered

\* The empty outbox.
LEMMA RelayStart == Init => RelayInv
<1> SUFFICES ASSUME Init PROVE RelayInv
  OBVIOUS
<1>1. outbox \in [Events -> Rows]
  BY RelayTypes DEF Init, Rows
<1>2. drain \in [Drains -> Ticks] /\ \A d \in Drains : drain[d] = NoTick
  BY RelayTypes DEF Init
<1>3. endpoint \in [Endpoints -> Hooks] /\ announced \in [Endpoints -> Nat]
      /\ delivery \in [Events -> [Endpoints -> Deliveries]]
      /\ sender \in [Senders -> Requests]
  BY RelayTypes DEF Init, Hooks
<1>4. TypeOK
  BY <1>1, <1>2, <1>3, RelayTypes DEF Init, TypeOK
<1> QED BY <1>2, <1>4, RelayTypes DEF Init, RelayInv

\* Together.
LEMMA RelayHolds == Spec => []RelayInv
  BY RelayStart, RelayStep, PTL DEF Spec

\* Every variable keeps its type: an event is locked by one tick at most and only while
\* it waits (claim-outbox skips locked rows), and no mark or outcome exceeds its ceiling.
THEOREM RelayTypeCorrect == Spec => []TypeOK
<1>1. RelayInv => TypeOK
  BY DEF RelayInv
<1> QED BY <1>1, RelayHolds, PTL

\* An endpoint that is disabled for its failures is announced and audited once,
\* whichever requests fail at the same time (applyTerminalOutcome), until its tenant
\* enables it again.
THEOREM DisabledIsAnnouncedOnce == Spec => []DisabledOnce
<1>1. Init => DisabledOnce
  BY DEF Init, DisabledOnce
<1>2. RelayInv /\ DisabledOnce /\ [Next]_vars => DisabledOnce'
  <2> SUFFICES ASSUME RelayInv, DisabledOnce, [Next]_vars,
                      NEW p \in Endpoints
               PROVE  announced'[p] <= 1 /\ (endpoint'[p].enabled => announced'[p] = 0)
    BY DEF DisabledOnce
  <2> DEFINE Once == announced'[p] <= 1 /\ (endpoint'[p].enabled => announced'[p] = 0)
  <2>1. /\ endpoint \in [Endpoints -> Hooks] /\ announced \in [Endpoints -> Nat]
        /\ announced[p] <= 1 /\ (endpoint[p].enabled => announced[p] = 0)
    BY DEF RelayInv, TypeOK, DisabledOnce
  <2>2. CASE UNCHANGED <<endpoint, announced>>
    BY <2>1, <2>2
  <2>3. ASSUME NEW q \in Endpoints, Patch(q) PROVE Once
    BY <2>1, <2>3 DEF Patch, Hooks
  <2>4. ASSUME NEW q \in Endpoints, Delete(q) PROVE Once
    BY <2>1, <2>4 DEF Delete, Hooks
  <2>5. ASSUME NEW s \in Senders, Succeeds(s) PROVE Once
    BY <2>1, <2>5 DEF Succeeds, Hooks
  <2>6. ASSUME NEW s \in Senders, FailsForGood(s) PROVE Once
    BY <2>1, <2>6 DEF FailsForGood, Hooks, Disables
  <2> QED BY <2>2, <2>3, <2>4, <2>5, <2>6 DEF Next, vars, hooks, Emit, Cleanup, Due, Drain, DrainCommits,
        DrainRollsBack, Claim, FailsForNow, RequestLost
<1> QED BY <1>1, <1>2, RelayHolds, PTL DEF Spec

\* Both under the fairness of the ticks and the requests, under which the run checks
\* them.
COROLLARY RelayFair ==
    FairSpec => []TypeOK /\ []DisabledOnce
  BY RelayTypeCorrect, DisabledIsAnnouncedOnce, PTL DEF FairSpec
=============================================================================
