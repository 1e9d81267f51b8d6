--------------------------- MODULE ConnectBudget ----------------------------
(***************************************************************************)
(* The two gates before a socket is opened: the token bucket of a worker,  *)
(* with a queue, and the token bucket of the fleet, a hash in Redis that a *)
(* script refills and takes from.  A taker passes the first, then asks the *)
(* second until it is given a token or its session is torn down.           *)
(*                                                                         *)
(* Tokens are counted in thousandths and time in milliseconds, so that a   *)
(* refill, elapsed * rate, is exact.  What the gates are for is the number *)
(* of connects in any stretch of time: a window may be opened at any       *)
(* moment, and from then on the connects are counted.  Whether the outage  *)
(* tracker has frozen the rate is a choice of the rate of each take.       *)
(***************************************************************************)
EXTENDS Integers, Sequences

CONSTANTS
    Workers, Takers, WorkerOf,
    Rates, MaxRate,    \* what getRatePerSec may return, and RATE_CEILING
    GateRate, Burst,   \* ratePerSec and burst of a worker's gate
    Ttl,               \* of the bucket's key
    Steps              \* by which time passes

BudgetAssumption ==
    /\ WorkerOf \in [Takers -> Workers]
    /\ MaxRate \in Nat /\ Rates \subseteq 1 .. MaxRate
    /\ GateRate \in Nat \ {0} /\ Burst \in Nat \ {0}
    /\ Ttl \in Nat /\ Ttl >= 1000
    /\ Steps \subseteq Nat

VARIABLES
    now,
    bucket,   \* the hash in Redis
    gate,     \* tokens and lastRefillAt of each worker's gate
    queue,    \* its waiting takers
    armed,    \* drainTimerArmed
    at,       \* how far each taker is
    from, given, passed  \* history: since when connects are counted, and how many
                         \* the bucket and the gates have let through since

counts == <<from, given, passed>>
vars == <<now, bucket, gate, queue, armed, at, counts>>

Stages == {"idle", "queued", "fleet"}

\* A key that is not there is one that has expired.
Init ==
    /\ now = 0
    /\ bucket = [tokens |-> 0, last |-> -Ttl]
    /\ gate = [w \in Workers |-> [tokens |-> 1000 * Burst, last |-> 0]]
    /\ queue = [w \in Workers |-> <<>>]
    /\ armed = [w \in Workers |-> FALSE]
    /\ at = [t \in Takers |-> "idle"]
    /\ from = 0 /\ given = 0 /\ passed = [w \in Workers |-> 0]

Lesser(a, b) == IF a <= b THEN a ELSE b

\* refill, and the middle of the script.
Refilled(b, cap, rate) ==
    IF now > b.last
    THEN [tokens |-> Lesser(1000 * cap, b.tokens + (now - b.last) * rate), last |-> now]
    ELSE b

Taken(b, n) == [b EXCEPT !.tokens = @ - 1000 * n]

-----------------------------------------------------------------------------
(* The gate of a worker. *)

Opened(w) == Refilled(gate[w], Burst, GateRate)

\* take: at once, or at the end of the queue.
Arrive(t) ==
    LET w == WorkerOf[t]
        free == queue[w] = <<>> /\ Opened(w).tokens >= 1000
    IN /\ at[t] = "idle"
       /\ gate' = [gate EXCEPT ![w] = IF free THEN Taken(Opened(w), 1) ELSE Opened(w)]
       /\ at' = [at EXCEPT ![t] = IF free THEN "fleet" ELSE "queued"]
       /\ queue' = IF free THEN queue ELSE [queue EXCEPT ![w] = Append(@, t)]
       /\ armed' = [armed EXCEPT ![w] = @ \/ ~free]
       /\ passed' = IF free THEN [passed EXCEPT ![w] = @ + 1] ELSE passed
       /\ UNCHANGED <<now, bucket, from, given>>

\* drainQueue lets n of the queue in, as many as there are tokens.
LetsIn(w, n) ==
    /\ n <= Len(queue[w]) /\ 1000 * n <= Opened(w).tokens
    /\ n = Len(queue[w]) \/ Opened(w).tokens < 1000 * (n + 1)

DrainQueue(w) ==
    /\ armed[w]
    /\ \E n \in 0 .. Len(queue[w]) :
         /\ LetsIn(w, n)
         /\ gate' = [gate EXCEPT ![w] = Taken(Opened(w), n)]
         /\ queue' = [queue EXCEPT ![w] = SubSeq(@, n + 1, Len(@))]
         /\ armed' = [armed EXCEPT ![w] = n < Len(queue[w])]
         /\ at' = [t \in Takers |-> IF \E i \in 1 .. n : queue[w][i] = t THEN "fleet" ELSE at[t]]
         /\ passed' = [passed EXCEPT ![w] = @ + n]
    /\ UNCHANGED <<now, bucket, from, given>>

-----------------------------------------------------------------------------
(* The bucket of the fleet. *)

\* take-token, under a rate that was read before.
Found(rate) ==
    IF now - bucket.last >= Ttl THEN [tokens |-> 1000 * rate, last |-> now]
    ELSE Refilled(bucket, rate, rate)

TakeToken(t, rate) ==
    LET b == Found(rate)
        got == b.tokens >= 1000
    IN /\ at[t] = "fleet"
       /\ bucket' = IF got THEN Taken(b, 1) ELSE b
       /\ at' = IF got THEN [at EXCEPT ![t] = "idle"] ELSE at
       /\ given' = IF got THEN given + 1 ELSE given
       /\ UNCHANGED <<now, gate, queue, armed, from, passed>>

\* The signal of a teardown, which is looked at between two tries, or an error
\* of Redis.
Abort(t) ==
    /\ at[t] = "fleet"
    /\ at' = [at EXCEPT ![t] = "idle"]
    /\ UNCHANGED <<now, bucket, gate, queue, armed, counts>>

-----------------------------------------------------------------------------
Tick ==
    /\ \E d \in Steps : now' = now + d
    /\ UNCHANGED <<bucket, gate, queue, armed, at, counts>>

OpenWindow ==
    /\ from' = now /\ given' = 0 /\ passed' = [w \in Workers |-> 0]
    /\ UNCHANGED <<now, bucket, gate, queue, armed, at>>

Next ==
    \/ \E t \in Takers : Arrive(t) \/ Abort(t) \/ \E rate \in Rates : TakeToken(t, rate)
    \/ \E w \in Workers : DrainQueue(w)
    \/ Tick \/ OpenWindow

Spec == Init /\ [][Next]_vars

-----------------------------------------------------------------------------
\* In any stretch of time the fleet connects as often as a full bucket and the
\* refill of that time allow, whichever rates were in force and whatever clients
\* of the bucket come and go.  Over one second this is twice the rate.
FleetRate ==
    1000 * given <= 1000 * MaxRate + MaxRate * (now - from)

\* The same of a worker's own gate.
GateKeeps ==
    \A w \in Workers :
        1000 * passed[w] <= 1000 * Burst + GateRate * (now - from)

\* A timer is set as long as anybody waits.
NobodyForgotten == \A w \in Workers : queue[w] # <<>> => armed[w]
=============================================================================
