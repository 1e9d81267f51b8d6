------------------------------- MODULE Pacing -------------------------------
(***************************************************************************)
(* The pacing ledger: what one client's instances may send in a local day  *)
(* and hour, and how the send loops count it.                              *)
(*                                                                         *)
(* A loop claims a job and reserves a unit for it in one transaction.  All *)
(* of that transaction has the now() of its BEGIN; its reserve statement   *)
(* sees the client's usage as of its snapshot, but the ledger row as the   *)
(* last commit left it, since that row is locked for the update.  The send *)
(* follows after the commit, in transactions of its own: a recipient who   *)
(* has opted out meanwhile has the job cancelled, and the unit is given    *)
(* back in yet another transaction.  An instance may change hands between  *)
(* any two steps, and a loop that lost it goes on with what it has.        *)
(***************************************************************************)
EXTENDS Integers, FiniteSets

CONSTANTS
    Instances, Loops, Jobs, NoLoop, NoJob,
    Kind, Of,         \* what a job is, and the instance it is for
    Gaps,             \* the gaps the loop may draw, in ticks
    Hour, Day,        \* their lengths in ticks; a day is a number of hours
    Open, Close,      \* the sending window, in ticks of the day
    DailyCap, HourlyCap, NewCap, GroupCap, PlanCap,
    RatioFloor, RatioTop, RatioBottom,   \* eff_cold_ratio_floor and _max
    MaxTime,          \* bound: ticks
    MaxUnits          \* bound: units granted

ASSUME PacingAssumption ==
    /\ IsFiniteSet(Loops) /\ NoLoop \notin Loops /\ NoJob \notin Jobs
    /\ Kind \in [Jobs -> {"plain", "new", "group", "exempt"}]
    /\ Of \in [Jobs -> Instances]
    /\ Hour \in Nat \ {0} /\ Day \in Nat \ {0} /\ Day % Hour = 0
    /\ Gaps \subseteq Nat \ {0}
    /\ {Open, Close} \subseteq 0 .. Day - 1
    /\ {DailyCap, HourlyCap, NewCap, GroupCap, PlanCap, RatioFloor,
        RatioTop, RatioBottom, MaxTime, MaxUnits} \subseteq Nat

VARIABLES
    now,      \* of the database and of the loops
    ledger,   \* pacing_ledger by instance and date
    usage,    \* client_daily_usage by date
    job,      \* message_jobs
    loop,     \* the loops
    unit      \* history: the units granted, in their order

vars == <<now, ledger, usage, job, loop, unit>>

-----------------------------------------------------------------------------
(* Dates, hours and rows. *)

DateOf(t) == t \div Day
HourOf(t) == (t % Day) \div Hour
InWindow(t) == t % Day \in Open .. Close
NextMidnight(t) == (DateOf(t) + 1) * Day
Dates == 0 .. DateOf(MaxTime)

Ledgers == [consumed : Nat, key : Nat, hour : Nat, new : Nat, group : Nat,
            system : Nat, refunds : Nat, eligible : Int]
\* The row as pacing-ensure-ledger-row makes it.
Fresh(t) == [consumed |-> 0, key |-> HourOf(t), hour |-> 0, new |-> 0,
             group |-> 0, system |-> 0, refunds |-> 0, eligible |-> t]
NoRow == Fresh(-1)

JobRows == [status : {"queued", "processing", "sent", "cancelled"},
            lease : Loops \cup {NoLoop},
            next : Nat,     \* next_attempt_at, 0 when it has come
            refunded : BOOLEAN]

LoopStates == [pc : {"idle", "claimed", "reserving", "granted", "refunding"},
               job : Jobs \cup {NoJob}, began : Nat, seen : Nat,
               unit : 0 .. MaxUnits, gap : Nat]
Idle == [pc |-> "idle", job |-> NoJob, began |-> 0, seen |-> 0, unit |-> 0,
         gap |-> 0]

Units == [job : Jobs, date : Dates, hour : Nat, refunded : BOOLEAN]
Granted == DOMAIN unit

Init ==
    /\ now = 0
    /\ ledger = [i \in Instances |-> [d \in Dates |-> NoRow]]
    /\ usage = [d \in Dates |-> 0]
    /\ job = [j \in Jobs |-> [status |-> "queued", lease |-> NoLoop, next |-> 0,
                              refunded |-> FALSE]]
    /\ loop = [l \in Loops |-> Idle]
    /\ unit = <<>>

Goes(l, s) == loop' = [loop EXCEPT ![l] = s]

-----------------------------------------------------------------------------
(* The claim and the reservation. *)

Transacts(l) == loop[l].pc \in {"claimed", "reserving"}
\* A claim whose transaction is still open has the row locked.
Locked(j) == \E l \in Loops : loop[l].job = j /\ Transacts(l)

\* A row the claim may take: whichever loop has the lease of the instance by now.
Claimable(j) ==
    /\ job[j].status = "queued" /\ job[j].next <= now /\ ~Locked(j)
    /\ Cardinality(Granted) + Cardinality({k \in Loops : Transacts(k)}) < MaxUnits

Claim(l, j) ==
    /\ loop[l].pc = "idle" /\ Claimable(j)
    /\ Goes(l, [Idle EXCEPT !.pc = "claimed", !.job = j, !.began = now])
    /\ UNCHANGED <<now, ledger, usage, job, unit>>

Inst(l) == Of[loop[l].job]
Date(l) == DateOf(loop[l].began)
NoRowYet(i, d) == ledger[i][d] = NoRow

\* The content guards refuse: disposeJob, and the pass ends or, in the same
\* transaction, claims another job.
GuardDisposes(l) ==
    /\ loop[l].pc = "claimed"
    /\ job' = [job EXCEPT ![loop[l].job].status = "cancelled"]
    /\ \/ Goes(l, Idle)
       \/ \E j \in Jobs : Claimable(j) /\ Goes(l, [loop[l] EXCEPT !.job = j])
    /\ UNCHANGED <<now, ledger, usage, unit>>

\* They hold the job: deferJob, for less than a tick or to the next day.
GuardDefers(l) ==
    /\ loop[l].pc = "claimed"
    /\ \E t \in {0, NextMidnight(now)} : job' = [job EXCEPT ![loop[l].job].next = t]
    /\ Goes(l, Idle)
    /\ UNCHANGED <<now, ledger, usage, unit>>

\* The two rows are ensured, waiting for a transaction that is inserting them;
\* then the snapshot of the reserve statement.
Snapshot(l) ==
    /\ loop[l].pc = "claimed"
    /\ \A k \in Loops \ {l} :
         loop[k].pc = "reserving" /\ Date(k) = Date(l) =>
            /\ \E i \in Instances : ~NoRowYet(i, Date(l))
            /\ Inst(k) = Inst(l) => ~NoRowYet(Inst(l), Date(l))
    /\ \E g \in Gaps :
         Goes(l, [loop[l] EXCEPT !.pc = "reserving", !.gap = g, !.seen = usage[Date(l)]])
    /\ UNCHANGED <<now, ledger, usage, job, unit>>

\* The ledger row of a reservation, as ensured.
Ensured(l) ==
    IF NoRowYet(Inst(l), Date(l)) THEN Fresh(loop[l].began) ELSE ledger[Inst(l)][Date(l)]

SentThisHour(r, t) == IF r.key = HourOf(t) THEN r.hour ELSE 0

\* Mutant of GapPassed: the minimum gap is left to the loop's timer.
GapPassedAlways(r, t) == TRUE

GapPassed(r, t) == r.eligible <= t

\* The WHERE clause of reserve-pacing, its caps as they apply to a kind.
WithinCaps(r, k, t) ==
    \/ k = "exempt"
    \/ /\ GapPassed(r, t)
       /\ r.consumed < DailyCap /\ SentThisHour(r, t) < HourlyCap
       /\ k = "new" => /\ r.new < NewCap
                       /\ \/ r.consumed < RatioFloor
                          \/ (r.new + 1) * RatioBottom <= RatioTop * (r.consumed + 1)
       /\ k = "group" => r.group < GroupCap

Grants(l) ==
    /\ InWindow(loop[l].began)
    /\ WithinCaps(Ensured(l), Kind[loop[l].job], loop[l].began)
    /\ loop[l].seen < PlanCap

One(b) == IF b THEN 1 ELSE 0

\* Its SET clause.
Consumed(r, k, t, gap) ==
    IF k = "exempt" THEN [r EXCEPT !.system = @ + 1]
    ELSE [r EXCEPT !.consumed = @ + 1, !.key = HourOf(t), !.hour = SentThisHour(r, t) + 1,
                   !.new = @ + One(k = "new"), !.group = @ + One(k = "group"),
                   !.eligible = t + gap]

\* Mutant of Bump: the count of the snapshot is written back.
BumpSeen(l) == loop[l].seen + 1

\* usage_bump.
Bump(l) == usage[Date(l)] + 1

\* The reservation and the commit of the claim.
Reserve(l) ==
    LET s == loop[l]
    IN /\ s.pc = "reserving" /\ Grants(l)
       /\ ledger' = [ledger EXCEPT ![Inst(l)][Date(l)] =
                        Consumed(Ensured(l), Kind[s.job], s.began, s.gap)]
       /\ usage' = [usage EXCEPT ![Date(l)] = Bump(l)]
       /\ job' = [job EXCEPT ![s.job].status = "processing", ![s.job].lease = l]
       /\ unit' = [n \in Granted \cup {Cardinality(Granted) + 1} |->
                      IF n \in Granted THEN unit[n]
                      ELSE [job |-> s.job, date |-> Date(l), hour |-> HourOf(s.began),
                            refunded |-> FALSE]]
       /\ Goes(l, [s EXCEPT !.pc = "granted", !.seen = 0, !.unit = Cardinality(Granted) + 1])
       /\ UNCHANGED <<now>>

NextOpen(t) ==
    CASE t % Day < Open  -> DateOf(t) * Day + Open
      [] t % Day \in Open .. Close - 1 -> t
      [] OTHER -> NextMidnight(t) + Open

\* pacing-deny-reason, whose snapshot is taken to be that of the refusal, and
\* resolveRetryAt, which goes by the clock of the loop.
RetryAt(l) ==
    LET k == Kind[loop[l].job]
        t == loop[l].began
        r == Ensured(l)
    IN CASE ~InWindow(t) -> NextOpen(now)
         [] InWindow(t) /\ k # "exempt" /\ r.eligible > t -> r.eligible
         [] OTHER -> NextMidnight(now)

\* Refused: deferJob, and the commit; the rows that were ensured stay.
Defer(l) ==
    /\ loop[l].pc = "reserving" /\ ~Grants(l)
    /\ ledger' = [ledger EXCEPT ![Inst(l)][Date(l)] = Ensured(l)]
    /\ job' = [job EXCEPT ![loop[l].job].next = RetryAt(l)]
    /\ Goes(l, Idle)
    /\ UNCHANGED <<now, usage, unit>>

-----------------------------------------------------------------------------
(* After the commit. *)

\* Mutant of Requeued: the lease stays on the row.
RequeuedLeased(j) == [job EXCEPT ![j].status = "queued", ![j].next = 0]

\* After a backoff or a hold, each shorter than a tick.
Requeued(j) == [job EXCEPT ![j].status = "queued", ![j].lease = NoLoop, ![j].next = 0]

\* Mutant of Holds: the job is asked for and not the lease.
HoldsAny(l) == job[loop[l].job].status \in {"queued", "processing"}

\* status = 'processing' AND lease_id = $1.
Holds(l) == job[loop[l].job].status = "processing" /\ job[loop[l].job].lease = l

\* The media of the job is not to be had: deferJob, and the unit is kept.
MediaDefers(l) ==
    /\ loop[l].pc = "granted" /\ Kind[loop[l].job] # "exempt"
    /\ job' = IF Holds(l) THEN Requeued(loop[l].job) ELSE job
    /\ Goes(l, Idle)
    /\ UNCHANGED <<now, ledger, usage, unit>>

\* The recipient has opted out since the content guards: runOptOutPrecheck
\* cancels, and commits.
PrecheckCancels(l) ==
    /\ loop[l].pc = "granted" /\ Kind[loop[l].job] # "group" /\ Holds(l)
    /\ job' = [job EXCEPT ![loop[l].job].status = "cancelled", ![loop[l].job].lease = NoLoop]
    /\ Goes(l, [loop[l] EXCEPT !.pc = "refunding"])
    /\ UNCHANGED <<now, ledger, usage, unit>>

\* prepareAndIncrement, and the send: sent, queued again, or left unresolved;
\* without the lease it throws before the message goes out.
Send(l) ==
    /\ loop[l].pc = "granted"
    /\ \/ /\ Holds(l)
          /\ \/ job' = [job EXCEPT ![loop[l].job].status = "sent",
                                   ![loop[l].job].lease = NoLoop]
             \/ job' = Requeued(loop[l].job)
             \/ UNCHANGED job
       \/ ~Holds(l) /\ UNCHANGED job
    /\ Goes(l, Idle)
    /\ UNCHANGED <<now, ledger, usage, unit>>

\* Mutant of RefundDate: the unit is given back to the present day.
RefundDateToday(l) == DateOf(now)

\* ledgerDate of the reservation.
RefundDate(l) == Date(l)

NotBelow(n) == IF n < 0 THEN 0 ELSE n

\* The SET clause of release-pacing.
Returned(r, k, gap) ==
    IF k = "exempt" THEN [r EXCEPT !.system = NotBelow(@ - 1), !.refunds = @ + 1]
    ELSE [r EXCEPT !.consumed = NotBelow(@ - 1), !.new = NotBelow(@ - One(k = "new")),
                   !.group = NotBelow(@ - One(k = "group")), !.refunds = @ + 1,
                   !.eligible = IF @ - gap < now THEN now ELSE @ - gap]

\* refundPacingUnitAfterPrecheckCancel.
Refund(l) ==
    LET j == loop[l].job
    IN /\ loop[l].pc = "refunding"
       /\ IF job[j].refunded \/ NoRowYet(Inst(l), RefundDate(l))
          THEN UNCHANGED <<ledger, unit>>
          ELSE /\ ledger' = [ledger EXCEPT ![Inst(l)][RefundDate(l)] =
                                Returned(@, Kind[j], loop[l].gap)]
               /\ unit' = [unit EXCEPT ![loop[l].unit].refunded = TRUE]
       /\ job' = [job EXCEPT ![j].refunded = TRUE]
       /\ Goes(l, Idle)
       /\ UNCHANGED <<now, usage>>

-----------------------------------------------------------------------------
(* The world. *)

\* The process dies; an open transaction is rolled back.
Dies(l) ==
    /\ loop[l].pc # "idle"
    /\ Goes(l, Idle)
    /\ UNCHANGED <<now, ledger, usage, job, unit>>

\* The lease of the job has expired: the reaper, or the reconciler after it.
Reap(j) ==
    /\ job[j].status = "processing"
    /\ job' = Requeued(j)
    /\ UNCHANGED <<now, ledger, usage, loop, unit>>

Tick ==
    /\ now < MaxTime
    /\ now' = now + 1
    /\ job' = [j \in Jobs |-> [job[j] EXCEPT !.next = IF @ <= now' THEN 0 ELSE @]]
    /\ UNCHANGED <<ledger, usage, loop, unit>>

Works(l) ==
    \/ \E j \in Jobs : Claim(l, j)
    \/ GuardDisposes(l) \/ GuardDefers(l) \/ Snapshot(l) \/ Reserve(l) \/ Defer(l)
    \/ MediaDefers(l) \/ PrecheckCancels(l) \/ Send(l) \/ Refund(l)
    \/ Dies(l)

Next ==
    \/ \E l \in Loops : Works(l)
    \/ \E j \in Jobs : Reap(j)
    \/ Tick

Spec == Init /\ [][Next]_vars

-----------------------------------------------------------------------------
(* Properties. *)

\* Every variable has its type, and a job is leased exactly while it is processed.
TypeOK ==
    /\ now \in 0 .. MaxTime
    /\ ledger \in [Instances -> [Dates -> Ledgers]]
    /\ usage \in [Dates -> Nat]
    /\ job \in [Jobs -> JobRows]
    /\ \A j \in Jobs : job[j].lease # NoLoop <=> job[j].status = "processing"
    /\ loop \in [Loops -> LoopStates]
    /\ Granted \subseteq 1 .. MaxUnits /\ \A n \in Granted : unit[n] \in Units

UnitsOf(i, d) == {n \in Granted : Of[unit[n].job] = i /\ unit[n].date = d}
Counted(i, d, kinds) ==
    {n \in UnitsOf(i, d) : ~unit[n].refunded /\ Kind[unit[n].job] \in kinds}
Paced == {"plain", "new", "group"}

\* Through reservations, refunds, crashes and midnights the counters of a
\* ledger row are the units granted on its date and not given back.
CountersMatchUnits ==
    \A i \in Instances, d \in Dates :
        /\ ledger[i][d].consumed = Cardinality(Counted(i, d, Paced))
        /\ ledger[i][d].new = Cardinality(Counted(i, d, {"new"}))
        /\ ledger[i][d].group = Cardinality(Counted(i, d, {"group"}))
        /\ ledger[i][d].system = Cardinality(Counted(i, d, {"exempt"}))
        /\ ledger[i][d].refunds =
             Cardinality({n \in UnitsOf(i, d) : unit[n].refunded})

\* No instance is granted more in a local day or hour than its caps, although
\* transactions of an hour that is over may commit after those of the next one.
CapsKept ==
    \A i \in Instances, d \in Dates :
        /\ Cardinality(Counted(i, d, Paced)) <= DailyCap
        /\ Cardinality(Counted(i, d, {"new"})) <= NewCap
        /\ Cardinality(Counted(i, d, {"group"})) <= GroupCap
        /\ \A h \in 0 .. HourOf(Day - 1) :
             Cardinality({n \in UnitsOf(i, d) : unit[n].hour = h
                             /\ Kind[unit[n].job] \in Paced}) <= HourlyCap

\* The plan's usage is the units granted in the day, refunded or not, and since
\* each loop may have one reservation under way that has not seen the others,
\* it exceeds the cap by less than the number of loops.
PlanNearlyKept ==
    \A d \in Dates :
        /\ usage[d] = Cardinality({n \in Granted : unit[n].date = d})
        /\ PlanCap > 0 => usage[d] < PlanCap + Cardinality(Loops)

\* A unit is given back for a job that is cancelled and was not granted another
\* one since: no message is sent whose pacing was returned.
RefundIsLast ==
    \A n \in Granted : unit[n].refunded =>
        /\ job[unit[n].job].status = "cancelled"
        /\ \A m \in Granted : unit[m].job = unit[n].job => m <= n
=============================================================================
