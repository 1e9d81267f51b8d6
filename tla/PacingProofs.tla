---------------------------- MODULE PacingProofs ----------------------------
(***************************************************************************)
(* Theorems about Pacing, for any instances, loops, jobs, caps, windows,   *)
(* lengths of the day and hour, and bounds of time and of units.           *)
(***************************************************************************)
EXTENDS Pacing, FiniteSetTheorems, TLAPS

(* The inductive invariant. *)

Transacting == {l \in Loops : Transacts(l)}

\* A loop at work has a job, and began no later than now.  An open transaction has its
\* job locked, alone, so the job is still queued; and there is room for what it grants.
AtWork ==
    /\ \A l \in Loops : loop[l].pc # "idle" => loop[l].job \in Jobs /\ loop[l].began <= now
    /\ \A l \in Transacting :
         /\ job[loop[l].job].status = "queued"
         /\ \A k \in Transacting : loop[k].job = loop[l].job => k = l
    /\ Granted = 1 .. Cardinality(Granted)
    /\ Cardinality(Granted) + Cardinality(Transacting) <= MaxUnits

TypeInv == TypeOK /\ AtWork

\* What a loop has been granted is the unit it will give back.
UnitsKnown ==
    \A l \in Loops : loop[l].pc \in {"granted", "refunding"} =>
        /\ loop[l].unit \in Granted
        /\ unit[loop[l].unit].job = loop[l].job
        /\ unit[loop[l].unit].date = Date(l)

Last(n) == \A m \in Granted : unit[m].job = unit[n].job => m <= n

\* While its loop holds the lease the unit is the last of its job, and after the cancel
\* nobody will be granted another one.
LastUnits ==
    /\ \A l \in Loops : loop[l].pc = "granted" /\ Holds(l) => Last(loop[l].unit)
    /\ \A l \in Loops : loop[l].pc = "refunding" =>
         job[loop[l].job].status = "cancelled" /\ Last(loop[l].unit)
    /\ \A n \in Granted : unit[n].refunded => job[unit[n].job].refunded

RefundInv == UnitsKnown /\ LastUnits /\ RefundIsLast

\* The reservations that a day may still get beyond what the cap allows: of the loops
\* whose snapshot was below it.
Eager(d) ==
    {l \in Loops : loop[l].pc = "reserving" /\ Date(l) = d /\ loop[l].seen < PlanCap}
PlanInv ==
    \A d \in Dates :
        /\ usage[d] = Cardinality({n \in Granted : unit[n].date = d})
        /\ PlanCap > 0 => usage[d] + Cardinality(Eager(d)) < PlanCap + Cardinality(Loops)

PacedIn(i, d, h) == {n \in UnitsOf(i, d) : unit[n].hour = h /\ Kind[unit[n].job] \in Paced}

\* A row counts the units of its hour, which is the last one that has any: nobody whose
\* transaction began in an earlier hour finds the gap passed.
HourSound(i, d, r) ==
    /\ \E t \in 0 .. now : DateOf(t) = d /\ HourOf(t) = r.key /\ t <= r.eligible
    /\ \A n \in UnitsOf(i, d) : Kind[unit[n].job] \in Paced => unit[n].hour <= r.key
    /\ r.hour = Cardinality(PacedIn(i, d, r.key))
HoursInv ==
    \A i \in Instances, d \in Dates :
        /\ ledger[i][d] # NoRow => HourSound(i, d, ledger[i][d])
        /\ ledger[i][d] = NoRow => UnitsOf(i, d) = {}

PacingInv == TypeInv /\ RefundInv /\ CountersMatchUnits /\ PlanInv /\ HoursInv /\ CapsKept
-----------------------------------------------------------------------------
(* Arithmetic and counting. *)

LEMMA Dating ==
    ASSUME NEW t \in Nat
    PROVE  /\ DateOf(t) \in Nat /\ HourOf(t) \in Nat /\ NextMidnight(t) \in Nat
           /\ t <= MaxTime => DateOf(t) \in Dates
<1>1. Day \in Nat \ {0} /\ Hour \in Nat \ {0} /\ MaxTime \in Nat
  BY PacingAssumption
<1>2. t \div Day \in Nat /\ t % Day \in Nat
  BY <1>1
<1>3. (t % Day) \div Hour \in Nat
  BY <1>1, <1>2
<1>4. t <= MaxTime => t \div Day <= MaxTime \div Day
  BY <1>1
<1>5. MaxTime \div Day \in Nat
  BY <1>1
<1>6. (t \div Day + 1) * Day \in Nat
  BY <1>1, <1>2
<1> QED BY <1>2, <1>3, <1>4, <1>5, <1>6 DEF DateOf, HourOf, NextMidnight, Dates

\* Within a day the hours do not run backwards.
LEMMA HoursGoOn ==
    ASSUME NEW s \in Nat, NEW t \in Nat, s <= t, DateOf(s) = DateOf(t)
    PROVE  HourOf(s) <= HourOf(t)
<1>1. Day \in Nat \ {0} /\ Hour \in Nat \ {0}
  BY PacingAssumption
<1>2. s % Day <= t % Day /\ s % Day \in Nat /\ t % Day \in Nat
  BY <1>1 DEF DateOf
<1> QED BY <1>1, <1>2 DEF HourOf

LEMMA GrantedFinite ==
    ASSUME TypeOK
    PROVE  \A S \in SUBSET Granted : IsFiniteSet(S) /\ Cardinality(S) \in Nat
<1>1. IsFiniteSet(1 .. MaxUnits)
  BY FS_Interval, PacingAssumption
<1> QED BY <1>1, FS_Subset, FS_CardinalityType DEF TypeOK

LEMMA LoopsFinite ==
    \A S \in SUBSET Loops : IsFiniteSet(S) /\ Cardinality(S) \in Nat
  BY FS_Subset, FS_CardinalityType, PacingAssumption

LEMMA OneMore ==
    ASSUME NEW S, IsFiniteSet(S), NEW x
    PROVE  /\ Cardinality(S \cup {x}) <= Cardinality(S) + 1
           /\ x \notin S => Cardinality(S \cup {x}) = Cardinality(S) + 1
<1>1. Cardinality(S) \in Nat
  BY FS_CardinalityType
<1>2. Cardinality(S \cup {x}) = IF x \in S THEN Cardinality(S) ELSE Cardinality(S) + 1
  BY FS_AddElement
<1> QED BY <1>1, <1>2

LEMMA OneLess ==
    ASSUME NEW S, IsFiniteSet(S), NEW x \in S
    PROVE  Cardinality(S \ {x}) = Cardinality(S) - 1 /\ Cardinality(S) - 1 \in Nat
<1>1. Cardinality(S \ {x}) = Cardinality(S) - 1
  BY FS_RemoveElement
<1>2. Cardinality(S \ {x}) \in Nat
  BY FS_RemoveElement, FS_CardinalityType
<1> QED BY <1>1, <1>2

-----------------------------------------------------------------------------
(* Types. *)

Ledger == [Instances -> [Dates -> Ledgers]]
Leased(jobs) == \A j \in Jobs : jobs[j].lease # NoLoop <=> jobs[j].status = "processing"

\* The bounds are numbers.
LEMMA Bounds ==
    {DailyCap, HourlyCap, NewCap, GroupCap, PlanCap, Open, Close, Day, MaxTime, MaxUnits}
      \subseteq Nat
<1>1. Day \in Nat /\ Open \in Nat /\ Close \in Nat
  BY PacingAssumption
<1> QED BY <1>1, PacingAssumption

\* A loop at work: its job, its time and its gap.
LEMMA WorkType ==
    ASSUME TypeInv, NEW l \in Loops, loop[l].pc # "idle"
    PROVE  /\ loop[l].job \in Jobs /\ loop[l].began \in Nat /\ loop[l].gap \in Nat
           /\ loop[l].began <= now /\ now \in Nat /\ now <= MaxTime
<1>1. loop[l] \in LoopStates
  BY DEF TypeInv, TypeOK
<1>2. now \in Nat /\ now <= MaxTime
  BY Bounds DEF TypeInv, TypeOK
<1>3. loop[l].began \in Nat /\ loop[l].gap \in Nat
  BY <1>1 DEF LoopStates
<1> QED BY <1>2, <1>3 DEF TypeInv, AtWork

\* A step of one loop that grants nothing, and goes on with the job it has if at all.
LEMMA LoopStep ==
    ASSUME TypeInv, NEW l \in Loops, NEW s \in LoopStates, Goes(l, s),
           UNCHANGED <<now, unit>>, ledger' \in Ledger, usage' \in [Dates -> Nat],
           job' \in [Jobs -> JobRows], Leased(job'),
           s.pc # "idle" => s.job \in Jobs /\ s.began <= now,
           s.pc \in {"claimed", "reserving"} =>
              Transacts(l) /\ s.job = loop[l].job /\ job'[s.job].status = "queued",
           \A k \in Transacting \ {l} : job'[loop[k].job].status = "queued"
    PROVE  TypeInv'
<1> USE DEF TypeInv, TypeOK, AtWork
<1>1. loop' \in [Loops -> LoopStates] /\ loop'[l] = s /\ \A k \in Loops \ {l} : loop'[k] = loop[k]
  BY DEF Goes
<1>2. Granted' = Granted
  BY DEF Granted
<1>3. Transacting' \subseteq Transacting
  BY <1>1 DEF Transacting, Transacts
<1>4. Cardinality(Transacting') <= Cardinality(Transacting) /\ Cardinality(Transacting') \in Nat
      /\ Cardinality(Transacting) \in Nat
  <2>1. Transacting \in SUBSET Loops /\ Transacting' \in SUBSET Transacting
    BY <1>3 DEF Transacting
  <2> QED BY <2>1, LoopsFinite, FS_Subset
<1>5. Cardinality(Granted) \in Nat
  BY GrantedFinite
<1>6. TypeOK'
  BY <1>1, <1>2 DEF Ledger, Leased
<1>7. \A k \in Transacting' : k = l => s.pc \in {"claimed", "reserving"}
  BY <1>1 DEF Transacting, Transacts
<1>8. \A k \in Transacting' : loop'[k].job = loop[k].job /\ job'[loop'[k].job].status = "queued"
  BY <1>1, <1>3, <1>7 DEF Transacting
<1>9. AtWork'
  <2>1. \A k \in Loops : loop'[k].pc # "idle" => loop'[k].job \in Jobs /\ loop'[k].began <= now
    BY <1>1
  <2>2. \A k \in Transacting' : \A m \in Transacting' : loop'[m].job = loop'[k].job => m = k
    BY <1>3, <1>8
  <2>3. Cardinality(Granted') + Cardinality(Transacting') <= MaxUnits
    <3>1. Cardinality(Granted) + Cardinality(Transacting) <= MaxUnits
      OBVIOUS
    <3> HIDE DEF TypeInv, TypeOK, AtWork
    <3> QED BY <1>2, <1>4, <1>5, <3>1, Bounds
  <2> QED BY <1>2, <1>8, <2>1, <2>2, <2>3
<1> QED BY <1>6, <1>9

\* What a loop has written to its job, nobody else has locked: their jobs are queued, and
\* an open transaction has its job alone.
LEMMA OthersQueued ==
    ASSUME TypeInv, NEW l \in Loops, NEW j \in Jobs,
           (Transacts(l) /\ j = loop[l].job) \/ job[j].status # "queued",
           \A i \in Jobs \ {j} : job'[i] = job[i]
    PROVE  \A k \in Transacting \ {l} : job'[loop[k].job].status = "queued"
  BY DEF TypeInv, TypeOK, AtWork, Transacting, Transacts

LEMMA IdleState ==
    /\ Idle \in LoopStates /\ Idle.pc = "idle"
    /\ TypeOK => Leased(job)
  BY PacingAssumption DEF Idle, LoopStates, TypeOK, Leased

\* One row of message_jobs.
LEMMA JobSet ==
    ASSUME TypeOK, NEW j \in Jobs, NEW r \in JobRows, r.lease # NoLoop <=> r.status = "processing",
           job' = [job EXCEPT ![j] = r]
    PROVE  job' \in [Jobs -> JobRows] /\ Leased(job') /\ job'[j] = r
           /\ (\A i \in Jobs \ {j} : job'[i] = job[i])
  BY DEF TypeOK, Leased

LEMMA RequeuedSet ==
    ASSUME TypeOK, NEW j \in Jobs, job' = Requeued(j)
    PROVE  /\ job' \in [Jobs -> JobRows] /\ Leased(job') /\ job'[j].status = "queued"
           /\ \A i \in Jobs \ {j} : job'[i] = job[i]
<1> DEFINE r == [job[j] EXCEPT !.status = "queued", !.lease = NoLoop, !.next = 0]
<1>1. job' = [job EXCEPT ![j] = r]
  BY DEF Requeued, TypeOK
<1>2. r \in JobRows /\ r.lease = NoLoop /\ r.status = "queued"
  BY DEF TypeOK, JobRows
<1> HIDE DEF r
<1> QED BY <1>1, <1>2, JobSet

LEMMA RetryType ==
    ASSUME TypeInv, NEW l \in Loops, Transacts(l)
    PROVE  RetryAt(l) \in Nat
<1> USE DEF TypeInv, TypeOK
<1>1. now \in Nat /\ DateOf(now) \in Nat /\ NextMidnight(now) \in Nat
  BY Dating, PacingAssumption
<1>2. Open \in Nat /\ Day \in Nat
  BY PacingAssumption
<1>3. DateOf(now) * Day + Open \in Nat /\ NextMidnight(now) + Open \in Nat
  BY <1>1, <1>2
<1>4. NextOpen(now) \in Nat
  BY <1>1, <1>3 DEF NextOpen
<1>5. loop[l].job \in Jobs /\ loop[l].began \in Nat /\ loop[l].began <= now /\ now <= MaxTime
  <2>1. loop[l].pc # "idle"
    BY DEF Transacts
  <2> HIDE DEF TypeInv, TypeOK
  <2> QED BY <2>1, WorkType
<1>6. Inst(l) \in Instances /\ Date(l) \in Dates
  BY <1>5, Dating, PacingAssumption DEF Inst, Date
<1>7. Ensured(l).eligible \in Int
  BY <1>5, <1>6 DEF Ensured, Fresh, Ledgers
<1>8. Ensured(l).eligible > loop[l].began => Ensured(l).eligible \in Nat
  BY <1>5, <1>7
<1> DEFINE r == Ensured(l)
<1> HIDE DEF r
<1> QED BY <1>1, <1>4, <1>8 DEF RetryAt, r

\* The transaction of a claim: of a loop that was idle, or of one that has just disposed
\* of the job it had.
LEMMA ClaimStep ==
    ASSUME TypeInv, NEW l \in Loops, NEW j \in Jobs, NEW s \in LoopStates, Goes(l, s),
           Claimable(j), s.pc = "claimed", s.job = j, s.began <= now,
           UNCHANGED <<now, ledger, usage, unit>>,
           job' \in [Jobs -> JobRows], Leased(job'), job'[j] = job[j],
           \A k \in Transacting \ {l} : job'[loop[k].job].status = "queued"
    PROVE  TypeInv'
<1> USE DEF TypeInv, TypeOK, AtWork
<1>1. loop' \in [Loops -> LoopStates] /\ loop'[l] = s /\ \A k \in Loops \ {l} : loop'[k] = loop[k]
  BY DEF Goes
<1>2. Granted' = Granted /\ Cardinality(Granted) \in Nat
  BY GrantedFinite DEF Granted
<1>3. Transacting' = Transacting \cup {l}
  BY <1>1 DEF Transacting, Transacts
<1>4. /\ job[j].status = "queued" /\ \A k \in Transacting : loop[k].job # j
      /\ Cardinality(Granted) + Cardinality(Transacting) < MaxUnits
  BY DEF Claimable, Locked, Transacting
<1>5. Cardinality(Transacting') <= Cardinality(Transacting) + 1
      /\ Cardinality(Transacting) \in Nat /\ Cardinality(Transacting') \in Nat
  <2>1. IsFiniteSet(Transacting) /\ Cardinality(Transacting) \in Nat
    BY LoopsFinite DEF Transacting
  <2>2. Cardinality(Transacting \cup {l}) <= Cardinality(Transacting) + 1
    BY <2>1, OneMore
  <2>3. Cardinality(Transacting \cup {l}) \in Nat
    BY LoopsFinite DEF Transacting
  <2> QED BY <1>3, <2>1, <2>2, <2>3
<1>6. TypeOK'
  BY <1>1, <1>2 DEF Leased
<1>7. \A k \in Loops : loop'[k].pc # "idle" => loop'[k].job \in Jobs /\ loop'[k].began <= now
  BY <1>1
<1>8. \A k \in Transacting' : job'[loop'[k].job].status = "queued"
  BY <1>1, <1>3, <1>4 DEF Transacting
<1>9. \A k, m \in Transacting' : loop'[m].job = loop'[k].job => m = k
  BY <1>1, <1>3, <1>4 DEF Transacting
<1>10. Cardinality(Granted') + Cardinality(Transacting') <= MaxUnits
  <2> HIDE DEF TypeInv, TypeOK, AtWork
  <2> QED BY <1>2, <1>4, <1>5, Bounds
<1> QED BY <1>2, <1>6, <1>7, <1>8, <1>9, <1>10

LEMMA ClaimType ==
    ASSUME TypeInv, NEW l \in Loops, NEW j \in Jobs, Claim(l, j)
    PROVE  TypeInv'
<1> DEFINE s == [Idle EXCEPT !.pc = "claimed", !.job = j, !.began = now]
<1>1. s \in LoopStates /\ s.pc = "claimed" /\ s.job = j /\ s.began = now
  <2>1. now \in Nat
    BY PacingAssumption DEF TypeInv, TypeOK
  <2> QED BY <2>1, IdleState DEF LoopStates
<1>2. Goes(l, s) /\ Claimable(j) /\ UNCHANGED <<now, ledger, usage, job, unit>>
  BY DEF Claim
<1>3. \A k \in Transacting \ {l} : job[loop[k].job].status = "queued"
  BY DEF TypeInv, AtWork
<1>4. s.began <= now
  BY <1>1, PacingAssumption DEF TypeInv, TypeOK
<1> HIDE DEF s
<1> QED BY <1>1, <1>2, <1>3, <1>4, ClaimStep, IdleState DEF TypeInv, TypeOK

LEMMA GuardDisposesType ==
    ASSUME TypeInv, NEW l \in Loops, GuardDisposes(l)
    PROVE  TypeInv'
<1> USE DEF TypeInv
<1> DEFINE j == loop[l].job
           r == [job[j] EXCEPT !.status = "cancelled"]
<1>1. /\ loop[l].pc = "claimed" /\ Transacts(l) /\ l \in Transacting /\ loop[l] \in LoopStates
      /\ UNCHANGED <<now, ledger, usage, unit>>
  BY DEF GuardDisposes, Transacts, Transacting, TypeOK
<1>2. j \in Jobs /\ job[j].status = "queued" /\ loop[l].began <= now
  BY <1>1 DEF AtWork
<1>3. job' = [job EXCEPT ![j] = r]
  BY <1>2 DEF GuardDisposes, TypeOK
<1>4. r \in JobRows /\ r.lease = NoLoop /\ r.status = "cancelled"
  BY <1>2 DEF TypeOK, JobRows
<1>5. /\ job' \in [Jobs -> JobRows] /\ Leased(job')
      /\ \A i \in Jobs \ {j} : job'[i] = job[i]
  <2> HIDE DEF r
  <2> QED BY <1>2, <1>3, <1>4, JobSet
<1>6. \A k \in Transacting \ {l} : job'[loop[k].job].status = "queued"
  BY <1>1, <1>2, <1>5, OthersQueued
<1>7. CASE Goes(l, Idle)
  BY <1>1, <1>5, <1>6, <1>7, LoopStep, IdleState DEF TypeOK, Ledger
<1>8. ASSUME NEW i \in Jobs, Claimable(i), Goes(l, [loop[l] EXCEPT !.job = i])
      PROVE  TypeInv'
  <2> DEFINE s == [loop[l] EXCEPT !.job = i]
  <2>1. s \in LoopStates /\ s.pc = "claimed" /\ s.job = i /\ s.began = loop[l].began
    BY <1>1 DEF LoopStates
  <2>2. i # j
    BY <1>1, <1>8 DEF Claimable, Locked
  <2>3. job'[i] = job[i]
    BY <1>5, <2>2
  <2> HIDE DEF s, j, r
  <2>4. Goes(l, s)
    BY <1>8 DEF s
  <2> QED BY <1>1, <1>2, <1>5, <1>6, <1>8, <2>1, <2>3, <2>4, ClaimStep
<1> QED BY <1>7, <1>8 DEF GuardDisposes

\* The row as a reservation finds it.
LEMMA EnsuredType ==
    ASSUME TypeInv, NEW l \in Loops, Transacts(l)
    PROVE  /\ loop[l].job \in Jobs /\ loop[l].began \in 0 .. now /\ now \in 0 .. MaxTime
           /\ Inst(l) \in Instances /\ Date(l) \in Dates /\ Ensured(l) \in Ledgers
<1>1. /\ loop[l].job \in Jobs /\ loop[l].began \in 0 .. now /\ now \in 0 .. MaxTime
  <2>1. loop[l].pc # "idle"
    BY DEF Transacts
  <2> QED BY <2>1, WorkType, Bounds
<1>2. Inst(l) \in Instances /\ Date(l) \in Dates
  BY <1>1, Dating, PacingAssumption DEF Inst, Date
<1>3. Fresh(loop[l].began) \in Ledgers
  BY <1>1, Dating, PacingAssumption DEF Fresh, Ledgers
<1> QED BY <1>1, <1>2, <1>3 DEF Ensured, TypeInv, TypeOK

\* What does not touch the job, or ends the step in it.
LEMMA QuietTypes ==
    ASSUME TypeInv, NEW l \in Loops, Snapshot(l) \/ Dies(l) \/ (Send(l) /\ ~Holds(l))
    PROVE  TypeInv'
<1> USE DEF TypeInv
<1>1. \A k \in Transacting : job[loop[k].job].status = "queued"
  BY DEF AtWork
<1>2. CASE Snapshot(l)
  <2>1. PICK g \in Gaps :
          Goes(l, [loop[l] EXCEPT !.pc = "reserving", !.gap = g, !.seen = usage[Date(l)]])
    BY <1>2 DEF Snapshot
  <2>2. /\ loop[l].pc = "claimed" /\ Transacts(l) /\ UNCHANGED <<now, ledger, usage, job, unit>>
        /\ l \in Transacting
    BY <1>2 DEF Snapshot, Transacts, Transacting
  <2>3. Date(l) \in Dates /\ loop[l].job \in Jobs /\ loop[l].began <= now
    BY <2>2, EnsuredType DEF AtWork
  <2> DEFINE s == [loop[l] EXCEPT !.pc = "reserving", !.gap = g, !.seen = usage[Date(l)]]
  <2>4. s \in LoopStates /\ s.pc = "reserving" /\ s.job = loop[l].job /\ s.began = loop[l].began
    <3>1. g \in Nat
      BY PacingAssumption
    <3>2. loop[l] \in LoopStates /\ usage[Date(l)] \in Nat
      BY <2>3 DEF TypeOK
    <3> HIDE DEF TypeInv
    <3> QED BY <3>1, <3>2 DEF LoopStates
  <2>5. Goes(l, s)
    BY <2>1
  <2>6. job[s.job].status = "queued"
    BY <1>1, <2>2, <2>4
  <2> HIDE DEF s
  <2> QED BY <1>1, <2>2, <2>3, <2>4, <2>5, <2>6, LoopStep, IdleState DEF TypeOK, Ledger
<1>3. CASE Dies(l) \/ (Send(l) /\ ~Holds(l))
  <2>1. Goes(l, Idle) /\ UNCHANGED <<now, ledger, usage, job, unit>>
    BY <1>3 DEF Dies, Send
  <2> QED BY <1>1, <2>1, LoopStep, IdleState DEF TypeOK, Ledger
<1> QED BY <1>2, <1>3

\* A transaction that holds its job back.
LEMMA DeferTypes ==
    ASSUME TypeInv, NEW l \in Loops, GuardDefers(l) \/ Defer(l)
    PROVE  TypeInv'
<1> USE DEF TypeInv
<1> DEFINE j == loop[l].job
<1>1. Transacts(l) /\ l \in Transacting /\ UNCHANGED <<now, usage, unit>> /\ Goes(l, Idle)
  BY DEF GuardDefers, Defer, Transacts, Transacting
<1>2. j \in Jobs /\ job[j].status = "queued"
  BY <1>1, EnsuredType DEF AtWork
<1>3. PICK t \in Nat : job' = [job EXCEPT ![j].next = t]
  <2>1. 0 \in Nat /\ NextMidnight(now) \in Nat
    BY Dating, PacingAssumption DEF TypeOK
  <2>2. RetryAt(l) \in Nat
    BY <1>1, RetryType
  <2> QED BY <2>1, <2>2 DEF GuardDefers, Defer
<1> DEFINE r == [job[j] EXCEPT !.next = t]
<1>4. job' = [job EXCEPT ![j] = r]
  BY <1>2, <1>3 DEF TypeOK
<1>5. r \in JobRows /\ r.lease = job[j].lease /\ r.status = job[j].status
  <2>1. job[j] \in JobRows
    BY <1>2 DEF TypeOK
  <2> HIDE DEF TypeInv, j
  <2> QED BY <2>1, <1>3 DEF JobRows
<1>6. /\ job' \in [Jobs -> JobRows] /\ Leased(job')
      /\ \A i \in Jobs \ {j} : job'[i] = job[i]
  <2>1. job[j].lease # NoLoop <=> job[j].status = "processing"
    BY <1>2 DEF TypeOK
  <2> HIDE DEF r
  <2> QED BY <1>2, <1>4, <1>5, <2>1, JobSet
<1>7. ledger' \in Ledger
  BY <1>1, EnsuredType DEF GuardDefers, Defer, TypeOK, Ledger
<1>8. \A k \in Transacting \ {l} : job'[loop[k].job].status = "queued"
  BY <1>1, <1>2, <1>6, OthersQueued
<1> HIDE DEF j, r
<1> QED BY <1>1, <1>6, <1>7, <1>8, LoopStep, IdleState DEF TypeOK

\* After the commit a job that is not queued is written, or none.
LEMMA AfterTypes ==
    ASSUME TypeInv, NEW l \in Loops,
           MediaDefers(l) \/ PrecheckCancels(l) \/ (Send(l) /\ Holds(l))
    PROVE  TypeInv'
<1> USE DEF TypeInv
<1> DEFINE j == loop[l].job
<1>1. j \in Jobs /\ loop[l].began <= now /\ loop[l] \in LoopStates /\ ~Transacts(l)
      /\ UNCHANGED <<now, ledger, usage, unit>>
  BY DEF MediaDefers, PrecheckCancels, Send, AtWork, TypeOK, Transacts
<1>2. Holds(l) => job[j].status = "processing"
  BY DEF Holds
<1>3. CASE job' = job /\ Goes(l, Idle)
  BY <1>1, <1>3, LoopStep, IdleState DEF TypeOK, Ledger, AtWork
<1>4. CASE Holds(l) /\ job' = Requeued(j) /\ Goes(l, Idle)
  <2>1. /\ job' \in [Jobs -> JobRows] /\ Leased(job')
        /\ \A i \in Jobs \ {j} : job'[i] = job[i]
    BY <1>1, <1>4, RequeuedSet
  <2>2. \A k \in Transacting \ {l} : job'[loop[k].job].status = "queued"
    BY <1>1, <1>2, <1>4, <2>1, OthersQueued
  <2> HIDE DEF j
  <2> QED BY <1>1, <1>4, <2>1, <2>2, LoopStep, IdleState DEF TypeOK, Ledger
<1>5. ASSUME Holds(l), NEW st \in {"sent", "cancelled"},
             job' = [job EXCEPT ![j].status = st, ![j].lease = NoLoop]
      PROVE  /\ job' \in [Jobs -> JobRows] /\ Leased(job')
             /\ \A k \in Transacting \ {l} : job'[loop[k].job].status = "queued"
  <2> DEFINE r == [job[j] EXCEPT !.status = st, !.lease = NoLoop]
  <2>1. job' = [job EXCEPT ![j] = r]
    BY <1>1, <1>5 DEF TypeOK
  <2>2. r \in JobRows /\ r.lease = NoLoop /\ r.status = st
    BY <1>1 DEF TypeOK, JobRows
  <2>3. /\ job' \in [Jobs -> JobRows] /\ Leased(job')
        /\ \A i \in Jobs \ {j} : job'[i] = job[i]
    <3> HIDE DEF r
    <3> QED BY <1>1, <2>1, <2>2, JobSet
  <2> QED BY <1>1, <1>2, <1>5, <2>3, OthersQueued
<1>6. CASE MediaDefers(l)
  BY <1>3, <1>4, <1>6 DEF MediaDefers
<1>7. CASE PrecheckCancels(l)
  <2> DEFINE s == [loop[l] EXCEPT !.pc = "refunding"]
  <2>1. s \in LoopStates /\ s.pc = "refunding" /\ s.job = j /\ s.began = loop[l].began
    BY <1>1 DEF LoopStates
  <2>2. Goes(l, s) /\ Holds(l) /\ job' = [job EXCEPT ![j].status = "cancelled", ![j].lease = NoLoop]
    BY <1>7 DEF PrecheckCancels
  <2>3. /\ job' \in [Jobs -> JobRows] /\ Leased(job')
        /\ \A k \in Transacting \ {l} : job'[loop[k].job].status = "queued"
    BY <1>5, <2>2
  <2> HIDE DEF s, j
  <2> QED BY <1>1, <2>1, <2>2, <2>3, LoopStep DEF TypeOK, Ledger
<1>8. CASE Send(l) /\ Holds(l)
  <2>1. Goes(l, Idle)
    BY <1>8 DEF Send
  <2>2. \/ job' = [job EXCEPT ![j].status = "sent", ![j].lease = NoLoop]
        \/ job' = Requeued(j) \/ job' = job
    BY <1>8 DEF Send
  <2>3. CASE job' = [job EXCEPT ![j].status = "sent", ![j].lease = NoLoop]
    <3>1. /\ job' \in [Jobs -> JobRows] /\ Leased(job')
          /\ \A k \in Transacting \ {l} : job'[loop[k].job].status = "queued"
      BY <1>5, <1>8, <2>3
    <3> HIDE DEF j
    <3> QED BY <1>1, <2>1, <3>1, LoopStep, IdleState DEF TypeOK, Ledger
  <2> QED BY <1>3, <1>4, <1>8, <2>1, <2>2, <2>3
<1> QED BY <1>6, <1>7, <1>8

\* What a reservation and a refund make of a row.
LEMMA ConsumedRow ==
    ASSUME NEW r \in Ledgers, NEW k, NEW t \in Nat, NEW gap \in Nat
    PROVE  LET c == Consumed(r, k, t, gap) IN
           /\ c \in Ledgers
           /\ c.refunds = r.refunds
           /\ k = "exempt" =>
                /\ c.consumed = r.consumed /\ c.new = r.new /\ c.group = r.group
                /\ c.system = r.system + 1
                /\ c.key = r.key /\ c.hour = r.hour /\ c.eligible = r.eligible
           /\ k # "exempt" =>
                /\ c.consumed = r.consumed + 1 /\ c.system = r.system
                /\ c.new = r.new + One(k = "new") /\ c.group = r.group + One(k = "group")
                /\ c.key = HourOf(t) /\ c.hour = SentThisHour(r, t) + 1
                /\ c.eligible = t + gap
<1> DEFINE c == Consumed(r, k, t, gap)
<1>1. CASE k = "exempt"
  <2>1. c = [r EXCEPT !.system = r.system + 1]
    BY <1>1 DEF Consumed, Ledgers
  <2>2. r.system + 1 \in Nat
    BY DEF Ledgers
  <2> HIDE DEF c
  <2>3. /\ c \in Ledgers /\ c.refunds = r.refunds /\ c.system = r.system + 1
        /\ c.consumed = r.consumed /\ c.new = r.new /\ c.group = r.group
        /\ c.key = r.key /\ c.hour = r.hour /\ c.eligible = r.eligible
    BY <2>1, <2>2 DEF Ledgers
  <2> QED BY <1>1, <2>3 DEF c
<1>2. CASE k # "exempt"
  <2> DEFINE key == HourOf(t)
             hour == SentThisHour(r, t) + 1
             new == r.new + One(k = "new")
             group == r.group + One(k = "group")
             con == r.consumed + 1
             el == t + gap
  <2>1. key \in Nat /\ hour \in Nat /\ new \in Nat /\ group \in Nat /\ con \in Nat /\ el \in Int
    BY Dating DEF SentThisHour, One, Ledgers
  <2>2. c = [r EXCEPT !.consumed = con, !.key = key, !.hour = hour, !.new = new,
                      !.group = group, !.eligible = el]
    BY <1>2 DEF Consumed, Ledgers
  <2> HIDE DEF c, key, hour, new, group, con, el
  <2>3. /\ c \in Ledgers /\ c.refunds = r.refunds /\ c.system = r.system
        /\ c.consumed = con /\ c.new = new /\ c.group = group
        /\ c.key = key /\ c.hour = hour /\ c.eligible = el
    <3> DEFINE r1 == [r EXCEPT !.consumed = con]
               r2 == [r1 EXCEPT !.key = key]
               r3 == [r2 EXCEPT !.hour = hour]
               r4 == [r3 EXCEPT !.new = new]
               r5 == [r4 EXCEPT !.group = group]
               r6 == [r5 EXCEPT !.eligible = el]
    <3>1. c = r6
      BY <2>2
    <3>2. r1 \in Ledgers /\ r1.consumed = con /\ r1.refunds = r.refunds /\ r1.system = r.system
      BY <2>1 DEF Ledgers
    <3> HIDE DEF r1
    <3>3. r2 \in Ledgers /\ r2.consumed = con /\ r2.refunds = r.refunds /\ r2.system = r.system
          /\ r2.key = key
      BY <2>1, <3>2 DEF Ledgers
    <3> HIDE DEF r2
    <3>4. r3 \in Ledgers /\ r3.consumed = con /\ r3.refunds = r.refunds /\ r3.system = r.system
          /\ r3.key = key /\ r3.hour = hour
      BY <2>1, <3>3 DEF Ledgers
    <3> HIDE DEF r3
    <3>5. r4 \in Ledgers /\ r4.consumed = con /\ r4.refunds = r.refunds /\ r4.system = r.system
          /\ r4.key = key /\ r4.hour = hour /\ r4.new = new
      BY <2>1, <3>4 DEF Ledgers
    <3> HIDE DEF r4
    <3>6. r5 \in Ledgers /\ r5.consumed = con /\ r5.refunds = r.refunds /\ r5.system = r.system
          /\ r5.key = key /\ r5.hour = hour /\ r5.new = new /\ r5.group = group
      BY <2>1, <3>5 DEF Ledgers
    <3> HIDE DEF r5
    <3>7. r6 \in Ledgers /\ r6.consumed = con /\ r6.refunds = r.refunds /\ r6.system = r.system
          /\ r6.key = key /\ r6.hour = hour /\ r6.new = new /\ r6.group = group
          /\ r6.eligible = el
      BY <2>1, <3>6 DEF Ledgers
    <3> HIDE DEF r6
    <3> QED BY <3>1, <3>7
  <2> QED BY <1>2, <2>3 DEF c, key, hour, new, group, con, el
<1> QED BY <1>1, <1>2

LEMMA ReturnedRow ==
    ASSUME NEW r \in Ledgers, NEW k, NEW gap \in Nat, now \in Nat
    PROVE  LET c == Returned(r, k, gap) IN
           /\ c \in Ledgers
           /\ c.refunds = r.refunds + 1 /\ c.key = r.key /\ c.hour = r.hour
           /\ k = "exempt" =>
                /\ c.consumed = r.consumed /\ c.new = r.new /\ c.group = r.group
                /\ c.system = NotBelow(r.system - 1) /\ c.eligible = r.eligible
           /\ k # "exempt" =>
                /\ c.consumed = NotBelow(r.consumed - 1) /\ c.system = r.system
                /\ c.new = NotBelow(r.new - One(k = "new"))
                /\ c.group = NotBelow(r.group - One(k = "group"))
                /\ c.eligible >= now
<1> DEFINE c == Returned(r, k, gap)
           refunds == r.refunds + 1
<1>0. refunds \in Nat
  BY DEF Ledgers
<1>1. CASE k = "exempt"
  <2> DEFINE sys == NotBelow(r.system - 1)
  <2>1. sys \in Nat
    BY DEF Ledgers, NotBelow
  <2>2. c = [r EXCEPT !.system = sys, !.refunds = refunds]
    BY <1>1 DEF Returned, Ledgers
  <2> HIDE DEF c, sys, refunds
  <2>3. /\ c \in Ledgers /\ c.refunds = refunds /\ c.system = sys
        /\ c.consumed = r.consumed /\ c.new = r.new /\ c.group = r.group
        /\ c.key = r.key /\ c.hour = r.hour /\ c.eligible = r.eligible
    BY <1>0, <2>1, <2>2 DEF Ledgers
  <2> QED BY <1>1, <2>3 DEF c, sys, refunds
<1>2. CASE k # "exempt"
  <2> DEFINE new == NotBelow(r.new - One(k = "new"))
             group == NotBelow(r.group - One(k = "group"))
             con == NotBelow(r.consumed - 1)
             el == IF r.eligible - gap < now THEN now ELSE r.eligible - gap
  <2>1. new \in Nat /\ group \in Nat /\ con \in Nat /\ el \in Int /\ el >= now
    BY DEF NotBelow, One, Ledgers
  <2>2. c = [r EXCEPT !.consumed = con, !.new = new, !.group = group, !.refunds = refunds,
                      !.eligible = el]
    BY <1>2 DEF Returned, Ledgers
  <2> HIDE DEF c, new, group, con, el, refunds
  <2>3. /\ c \in Ledgers /\ c.refunds = refunds /\ c.system = r.system
        /\ c.consumed = con /\ c.new = new /\ c.group = group
        /\ c.key = r.key /\ c.hour = r.hour /\ c.eligible = el
    <3> DEFINE r1 == [r EXCEPT !.consumed = con]
               r2 == [r1 EXCEPT !.new = new]
               r3 == [r2 EXCEPT !.group = group]
               r4 == [r3 EXCEPT !.refunds = refunds]
               r5 == [r4 EXCEPT !.eligible = el]
    <3>1. c = r5
      BY <2>2
    <3>2. r1 \in Ledgers /\ r1.consumed = con /\ r1.key = r.key /\ r1.hour = r.hour
          /\ r1.system = r.system
      BY <2>1 DEF Ledgers
    <3> HIDE DEF r1
    <3>3. r2 \in Ledgers /\ r2.consumed = con /\ r2.key = r.key /\ r2.hour = r.hour
          /\ r2.system = r.system /\ r2.new = new
      BY <2>1, <3>2 DEF Ledgers
    <3> HIDE DEF r2
    <3>4. r3 \in Ledgers /\ r3.consumed = con /\ r3.key = r.key /\ r3.hour = r.hour
          /\ r3.system = r.system /\ r3.new = new /\ r3.group = group
      BY <2>1, <3>3 DEF Ledgers
    <3> HIDE DEF r3
    <3>5. r4 \in Ledgers /\ r4.consumed = con /\ r4.key = r.key /\ r4.hour = r.hour
          /\ r4.system = r.system /\ r4.new = new /\ r4.group = group /\ r4.refunds = refunds
      BY <1>0, <3>4 DEF Ledgers
    <3> HIDE DEF r4
    <3>6. r5 \in Ledgers /\ r5.consumed = con /\ r5.key = r.key /\ r5.hour = r.hour
          /\ r5.system = r.system /\ r5.new = new /\ r5.group = group /\ r5.refunds = refunds
          /\ r5.eligible = el
      BY <2>1, <3>5 DEF Ledgers
    <3> HIDE DEF r5
    <3> QED BY <3>1, <3>6
  <2> QED BY <1>2, <2>1, <2>3 DEF c, new, group, con, el, refunds
<1> QED BY <1>1, <1>2

\* The unit that a reservation grants is a new one, the next.
LEMMA ReserveUnit ==
    ASSUME TypeInv, NEW l \in Loops, Reserve(l)
    PROVE  LET n == Cardinality(Granted) + 1 IN
           /\ n \in 1 .. MaxUnits /\ n \notin Granted /\ (\A m \in Granted : m < n)
           /\ Granted' = Granted \cup {n} /\ Granted' = 1 .. n /\ Cardinality(Granted') = n
           /\ \A m \in Granted : unit'[m] = unit[m]
           /\ unit'[n] = [job |-> loop[l].job, date |-> Date(l), hour |-> HourOf(loop[l].began),
                          refunded |-> FALSE]
<1> DEFINE N == Cardinality(Granted)
           n == N + 1
<1>1. IsFiniteSet(Granted) /\ N \in Nat
  BY GrantedFinite DEF TypeInv
<1>2. Granted = 1 .. N
  BY DEF TypeInv, AtWork
<1>3. N < MaxUnits
  <2>1. l \in Transacting
    BY DEF Reserve, Transacting, Transacts
  <2>2. IsFiniteSet(Transacting) /\ Cardinality(Transacting) \in Nat
    BY LoopsFinite DEF Transacting
  <2>3. Cardinality(Transacting) # 0
    BY <2>1, <2>2, FS_EmptySet
  <2>4. N + Cardinality(Transacting) <= MaxUnits
    BY DEF TypeInv, AtWork
  <2> HIDE DEF N
  <2> QED BY <1>1, <2>2, <2>3, <2>4, Bounds
<1>4. unit' = [m \in Granted \cup {n} |->
                 IF m \in Granted THEN unit[m]
                 ELSE [job |-> loop[l].job, date |-> Date(l), hour |-> HourOf(loop[l].began),
                       refunded |-> FALSE]]
  BY DEF Reserve
<1>5. Granted' = Granted \cup {n}
  BY <1>4 DEF Granted
<1> HIDE DEF N
<1>6. n \notin Granted /\ n \in 1 .. MaxUnits /\ \A m \in Granted : m < n
  BY <1>1, <1>2, <1>3, Bounds
<1>7. Granted' = 1 .. n
  BY <1>1, <1>2, <1>5
<1>8. Cardinality(Granted') = n
  BY <1>1, <1>7, FS_Interval
<1> QED BY <1>4, <1>5, <1>6, <1>7, <1>8 DEF N

LEMMA ReserveType ==
    ASSUME TypeInv, NEW l \in Loops, Reserve(l)
    PROVE  TypeInv'
<1> USE DEF TypeInv
<1> DEFINE N == Cardinality(Granted)
           n == N + 1
           j == loop[l].job
<1>1. Transacts(l) /\ l \in Transacting /\ now' = now /\ loop[l] \in LoopStates
  BY DEF Reserve, Transacts, Transacting, TypeOK
<1>2. /\ j \in Jobs /\ loop[l].began \in 0 .. now /\ now \in 0 .. MaxTime
      /\ Inst(l) \in Instances /\ Date(l) \in Dates /\ Ensured(l) \in Ledgers
  BY <1>1, EnsuredType
<1>3. job[j].status = "queued" /\ \A k \in Transacting \ {l} : loop[k].job # j
  BY <1>1 DEF AtWork
<1>4. ledger' \in Ledger
  <2>1. loop[l].began \in Nat /\ loop[l].gap \in Nat
    BY <1>1, <1>2 DEF LoopStates
  <2> DEFINE r == Consumed(Ensured(l), Kind[j], loop[l].began, loop[l].gap)
  <2>2. r \in Ledgers
    BY <1>2, <2>1, ConsumedRow
  <2>3. ledger' = [ledger EXCEPT ![Inst(l)][Date(l)] = r]
    BY DEF Reserve
  <2> HIDE DEF r
  <2> QED BY <1>2, <2>2, <2>3 DEF TypeOK, Ledger
<1>5. usage' \in [Dates -> Nat]
  BY <1>2 DEF Reserve, Bump, TypeOK
<1>6. /\ job' \in [Jobs -> JobRows] /\ Leased(job') /\ \A i \in Jobs \ {j} : job'[i] = job[i]
  <2> DEFINE r == [job[j] EXCEPT !.status = "processing", !.lease = l]
  <2>1. job' = [job EXCEPT ![j] = r]
    BY <1>2 DEF Reserve, TypeOK
  <2>2. r \in JobRows /\ r.lease = l /\ r.status = "processing"
    <3>1. job[j] \in JobRows
      BY <1>2 DEF TypeOK
    <3> HIDE DEF TypeInv, j
    <3> QED BY <3>1 DEF JobRows
  <2>3. l # NoLoop
    BY PacingAssumption
  <2> HIDE DEF r
  <2> QED BY <1>2, <2>1, <2>2, <2>3, JobSet
<1>7. /\ n \in 1 .. MaxUnits
      /\ Granted' = Granted \cup {n} /\ Granted' = 1 .. n /\ Cardinality(Granted') = n
      /\ \A m \in Granted : unit'[m] = unit[m]
      /\ unit'[n] = [job |-> j, date |-> Date(l), hour |-> HourOf(loop[l].began),
                     refunded |-> FALSE]
  BY ReserveUnit
<1>8. HourOf(loop[l].began) \in Nat
  BY <1>2, Dating
<1>9. Granted' \subseteq 1 .. MaxUnits /\ \A m \in Granted' : unit'[m] \in Units
  <2>1. unit'[n] \in Units
    BY <1>2, <1>7, <1>8 DEF Units
  <2> HIDE DEF n
  <2> QED BY <1>7, <2>1 DEF TypeOK
<1>10. PICK s \in LoopStates : s.pc = "granted" /\ s.job = j /\ s.began = loop[l].began /\ Goes(l, s)
  <2> DEFINE s == [loop[l] EXCEPT !.pc = "granted", !.seen = 0, !.unit = n]
  <2>1. n \in 0 .. MaxUnits
    BY <1>7, PacingAssumption
  <2>2. Goes(l, s)
    BY DEF Reserve
  <2>3. s \in LoopStates /\ s.pc = "granted" /\ s.job = j /\ s.began = loop[l].began
    <3> HIDE DEF n
    <3> QED BY <1>1, <2>1 DEF LoopStates
  <2> HIDE DEF s
  <2> QED BY <2>2, <2>3
<1>11. loop' \in [Loops -> LoopStates] /\ loop'[l] = s /\ \A k \in Loops \ {l} : loop'[k] = loop[k]
  BY <1>10 DEF Goes, TypeOK
<1>12. Transacting' = Transacting \ {l}
  BY <1>10, <1>11 DEF Transacting, Transacts
<1>13. Cardinality(Transacting') = Cardinality(Transacting) - 1 /\ Cardinality(Transacting) \in Nat
  <2>1. IsFiniteSet(Transacting) /\ Cardinality(Transacting) \in Nat
    BY LoopsFinite DEF Transacting
  <2>2. Cardinality(Transacting \ {l}) = Cardinality(Transacting) - 1
    BY <1>1, <2>1, OneLess
  <2> QED BY <1>12, <2>1, <2>2
<1>14. TypeOK'
  BY <1>1, <1>4, <1>5, <1>6, <1>9, <1>11 DEF TypeOK, Ledger, Leased
<1>15. Cardinality(Granted') + Cardinality(Transacting') <= MaxUnits
  <2>1. N + Cardinality(Transacting) <= MaxUnits /\ N \in Nat
    BY GrantedFinite DEF AtWork
  <2> HIDE DEF N
  <2> QED BY <1>7, <1>13, <2>1, PacingAssumption
<1>16. \A k \in Loops : loop'[k].pc # "idle" => loop'[k].job \in Jobs /\ loop'[k].began <= now
  BY <1>2, <1>10, <1>11 DEF AtWork
<1>17. \A k \in Transacting' :
         /\ job'[loop'[k].job].status = "queued"
         /\ \A m \in Transacting' : loop'[m].job = loop'[k].job => m = k
  <2> TAKE k \in Transacting'
  <2>1. k \in Transacting /\ k # l /\ loop'[k] = loop[k] /\ loop[k].job \in Jobs \ {j}
    BY <1>3, <1>11, <1>12 DEF Transacting, Transacts, AtWork
  <2>2. \A m \in Transacting' : m \in Transacting /\ loop'[m] = loop[m]
    BY <1>11, <1>12 DEF Transacting
  <2> HIDE DEF j
  <2> QED BY <1>6, <2>1, <2>2 DEF AtWork
<1>18. AtWork'
  <2>1. Granted' = 1 .. Cardinality(Granted')
    BY <1>7
  <2> QED BY <1>1, <1>15, <1>16, <1>17, <2>1 DEF AtWork
<1> QED BY <1>14, <1>18

\* A refund marks the unit, or finds that it has been.
LEMMA RefundUnit ==
    ASSUME TypeInv, NEW l \in Loops, Refund(l)
    PROVE  /\ Granted' = Granted
           /\ \A n \in Granted :
                unit'[n] = unit[n]
                \/ (n = loop[l].unit /\ unit'[n] = [unit[n] EXCEPT !.refunded = TRUE])
  BY DEF Refund, Granted

LEMMA RefundType ==
    ASSUME TypeInv, NEW l \in Loops, Refund(l)
    PROVE  TypeInv'
<1> USE DEF TypeInv
<1> DEFINE j == loop[l].job
<1>1. /\ loop[l].pc = "refunding" /\ Goes(l, Idle) /\ UNCHANGED <<now, usage>>
      /\ loop[l] \in LoopStates /\ now \in Nat
  BY PacingAssumption DEF Refund, TypeOK
<1>2. j \in Jobs /\ loop[l].began \in Nat /\ loop[l].began <= now /\ now <= MaxTime
  <2>1. j \in Jobs /\ loop[l].began <= now
    BY <1>1 DEF AtWork
  <2>2. loop[l].began \in Nat
    BY <1>1 DEF LoopStates
  <2>3. now <= MaxTime
    BY PacingAssumption DEF TypeOK
  <2> QED BY <2>1, <2>2, <2>3
<1>3. Inst(l) \in Instances /\ Date(l) \in Dates
  BY <1>1, <1>2, Dating, PacingAssumption DEF Inst, Date
<1>4. ledger' \in Ledger
  <2> DEFINE r == Returned(ledger[Inst(l)][Date(l)], Kind[j], loop[l].gap)
  <2>1. r \in Ledgers
    <3>1. ledger[Inst(l)][Date(l)] \in Ledgers /\ loop[l].gap \in Nat
      BY <1>1, <1>3 DEF TypeOK, LoopStates
    <3> QED BY <1>1, <3>1, ReturnedRow
  <2>2. ledger' = ledger \/ ledger' = [ledger EXCEPT ![Inst(l)][Date(l)] = r]
    BY DEF Refund, RefundDate
  <2> HIDE DEF r
  <2> QED BY <1>3, <2>1, <2>2 DEF TypeOK, Ledger
<1>5. /\ job' \in [Jobs -> JobRows] /\ Leased(job')
      /\ \A i \in Jobs : job'[i].status = job[i].status
  <2> DEFINE r == [job[j] EXCEPT !.refunded = TRUE]
  <2>1. job[j] \in JobRows /\ TypeOK /\ job' = [job EXCEPT ![j] = r]
    BY <1>2 DEF Refund, TypeOK
  <2>2. r \in JobRows /\ r.status = job[j].status /\ r.lease = job[j].lease
    BY <2>1 DEF JobRows
  <2>3. job[j].lease # NoLoop <=> job[j].status = "processing"
    BY <1>2 DEF TypeOK
  <2> HIDE DEF TypeInv, j, r
  <2>4. r.lease # NoLoop <=> r.status = "processing"
    BY <2>2, <2>3
  <2> QED BY <1>2, <2>1, <2>2, <2>4, JobSet
<1>6. loop' \in [Loops -> LoopStates] /\ loop'[l] = Idle /\ \A k \in Loops \ {l} : loop'[k] = loop[k]
  BY <1>1, IdleState DEF Goes, TypeOK
<1>7. Granted' = Granted /\ \A n \in Granted : unit'[n] \in Units
  <2>1. \A n \in Granted : [unit[n] EXCEPT !.refunded = TRUE] \in Units /\ unit[n] \in Units
    BY DEF TypeOK, Units
  <2> QED BY <2>1, RefundUnit
<1>8. TypeOK'
  BY <1>1, <1>4, <1>5, <1>6, <1>7 DEF TypeOK, Ledger, Leased
<1>9. Transacting' = Transacting
  BY <1>1, <1>6, IdleState DEF Transacting, Transacts
<1>10. \A k \in Transacting : loop'[k] = loop[k] /\ loop[k].job \in Jobs
  BY <1>1, <1>6 DEF Transacting, Transacts, AtWork
<1>11. AtWork'
  <2>1. \A k \in Loops : loop'[k].pc # "idle" => loop'[k].job \in Jobs /\ loop'[k].began <= now
    BY <1>6, IdleState DEF AtWork
  <2>2. \A k \in Transacting' : job'[loop'[k].job].status = "queued"
    BY <1>5, <1>9, <1>10 DEF AtWork
  <2>3. \A k, m \in Transacting' : loop'[m].job = loop'[k].job => m = k
    BY <1>9, <1>10 DEF AtWork
  <2> QED BY <1>1, <1>7, <1>9, <2>1, <2>2, <2>3 DEF AtWork
<1> QED BY <1>8, <1>11

LEMMA WorldTypes ==
    ASSUME TypeInv, Tick \/ (\E j \in Jobs : Reap(j))
    PROVE  TypeInv'
<1> USE DEF TypeInv
<1>1. UNCHANGED <<ledger, usage, loop, unit>> /\ Granted' = Granted /\ Transacting' = Transacting
  BY DEF Tick, Reap, Granted, Transacting, Transacts
<1>2. now' \in 0 .. MaxTime /\ now <= now'
  BY PacingAssumption DEF Tick, Reap, TypeOK
<1>3. /\ job' \in [Jobs -> JobRows] /\ Leased(job')
      /\ \A j \in Jobs : job[j].status = "queued" => job'[j].status = "queued"
  <2>1. CASE Tick
    <3> DEFINE nx(j) == IF job[j].next <= now' THEN 0 ELSE job[j].next
    <3>1. job' = [j \in Jobs |-> [job[j] EXCEPT !.next = nx(j)]]
      BY <2>1 DEF Tick, TypeOK
    <3>2. \A j \in Jobs : nx(j) \in Nat
      BY DEF TypeOK, JobRows
    <3> HIDE DEF nx
    <3>3. \A j \in Jobs : /\ job'[j] \in JobRows /\ job'[j].status = job[j].status
                          /\ job'[j].lease = job[j].lease
      BY <3>1, <3>2 DEF TypeOK, JobRows
    <3> QED BY <3>1, <3>3 DEF TypeOK, Leased
  <2>2. ASSUME NEW j \in Jobs, Reap(j)
        PROVE  /\ job' \in [Jobs -> JobRows] /\ Leased(job')
               /\ \A i \in Jobs : job[i].status = "queued" => job'[i].status = "queued"
    <3>1. job' = Requeued(j) /\ job[j].status = "processing"
      BY <2>2 DEF Reap
    <3> QED BY <3>1, RequeuedSet
  <2> QED BY <2>1, <2>2
<1>4. TypeOK'
  BY <1>1, <1>2, <1>3 DEF TypeOK, Leased
<1>5. \A k \in Loops : loop[k].pc # "idle" => loop[k].job \in Jobs /\ loop[k].began <= now'
  <2> SUFFICES ASSUME NEW k \in Loops, loop[k].pc # "idle"
               PROVE  loop[k].job \in Jobs /\ loop[k].began <= now'
    OBVIOUS
  <2>1. loop[k].job \in Jobs /\ loop[k].began <= now /\ loop[k].began \in Nat /\ now \in Nat
        /\ now' \in Nat
    <3> HIDE DEF TypeInv
    <3> QED BY <1>2, WorkType
  <2> QED BY <1>2, <2>1
<1>6. \A k \in Transacting : job'[loop[k].job].status = "queued"
  BY <1>3 DEF AtWork, Transacting, Transacts
<1>7. AtWork'
  BY <1>1, <1>5, <1>6 DEF AtWork
<1> QED BY <1>4, <1>7

LEMMA TypesStart ==
    ASSUME Init
    PROVE  TypeInv
<1>1. 0 \in 0 .. MaxTime /\ MaxUnits \in Nat
  BY PacingAssumption
<1>2. NoRow \in Ledgers
  <2>1. Day \in Nat \ {0} /\ Hour \in Nat \ {0}
    BY PacingAssumption
  <2>2. (-1) % Day \in Nat
    BY <2>1
  <2>3. ((-1) % Day) \div Hour \in Nat
    BY <2>1, <2>2
  <2> QED BY <2>3 DEF NoRow, Fresh, HourOf, Ledgers
<1>3. ledger \in Ledger /\ usage \in [Dates -> Nat]
  BY <1>2 DEF Init, Ledger
<1>4. job \in [Jobs -> JobRows] /\ Leased(job)
  BY DEF Init, JobRows, Leased
<1>5. loop \in [Loops -> LoopStates] /\ \A l \in Loops : loop[l].pc = "idle"
  BY IdleState DEF Init
<1>6. Granted = {} /\ Transacting = {}
  BY <1>5 DEF Init, Granted, Transacting, Transacts
<1>7. Cardinality({}) = 0
  BY FS_EmptySet
<1>8. TypeOK
  BY <1>1, <1>3, <1>4, <1>5, <1>6 DEF TypeOK, Ledger, Leased, Init
<1>9. Granted = 1 .. Cardinality(Granted)
  BY <1>6, <1>7
<1>10. Cardinality(Granted) + Cardinality(Transacting) <= MaxUnits
  BY <1>1, <1>6, <1>7
<1>11. AtWork
  BY <1>5, <1>6, <1>9, <1>10 DEF AtWork
<1> QED BY <1>8, <1>11 DEF TypeInv

LEMMA TypesStep ==
    ASSUME TypeInv, [Next]_vars
    PROVE  TypeInv'
<1>1. CASE UNCHANGED vars
  BY <1>1 DEF vars, TypeInv, TypeOK, AtWork, Granted, Transacting, Transacts
<1>2. ASSUME NEW l \in Loops, Works(l)
      PROVE  TypeInv'
  <2>1. CASE \E j \in Jobs : Claim(l, j)
    BY <2>1, ClaimType
  <2>2. CASE Send(l)
    BY <2>2, QuietTypes, AfterTypes
  <2> QED BY <1>2, <2>1, <2>2, GuardDisposesType, QuietTypes, DeferTypes, AfterTypes,
             ReserveType, RefundType DEF Works
<1> QED BY <1>1, <1>2, WorldTypes DEF Next

-----------------------------------------------------------------------------
(* Refunds. *)

\* A step that neither grants nor gives back: no loop comes to hold a job's lease, and
\* a loop that gets to refund holds it and cancels the job.
LEMMA NoGrant ==
    ASSUME TypeInv, RefundInv, unit' = unit,
           \A k \in Loops : loop'[k].pc = "granted" => loop'[k] = loop[k],
           \A k \in Loops : loop'[k].pc = "refunding" =>
               \/ loop'[k] = loop[k]
               \/ /\ loop[k].pc = "granted" /\ Holds(k) /\ loop'[k].unit = loop[k].unit
                  /\ loop'[k].job = loop[k].job /\ loop'[k].began = loop[k].began
                  /\ job'[loop[k].job].status = "cancelled",
           \A j \in Jobs : job[j].status = "cancelled" => job'[j].status = "cancelled",
           \A j \in Jobs : job[j].refunded => job'[j].refunded,
           \A j \in Jobs : job'[j].status = "processing" =>
               job[j].status = "processing" /\ job'[j].lease = job[j].lease
    PROVE  RefundInv'
<1>1. Granted' = Granted
  BY DEF Granted
<1>2. \A n \in Granted : Last(n) => Last(n)'
  BY <1>1 DEF Last
<1>3. \A n \in Granted : unit[n].job \in Jobs
  BY DEF TypeInv, TypeOK, Units
<1>4. \A k \in Loops : loop[k].pc # "idle" => loop[k].job \in Jobs
  BY DEF TypeInv, AtWork
<1>5. UnitsKnown'
  BY <1>1 DEF RefundInv, UnitsKnown, Date
<1>6. RefundIsLast'
  BY <1>1, <1>3 DEF RefundInv, RefundIsLast
<1>7. LastUnits'
  <2>1. ASSUME NEW k \in Loops, loop'[k].pc = "granted", Holds(k)'
        PROVE  Last(loop[k].unit)'
    <3>1. loop'[k] = loop[k] /\ loop[k].pc = "granted" /\ loop[k].job \in Jobs
      BY <1>4, <2>1
    <3>2. Holds(k)
      BY <2>1, <3>1 DEF Holds
    <3>3. Last(loop[k].unit) /\ loop[k].unit \in Granted
      BY <3>1, <3>2 DEF RefundInv, LastUnits, UnitsKnown
    <3> QED BY <1>2, <3>1, <3>3
  <2>2. ASSUME NEW k \in Loops, loop'[k].pc = "refunding"
        PROVE  job'[loop'[k].job].status = "cancelled" /\ Last(loop[k].unit)'
    <3>1. CASE loop'[k] = loop[k]
      <4>1. job[loop[k].job].status = "cancelled" /\ Last(loop[k].unit) /\ loop[k].unit \in Granted
            /\ loop[k].job \in Jobs
        BY <1>4, <2>2, <3>1 DEF RefundInv, LastUnits, UnitsKnown
      <4> QED BY <1>2, <3>1, <4>1
    <3>2. CASE loop'[k] # loop[k]
      <4>1. Last(loop[k].unit) /\ loop[k].unit \in Granted
        BY <2>2, <3>2 DEF RefundInv, LastUnits, UnitsKnown
      <4> QED BY <1>2, <2>2, <3>2, <4>1
    <3> QED BY <3>1, <3>2
  <2>3. \A n \in Granted' : unit'[n].refunded => job'[unit'[n].job].refunded
    BY <1>1, <1>3 DEF RefundInv, LastUnits
  <2> QED BY <2>1, <2>2, <2>3 DEF LastUnits
<1> QED BY <1>5, <1>6, <1>7 DEF RefundInv

LEMMA ReserveRefundInv ==
    ASSUME TypeInv, RefundInv, NEW l \in Loops, Reserve(l)
    PROVE  RefundInv'
<1> DEFINE n == Cardinality(Granted) + 1
           j == loop[l].job
<1>1. /\ n \notin Granted /\ Granted' = Granted \cup {n} /\ n \in Nat
      /\ \A m \in Granted : m < n
      /\ \A m \in Granted : unit'[m] = unit[m]
      /\ unit'[n] = [job |-> j, date |-> Date(l), hour |-> HourOf(loop[l].began),
                     refunded |-> FALSE]
  BY ReserveUnit
<1>2. Granted \subseteq Nat
  BY DEF TypeInv, TypeOK
<1>3. Transacts(l) /\ l \in Transacting
  BY DEF Reserve, Transacts, Transacting
<1>4. j \in Jobs /\ job[j].status = "queued"
  BY <1>3, EnsuredType DEF TypeInv, AtWork
<1>5. /\ loop'[l].pc = "granted" /\ loop'[l].job = j /\ loop'[l].unit = n
      /\ loop'[l].began = loop[l].began
      /\ \A k \in Loops \ {l} : loop'[k] = loop[k]
  <2> DEFINE s == [loop[l] EXCEPT !.pc = "granted", !.seen = 0, !.unit = n]
  <2>1. loop' = [loop EXCEPT ![l] = s]
    BY DEF Reserve, Goes
  <2>2. s.pc = "granted" /\ s.job = j /\ s.unit = n /\ s.began = loop[l].began
    <3>1. loop[l] \in LoopStates
      BY DEF TypeInv, TypeOK
    <3> HIDE DEF n
    <3> QED BY <3>1 DEF LoopStates
  <2> HIDE DEF s, n
  <2> QED BY <2>1, <2>2 DEF TypeInv, TypeOK
<1>6. job'[j].lease = l /\ \A i \in Jobs \ {j} : job'[i] = job[i]
  BY <1>4 DEF Reserve, TypeInv, TypeOK, JobRows
<1>6a. \A i \in Jobs : job'[i].refunded = job[i].refunded
  BY <1>4 DEF Reserve, TypeInv, TypeOK, JobRows
<1>7. \A m \in Granted : unit[m].job \in Jobs
  BY DEF TypeInv, TypeOK, Units
<1>8. \A k \in Loops : loop[k].pc # "idle" => loop[k].job \in Jobs
  BY DEF TypeInv, AtWork
<1> HIDE DEF n, j
<1>9. \A m \in Granted : unit[m].job # j /\ Last(m) => Last(m)'
  BY <1>1 DEF Last
<1>10. \A m \in Granted' : m <= n
  BY <1>1, <1>2
<1>11. UnitsKnown'
  <2>1. ASSUME NEW k \in Loops \ {l}, loop'[k].pc \in {"granted", "refunding"}
        PROVE  /\ loop'[k].unit \in Granted'
               /\ unit'[loop'[k].unit].job = loop'[k].job
               /\ unit'[loop'[k].unit].date = Date(k)'
    BY <1>1, <1>5, <2>1 DEF RefundInv, UnitsKnown, Date
  <2>2. /\ loop'[l].unit \in Granted'
        /\ unit'[loop'[l].unit].job = loop'[l].job
        /\ unit'[loop'[l].unit].date = Date(l)'
    BY <1>1, <1>5 DEF Date
  <2> QED BY <2>1, <2>2 DEF UnitsKnown
<1>12. RefundIsLast'
  <2>1. ASSUME NEW m \in Granted', unit'[m].refunded
        PROVE  job'[unit'[m].job].status = "cancelled" /\ Last(m)'
    <3>1. m \in Granted /\ unit'[m] = unit[m] /\ unit[m].refunded
      BY <1>1, <2>1
    <3>2. job[unit[m].job].status = "cancelled" /\ Last(m) /\ unit[m].job \in Jobs
      BY <1>7, <3>1 DEF RefundInv, RefundIsLast, Last
    <3>3. unit[m].job # j
      BY <1>4, <3>2
    <3> QED BY <1>6, <1>9, <3>1, <3>2, <3>3
  <2> QED BY <2>1 DEF RefundIsLast, Last
<1>13. LastUnits'
  <2>1. ASSUME NEW k \in Loops, loop'[k].pc = "granted", Holds(k)'
        PROVE  Last(loop[k].unit)'
    <3>1. CASE k = l
      BY <1>5, <1>10, <3>1 DEF Last
    <3>2. CASE k # l
      <4>1. loop'[k] = loop[k] /\ loop[k].pc = "granted" /\ loop[k].job \in Jobs
        BY <1>5, <1>8, <2>1, <3>2
      <4>2. loop[k].job # j
        BY <1>6, <2>1, <3>2, <4>1 DEF Holds
      <4>3. Holds(k)
        BY <1>6, <2>1, <4>1, <4>2 DEF Holds
      <4>4. Last(loop[k].unit) /\ loop[k].unit \in Granted /\ unit[loop[k].unit].job = loop[k].job
        BY <4>1, <4>3 DEF RefundInv, LastUnits, UnitsKnown
      <4> QED BY <1>9, <4>1, <4>2, <4>4
    <3> QED BY <3>1, <3>2
  <2>2. ASSUME NEW k \in Loops, loop'[k].pc = "refunding"
        PROVE  job'[loop'[k].job].status = "cancelled" /\ Last(loop[k].unit)'
    <3>1. k # l /\ loop'[k] = loop[k] /\ loop[k].pc = "refunding" /\ loop[k].job \in Jobs
      BY <1>5, <1>8, <2>2
    <3>2. job[loop[k].job].status = "cancelled" /\ Last(loop[k].unit) /\ loop[k].unit \in Granted
          /\ unit[loop[k].unit].job = loop[k].job
      BY <3>1 DEF RefundInv, LastUnits, UnitsKnown
    <3>3. loop[k].job # j
      BY <1>4, <3>2
    <3> QED BY <1>6, <1>9, <3>1, <3>2, <3>3
  <2>3. \A m \in Granted' : unit'[m].refunded => job'[unit'[m].job].refunded
    BY <1>1, <1>6a, <1>7 DEF RefundInv, LastUnits
  <2> QED BY <2>1, <2>2, <2>3 DEF LastUnits
<1> QED BY <1>11, <1>12, <1>13 DEF RefundInv

LEMMA RefundRefundInv ==
    ASSUME TypeInv, RefundInv, NEW l \in Loops, Refund(l)
    PROVE  RefundInv'
<1> DEFINE j == loop[l].job
           u == loop[l].unit
<1>1. /\ loop[l].pc = "refunding" /\ loop' = [loop EXCEPT ![l] = Idle]
      /\ Granted' = Granted
      /\ \A n \in Granted :
           unit'[n] = unit[n] \/ (n = u /\ unit'[n] = [unit[n] EXCEPT !.refunded = TRUE])
  BY RefundUnit DEF Refund, Goes
<1>2. j \in Jobs /\ u \in Granted /\ unit[u].job = j /\ job[j].status = "cancelled" /\ Last(u)
  BY <1>1 DEF RefundInv, UnitsKnown, LastUnits, TypeInv, AtWork
<1>3. /\ \A i \in Jobs : job'[i].status = job[i].status /\ job'[i].lease = job[i].lease
      /\ \A i \in Jobs : job[i].refunded => job'[i].refunded
      /\ job'[j].refunded
  BY <1>2 DEF Refund, TypeInv, TypeOK, JobRows
<1>4. \A n \in Granted : unit[n] \in Units /\ unit[n].job \in Jobs
  BY DEF TypeInv, TypeOK, Units
<1> HIDE DEF j, u
<1>5. \A n \in Granted : /\ unit'[n].job = unit[n].job /\ unit'[n].date = unit[n].date
                         /\ unit'[n].refunded => n = u \/ unit[n].refunded
  <2> TAKE n \in Granted
  <2>1. CASE unit'[n] = [unit[n] EXCEPT !.refunded = TRUE] /\ n = u
    <3>1. unit'[n].job = unit[n].job /\ unit'[n].date = unit[n].date
      BY <1>4, <2>1 DEF Units
    <3> QED BY <2>1, <3>1
  <2> QED BY <1>1, <2>1
<1>6. \A n \in Granted : Last(n) => Last(n)'
  BY <1>1, <1>5 DEF Last
<1>7. \A k \in Loops : loop'[k].pc \in {"granted", "refunding"} =>
        loop'[k] = loop[k] /\ loop[k].job \in Jobs
  BY <1>1, IdleState DEF TypeInv, TypeOK, AtWork
<1>8. UnitsKnown'
  BY <1>1, <1>5, <1>7 DEF RefundInv, UnitsKnown, Date
<1>9. RefundIsLast'
  <2>1. ASSUME NEW m \in Granted, unit'[m].refunded
        PROVE  job'[unit'[m].job].status = "cancelled" /\ Last(m)'
    <3>1. job[unit[m].job].status = "cancelled" /\ Last(m)
      BY <1>2, <1>5, <2>1 DEF RefundInv, RefundIsLast, Last
    <3> QED BY <1>3, <1>4, <1>5, <1>6, <3>1
  <2> QED BY <1>1, <2>1 DEF RefundIsLast, Last
<1>10. LastUnits'
  <2>1. ASSUME NEW k \in Loops, loop'[k].pc = "granted", Holds(k)'
        PROVE  Last(loop[k].unit)'
    <3>1. loop'[k] = loop[k] /\ loop[k].job \in Jobs /\ loop[k].pc = "granted"
      BY <1>7, <2>1
    <3>2. Holds(k)
      BY <1>3, <2>1, <3>1 DEF Holds
    <3> QED BY <1>6, <3>1, <3>2 DEF RefundInv, LastUnits, UnitsKnown
  <2>2. ASSUME NEW k \in Loops, loop'[k].pc = "refunding"
        PROVE  job'[loop'[k].job].status = "cancelled" /\ Last(loop[k].unit)'
    <3>1. loop'[k] = loop[k] /\ loop[k].job \in Jobs /\ loop[k].pc = "refunding"
      BY <1>7, <2>2
    <3> QED BY <1>3, <1>6, <3>1 DEF RefundInv, LastUnits, UnitsKnown
  <2>3. \A m \in Granted : unit'[m].refunded => job'[unit'[m].job].refunded
    BY <1>2, <1>3, <1>4, <1>5 DEF RefundInv, LastUnits
  <2> QED BY <1>1, <2>1, <2>2, <2>3 DEF LastUnits
<1> QED BY <1>8, <1>9, <1>10 DEF RefundInv

\* What a step may do to the jobs, for the refunds to stay sound.
Onward ==
    \A j \in Jobs :
        /\ job[j].status = "cancelled" => job'[j].status = "cancelled"
        /\ job[j].refunded => job'[j].refunded
        /\ job'[j].status = "processing" =>
             job[j].status = "processing" /\ job'[j].lease = job[j].lease

LEMMA RequeuedOnward ==
    ASSUME TypeInv, NEW i \in Jobs, job[i].status = "processing", job' = Requeued(i)
    PROVE  Onward
<1>1. /\ job'[i].status = "queued" /\ job'[i].refunded = job[i].refunded
      /\ \A k \in Jobs \ {i} : job'[k] = job[k]
  BY DEF TypeInv, TypeOK, Requeued, JobRows
<1> QED BY <1>1 DEF Onward

LEMMA WorldOnward ==
    ASSUME TypeInv, Tick \/ (\E j \in Jobs : Reap(j))
    PROVE  Onward
<1> USE DEF TypeInv
<1>1. CASE Tick
  <2> DEFINE nx(i) == IF job[i].next <= now' THEN 0 ELSE job[i].next
  <2>1. job' = [i \in Jobs |-> [job[i] EXCEPT !.next = nx(i)]]
    BY <1>1 DEF Tick, TypeOK
  <2>2. \A i \in Jobs : nx(i) \in Nat
    BY DEF TypeOK, JobRows
  <2> HIDE DEF nx
  <2>3. \A i \in Jobs : /\ job'[i].status = job[i].status /\ job'[i].lease = job[i].lease
                        /\ job'[i].refunded = job[i].refunded
    BY <2>1, <2>2 DEF TypeOK, JobRows
  <2> QED BY <2>3 DEF Onward
<1> QED BY <1>1, RequeuedOnward DEF Reap

LEMMA OnwardOf ==
    ASSUME TypeInv, NEW l \in Loops,
           \/ \E j \in Jobs : Claim(l, j)
           \/ GuardDisposes(l) \/ GuardDefers(l) \/ Snapshot(l) \/ Defer(l) \/ MediaDefers(l)
           \/ PrecheckCancels(l) \/ Send(l) \/ Dies(l)
    PROVE  Onward
<1> USE DEF TypeInv
<1> DEFINE j == loop[l].job
<1>1. CASE job' = job
  BY <1>1 DEF Onward
<1>2. CASE (\E i \in Jobs : Claim(l, i)) \/ Snapshot(l) \/ Dies(l)
  BY <1>1, <1>2 DEF Claim, Snapshot, Dies
<1>3. CASE GuardDisposes(l)
  <2>1. j \in Jobs /\ job' = [job EXCEPT ![j].status = "cancelled"]
    BY <1>3 DEF GuardDisposes, AtWork
  <2>2. /\ job'[j].status = "cancelled" /\ job'[j].refunded = job[j].refunded
        /\ \A k \in Jobs \ {j} : job'[k] = job[k]
    BY <2>1 DEF TypeOK, JobRows
  <2> HIDE DEF j
  <2> QED BY <2>1, <2>2 DEF Onward
<1>4. CASE GuardDefers(l) \/ Defer(l)
  <2>1. j \in Jobs
    BY <1>4 DEF GuardDefers, Defer, AtWork
  <2>2. PICK t : job' = [job EXCEPT ![j].next = t]
    BY <1>4 DEF GuardDefers, Defer
  <2>3. /\ job'[j].status = job[j].status /\ job'[j].refunded = job[j].refunded
        /\ job'[j].lease = job[j].lease
        /\ \A k \in Jobs \ {j} : job'[k] = job[k]
    BY <2>1, <2>2 DEF TypeOK, JobRows
  <2> HIDE DEF j
  <2> QED BY <2>1, <2>3 DEF Onward
<1>5. CASE MediaDefers(l) \/ PrecheckCancels(l) \/ Send(l)
  <2>1. j \in Jobs
    BY <1>5 DEF MediaDefers, PrecheckCancels, Send, AtWork
  <2>2. ASSUME Holds(l), NEW st \in {"sent", "cancelled"},
               job' = [job EXCEPT ![j].status = st, ![j].lease = NoLoop]
        PROVE  Onward
    <3>1. /\ job'[j].status = st /\ job'[j].refunded = job[j].refunded
          /\ \A k \in Jobs \ {j} : job'[k] = job[k]
      BY <2>1, <2>2 DEF TypeOK, JobRows
    <3>2. job[j].status = "processing"
      BY <2>2 DEF Holds
    <3> HIDE DEF j
    <3> QED BY <2>1, <3>1, <3>2 DEF Onward
  <2>3. CASE Holds(l) /\ job' = Requeued(j)
    BY <2>1, <2>3, RequeuedOnward DEF Holds
  <2>4. CASE MediaDefers(l)
    BY <1>1, <2>3, <2>4 DEF MediaDefers
  <2>5. CASE PrecheckCancels(l)
    BY <2>2, <2>5 DEF PrecheckCancels
  <2>6. CASE Send(l)
    BY <1>1, <2>2, <2>3, <2>6 DEF Send
  <2> QED BY <1>5, <2>4, <2>5, <2>6
<1> QED BY <1>2, <1>3, <1>4, <1>5

\* All a step does to the loops but a grant: the loop that makes it gets neither to be
\* granted nor to refund, but for the cancel of the precheck.
LEMMA LoopsQuiet ==
    ASSUME TypeInv, NEW l \in Loops,
           \/ \E j \in Jobs : Claim(l, j)
           \/ GuardDisposes(l) \/ GuardDefers(l) \/ Snapshot(l) \/ Defer(l) \/ MediaDefers(l)
           \/ Send(l) \/ Dies(l)
    PROVE  /\ loop'[l].pc \in {"idle", "claimed", "reserving"} /\ unit' = unit
           /\ loop'[l].pc = "reserving" => Snapshot(l)
           /\ \A k \in Loops \ {l} : loop'[k] = loop[k]
<1> USE DEF TypeInv, TypeOK
<1>1. unit' = unit
  BY DEF Claim, GuardDisposes, GuardDefers, Snapshot, Defer, MediaDefers, Send, Dies
<1>2. ASSUME NEW s, Goes(l, s)
      PROVE  /\ loop'[l].pc = s.pc
             /\ \A k \in Loops \ {l} : loop'[k] = loop[k]
  BY <1>2 DEF Goes
<1>3. CASE Goes(l, Idle)
  BY <1>1, <1>2, <1>3, IdleState
<1>4. ASSUME NEW j \in Jobs, Claim(l, j)
      PROVE  loop'[l].pc = "claimed" /\ \A k \in Loops \ {l} : loop'[k] = loop[k]
  <2> DEFINE s == [Idle EXCEPT !.pc = "claimed", !.job = j, !.began = now]
  <2>1. s.pc = "claimed" /\ Goes(l, s)
    BY <1>4, IdleState DEF Claim, LoopStates
  <2> HIDE DEF s
  <2> QED BY <2>1 DEF Goes
<1>5. CASE GuardDisposes(l)
  <2>1. ASSUME NEW j \in Jobs, Goes(l, [loop[l] EXCEPT !.job = j])
        PROVE  loop'[l].pc = "claimed" /\ \A k \in Loops \ {l} : loop'[k] = loop[k]
    <3> DEFINE s == [loop[l] EXCEPT !.job = j]
    <3>1. s.pc = "claimed" /\ Goes(l, s)
      BY <1>5, <2>1 DEF GuardDisposes, LoopStates
    <3> HIDE DEF s
    <3> QED BY <3>1 DEF Goes
  <2> QED BY <1>1, <1>3, <1>5, <2>1 DEF GuardDisposes
<1>6. CASE Snapshot(l)
  <2>1. PICK g \in Gaps :
          Goes(l, [loop[l] EXCEPT !.pc = "reserving", !.gap = g, !.seen = usage[Date(l)]])
    BY <1>6 DEF Snapshot
  <2> DEFINE s == [loop[l] EXCEPT !.pc = "reserving", !.gap = g, !.seen = usage[Date(l)]]
  <2>2. s.pc = "reserving" /\ Goes(l, s)
    BY <2>1 DEF LoopStates
  <2> HIDE DEF s
  <2>3. loop'[l].pc = "reserving" /\ \A k \in Loops \ {l} : loop'[k] = loop[k]
    BY <2>2 DEF Goes
  <2> QED BY <1>1, <1>6, <2>3
<1> QED BY <1>1, <1>3, <1>4, <1>5, <1>6 DEF GuardDefers, Defer, MediaDefers, Send, Dies

LEMMA RefundStep ==
    ASSUME TypeInv, RefundInv, [Next]_vars
    PROVE  RefundInv'
<1>1. CASE UNCHANGED vars
  BY <1>1 DEF vars, RefundInv, UnitsKnown, LastUnits, RefundIsLast, Last, Granted, Date, Holds
<1>2. ASSUME Onward, unit' = unit,
             \A k \in Loops : loop'[k] = loop[k] \/ loop'[k].pc \notin {"granted", "refunding"}
      PROVE  RefundInv'
  BY <1>2, NoGrant DEF Onward
<1>3. CASE Tick \/ (\E j \in Jobs : Reap(j))
  <2>1. loop' = loop /\ unit' = unit
    BY <1>3 DEF Tick, Reap
  <2> QED BY <1>2, <1>3, <2>1, WorldOnward
<1>4. ASSUME NEW l \in Loops, Works(l)
      PROVE  RefundInv'
  <2>1. CASE PrecheckCancels(l)
    <3>1. Onward
      BY <2>1, OnwardOf
    <3> DEFINE s == [loop[l] EXCEPT !.pc = "refunding"]
    <3>2. /\ Goes(l, s) /\ loop[l].pc = "granted" /\ Holds(l) /\ unit' = unit
          /\ job' = [job EXCEPT ![loop[l].job].status = "cancelled", ![loop[l].job].lease = NoLoop]
      BY <2>1 DEF PrecheckCancels
    <3>3. s.pc = "refunding" /\ s.unit = loop[l].unit /\ s.job = loop[l].job
          /\ s.began = loop[l].began
      BY DEF TypeInv, TypeOK, LoopStates
    <3> HIDE DEF s
    <3>4. /\ loop'[l].pc = "refunding" /\ loop'[l].unit = loop[l].unit
          /\ loop'[l].job = loop[l].job /\ loop'[l].began = loop[l].began
          /\ \A k \in Loops \ {l} : loop'[k] = loop[k]
      BY <3>2, <3>3 DEF Goes, TypeInv, TypeOK
    <3>5. job'[loop[l].job].status = "cancelled"
      BY <3>2 DEF TypeInv, TypeOK, AtWork, JobRows
    <3> QED BY <3>1, <3>2, <3>4, <3>5, NoGrant DEF Onward
  <2>2. CASE Reserve(l)
    BY <2>2, ReserveRefundInv
  <2>3. CASE Refund(l)
    BY <2>3, RefundRefundInv
  <2>4. CASE \/ \E j \in Jobs : Claim(l, j)
             \/ GuardDisposes(l) \/ GuardDefers(l) \/ Snapshot(l) \/ Defer(l)
             \/ MediaDefers(l) \/ Send(l) \/ Dies(l)
    <3>1. Onward
      BY <2>4, OnwardOf
    <3>2. /\ loop'[l].pc \in {"idle", "claimed", "reserving"} /\ unit' = unit
          /\ \A k \in Loops \ {l} : loop'[k] = loop[k]
      BY <2>4, LoopsQuiet
    <3> QED BY <1>2, <3>1, <3>2
  <2> QED BY <1>4, <2>1, <2>2, <2>3, <2>4 DEF Works
<1> QED BY <1>1, <1>3, <1>4 DEF Next

-----------------------------------------------------------------------------
(* The plan's usage. *)

DatedOn(d) == {n \in Granted : unit[n].date = d}

LEMMA EagerFinite ==
    \A d : IsFiniteSet(Eager(d)) /\ Cardinality(Eager(d)) \in Nat
           /\ Cardinality(Eager(d)) <= Cardinality(Loops)
<1>1. IsFiniteSet(Loops) /\ \A d : Eager(d) \in SUBSET Loops
  BY PacingAssumption DEF Eager
<1> QED BY <1>1, FS_Subset, FS_CardinalityType

LEMMA PlanQuiet ==
    ASSUME TypeInv, PlanInv, usage' = usage, Granted' = Granted,
           \A n \in Granted : unit'[n].date = unit[n].date,
           \A k \in Loops : loop'[k].pc = "reserving" => loop'[k] = loop[k]
    PROVE  PlanInv'
<1> SUFFICES ASSUME NEW d \in Dates
             PROVE  /\ usage'[d] = Cardinality({n \in Granted' : unit'[n].date = d})
                    /\ PlanCap > 0 => usage'[d] + Cardinality(Eager(d)')
                                        < PlanCap + Cardinality(Loops)
  BY DEF PlanInv
<1>1. {n \in Granted' : unit'[n].date = d} = {n \in Granted : unit[n].date = d}
  OBVIOUS
<1>2. Eager(d)' \subseteq Eager(d)
  BY DEF Eager, Date
<1>3. Cardinality(Eager(d)') <= Cardinality(Eager(d)) /\ Cardinality(Eager(d)') \in Nat
      /\ Cardinality(Eager(d)) \in Nat
  BY <1>2, EagerFinite, FS_Subset, FS_CardinalityType
<1>4. usage[d] \in Nat /\ Cardinality(Loops) \in Nat /\ PlanCap \in Nat
  BY LoopsFinite, PacingAssumption DEF TypeInv, TypeOK
<1> QED BY <1>1, <1>3, <1>4 DEF PlanInv

LEMMA SnapshotPlan ==
    ASSUME TypeInv, PlanInv, NEW l \in Loops, Snapshot(l)
    PROVE  PlanInv'
<1>1. UNCHANGED <<usage, unit>> /\ Granted' = Granted
  BY DEF Snapshot, Granted
<1>2. /\ loop'[l].began = loop[l].began /\ loop'[l].seen = usage[Date(l)]
      /\ \A k \in Loops \ {l} : loop'[k] = loop[k]
  <2>1. PICK g \in Gaps :
          Goes(l, [loop[l] EXCEPT !.pc = "reserving", !.gap = g, !.seen = usage[Date(l)]])
    BY DEF Snapshot
  <2> DEFINE s == [loop[l] EXCEPT !.pc = "reserving", !.gap = g, !.seen = usage[Date(l)]]
  <2>2. s.began = loop[l].began /\ s.seen = usage[Date(l)] /\ Goes(l, s)
    BY <2>1 DEF TypeInv, TypeOK, LoopStates
  <2> HIDE DEF s
  <2> QED BY <2>2 DEF Goes, TypeInv, TypeOK
<1> SUFFICES ASSUME NEW d \in Dates
             PROVE  /\ usage'[d] = Cardinality({n \in Granted' : unit'[n].date = d})
                    /\ PlanCap > 0 => usage'[d] + Cardinality(Eager(d)')
                                        < PlanCap + Cardinality(Loops)
  BY DEF PlanInv
<1>3. usage[d] \in Nat /\ Cardinality(Loops) \in Nat /\ PlanCap \in Nat
  BY LoopsFinite, PacingAssumption DEF TypeInv, TypeOK
<1>4. Cardinality(Eager(d)') \in Nat /\ Cardinality(Eager(d)') <= Cardinality(Loops)
      /\ IsFiniteSet(Eager(d)) /\ Cardinality(Eager(d)) \in Nat
  <2>1. Eager(d)' \in SUBSET Loops
    BY DEF Eager
  <2> QED BY <2>1, EagerFinite, FS_Subset, FS_CardinalityType, PacingAssumption
\* Below the cap there is room for all the loops; from there on no snapshot is below it.
<1>5. CASE usage[d] < PlanCap
  BY <1>1, <1>3, <1>4, <1>5 DEF PlanInv
<1>6. CASE usage[d] >= PlanCap
  <2>1. Eager(d)' \subseteq Eager(d)
    BY <1>2, <1>3, <1>6 DEF Eager, Date
  <2>2. Cardinality(Eager(d)') <= Cardinality(Eager(d))
    BY <1>4, <2>1, FS_Subset
  <2> QED BY <1>1, <1>3, <1>4, <2>2 DEF PlanInv
<1> QED BY <1>3, <1>5, <1>6

LEMMA ReservePlan ==
    ASSUME TypeInv, PlanInv, NEW l \in Loops, Reserve(l)
    PROVE  PlanInv'
<1> DEFINE n == Cardinality(Granted) + 1
<1>1. /\ n \notin Granted /\ Granted' = Granted \cup {n}
      /\ \A m \in Granted : unit'[m] = unit[m]
      /\ unit'[n].date = Date(l)
  <2>1. unit'[n] = [job |-> loop[l].job, date |-> Date(l), hour |-> HourOf(loop[l].began),
                    refunded |-> FALSE]
    BY ReserveUnit
  <2>2. unit'[n].date = Date(l)
    BY <2>1
  <2> QED BY <2>2, ReserveUnit
<1>2. Date(l) \in Dates
  BY EnsuredType DEF Reserve, Transacts
<1>3. /\ usage'[Date(l)] = usage[Date(l)] + 1
      /\ \A d \in Dates \ {Date(l)} : usage'[d] = usage[d]
  BY <1>2 DEF Reserve, Bump, TypeInv, TypeOK
<1>4. loop'[l].pc = "granted" /\ \A k \in Loops \ {l} : loop'[k] = loop[k]
  <2> DEFINE s == [loop[l] EXCEPT !.pc = "granted", !.seen = 0, !.unit = n]
  <2>1. Goes(l, s)
    BY DEF Reserve
  <2> HIDE DEF n
  <2>2. s.pc = "granted"
    BY DEF TypeInv, TypeOK, LoopStates
  <2> HIDE DEF s
  <2> QED BY <2>1, <2>2 DEF Goes, TypeInv, TypeOK
<1> HIDE DEF n
<1>5. \A d \in Dates : Eager(d)' = Eager(d) \ {l}
  BY <1>4 DEF Eager, Date
<1>6. l \in Eager(Date(l))
  BY DEF Reserve, Grants, Eager
<1> SUFFICES ASSUME NEW d \in Dates
             PROVE  /\ usage'[d] = Cardinality(DatedOn(d)')
                    /\ PlanCap > 0 => usage'[d] + Cardinality(Eager(d)')
                                        < PlanCap + Cardinality(Loops)
  BY DEF PlanInv, DatedOn
<1>7. usage[d] \in Nat /\ Cardinality(Loops) \in Nat /\ PlanCap \in Nat
      /\ IsFiniteSet(Eager(d)) /\ Cardinality(Eager(d)) \in Nat
      /\ IsFiniteSet(DatedOn(d)) /\ Cardinality(DatedOn(d)) \in Nat
      /\ usage[d] = Cardinality(DatedOn(d))
      /\ (PlanCap > 0 => usage[d] + Cardinality(Eager(d)) < PlanCap + Cardinality(Loops))
  BY LoopsFinite, EagerFinite, GrantedFinite, PacingAssumption
     DEF TypeInv, TypeOK, DatedOn, PlanInv
<1>8. CASE d = Date(l)
  <2>1. DatedOn(d)' = DatedOn(d) \cup {n} /\ n \notin DatedOn(d)
    BY <1>1, <1>8 DEF DatedOn
  <2>2. Cardinality(DatedOn(d)') = Cardinality(DatedOn(d)) + 1
    BY <1>7, <2>1, OneMore
  <2>3. Cardinality(Eager(d)') = Cardinality(Eager(d)) - 1
    BY <1>5, <1>6, <1>7, <1>8, OneLess
  <2> QED BY <1>3, <1>7, <1>8, <2>2, <2>3
<1>9. CASE d # Date(l)
  <2>1. DatedOn(d)' = DatedOn(d)
    BY <1>1, <1>9 DEF DatedOn
  <2>2. l \notin Eager(d)
    BY <1>9 DEF Eager
  <2>3. Eager(d)' = Eager(d)
    BY <1>5, <2>2
  <2> QED BY <1>3, <1>7, <1>9, <2>1, <2>3
<1> QED BY <1>8, <1>9

LEMMA PlanStep ==
    ASSUME TypeInv, PlanInv, [Next]_vars
    PROVE  PlanInv'
<1>1. CASE UNCHANGED vars \/ Tick \/ (\E j \in Jobs : Reap(j))
  BY <1>1, PlanQuiet DEF vars, Tick, Reap, Granted
<1>2. ASSUME NEW l \in Loops, Works(l)
      PROVE  PlanInv'
  <2>1. CASE PrecheckCancels(l) \/ Refund(l)
    <3>1. usage' = usage
      BY <2>1 DEF PrecheckCancels, Refund
    <3>2. Granted' = Granted /\ \A n \in Granted : unit'[n].date = unit[n].date
      <4>1. CASE PrecheckCancels(l)
        BY <4>1 DEF PrecheckCancels, Granted
      <4>2. CASE Refund(l)
        <5>1. \A n \in Granted : [unit[n] EXCEPT !.refunded = TRUE].date = unit[n].date
          BY DEF TypeInv, TypeOK, Units
        <5> QED BY <4>2, <5>1, RefundUnit
      <4> QED BY <2>1, <4>1, <4>2
    <3>3. loop'[l].pc # "reserving" /\ \A k \in Loops \ {l} : loop'[k] = loop[k]
      <4>1. PICK s \in LoopStates : s.pc # "reserving" /\ Goes(l, s)
        <5>1. Idle \in LoopStates /\ Idle.pc # "reserving"
          BY IdleState
        <5>2. [loop[l] EXCEPT !.pc = "refunding"] \in LoopStates
              /\ [loop[l] EXCEPT !.pc = "refunding"].pc # "reserving"
          BY DEF TypeInv, TypeOK, LoopStates
        <5> QED BY <2>1, <5>1, <5>2 DEF PrecheckCancels, Refund
      <4> QED BY <4>1 DEF Goes, TypeInv, TypeOK
    <3> QED BY <3>1, <3>2, <3>3, PlanQuiet
  <2>2. CASE \/ \E j \in Jobs : Claim(l, j)
             \/ GuardDisposes(l) \/ GuardDefers(l) \/ Snapshot(l) \/ Defer(l)
             \/ MediaDefers(l) \/ Send(l) \/ Dies(l)
    <3>1. CASE Snapshot(l)
      BY <3>1, SnapshotPlan
    <3>2. CASE ~Snapshot(l)
      <4>1. usage' = usage
        BY <2>2, <3>2 DEF Claim, GuardDisposes, GuardDefers, Defer, MediaDefers, Send, Dies
      <4>2. /\ loop'[l].pc # "reserving" /\ unit' = unit /\ Granted' = Granted
            /\ \A k \in Loops \ {l} : loop'[k] = loop[k]
        BY <2>2, <3>2, LoopsQuiet DEF Granted
      <4> QED BY <4>1, <4>2, PlanQuiet
    <3> QED BY <3>1, <3>2
  <2> QED BY <1>2, <2>1, <2>2, ReservePlan DEF Works
<1> QED BY <1>1, <1>2 DEF Next

LEMMA PlanStart ==
    ASSUME Init
    PROVE  PlanInv
<1>1. TypeInv /\ Granted = {} /\ \A d : Eager(d) = {}
  BY TypesStart, IdleState DEF Init, Granted, Eager
<1>2. Cardinality({}) = 0 /\ Cardinality(Loops) \in Nat /\ PlanCap \in Nat
  BY FS_EmptySet, LoopsFinite, PacingAssumption
<1>3. \A d \in Dates : {n \in Granted : unit[n].date = d} = {} /\ usage[d] = 0
  BY <1>1 DEF Init
<1>4. \A d \in Dates : Cardinality({n \in Granted : unit[n].date = d}) = 0
                      /\ Cardinality(Eager(d)) = 0
  BY <1>1, <1>2, <1>3
<1>5. PlanCap > 0 => 0 + 0 < PlanCap + Cardinality(Loops)
  BY <1>2
<1> QED BY <1>3, <1>4, <1>5 DEF PlanInv

LEMMA PlanKept ==
    ASSUME TypeInv, PlanInv
    PROVE  PlanNearlyKept
<1> SUFFICES ASSUME NEW d \in Dates
             PROVE  /\ usage[d] = Cardinality({n \in Granted : unit[n].date = d})
                    /\ PlanCap > 0 => usage[d] < PlanCap + Cardinality(Loops)
  BY DEF PlanNearlyKept
<1>1. usage[d] \in Nat /\ Cardinality(Loops) \in Nat /\ PlanCap \in Nat
      /\ Cardinality(Eager(d)) \in Nat
  BY LoopsFinite, EagerFinite, PacingAssumption DEF TypeInv, TypeOK
<1> QED BY <1>1 DEF PlanInv

-----------------------------------------------------------------------------
(* The counters. *)

GivenBack(i, d) == {n \in UnitsOf(i, d) : unit[n].refunded}

\* CountersMatchUnits, of a row that is or will be that of the instance and date.
CountsAre(i, d, r) ==
    /\ r.consumed = Cardinality(Counted(i, d, Paced))
    /\ r.new = Cardinality(Counted(i, d, {"new"}))
    /\ r.group = Cardinality(Counted(i, d, {"group"}))
    /\ r.system = Cardinality(Counted(i, d, {"exempt"}))
    /\ r.refunds = Cardinality(GivenBack(i, d))

LEMMA CountsAreAll ==
    CountersMatchUnits <=> \A i \in Instances, d \in Dates : CountsAre(i, d, ledger[i][d])
  BY DEF CountersMatchUnits, CountsAre, GivenBack

LEMMA CountFinite ==
    ASSUME TypeInv, NEW i, NEW d
    PROVE  /\ \A K : IsFiniteSet(Counted(i, d, K)) /\ Cardinality(Counted(i, d, K)) \in Nat
           /\ IsFiniteSet(GivenBack(i, d)) /\ Cardinality(GivenBack(i, d)) \in Nat
<1>1. \A K : Counted(i, d, K) \in SUBSET Granted
  BY DEF Counted, UnitsOf
<1>2. GivenBack(i, d) \in SUBSET Granted
  BY DEF GivenBack, UnitsOf
<1>3. \A S \in SUBSET Granted : IsFiniteSet(S) /\ Cardinality(S) \in Nat
  BY GrantedFinite DEF TypeInv
<1> QED BY <1>1, <1>2, <1>3

\* An ensured row is either the one there is, or counts nothing as it should.
LEMMA EnsuredCounts ==
    ASSUME TypeInv, CountersMatchUnits, NEW l \in Loops, Transacts(l)
    PROVE  CountsAre(Inst(l), Date(l), Ensured(l))
<1>1. Inst(l) \in Instances /\ Date(l) \in Dates
  BY EnsuredType
<1>2. CountsAre(Inst(l), Date(l), ledger[Inst(l)][Date(l)])
  BY <1>1, CountsAreAll
<1>3. CASE NoRowYet(Inst(l), Date(l))
  BY <1>2, <1>3 DEF Ensured, NoRowYet, NoRow, Fresh, CountsAre
<1>4. CASE ~NoRowYet(Inst(l), Date(l))
  BY <1>2, <1>4 DEF Ensured
<1> QED BY <1>3, <1>4

LEMMA ReserveCounts ==
    ASSUME TypeInv, NEW l \in Loops, Reserve(l), NEW i \in Instances, NEW d \in Dates
    PROVE  LET here == i = Inst(l) /\ d = Date(l)
               k == Kind[loop[l].job] IN
           /\ \A K : Cardinality(Counted(i, d, K)') =
                       Cardinality(Counted(i, d, K)) + One(here /\ k \in K)
           /\ GivenBack(i, d)' = GivenBack(i, d)
<1> DEFINE n == Cardinality(Granted) + 1
           here == i = Inst(l) /\ d = Date(l)
           k == Kind[loop[l].job]
<1>1. /\ n \notin Granted /\ Granted' = Granted \cup {n}
      /\ \A m \in Granted : unit'[m] = unit[m]
      /\ unit'[n] = [job |-> loop[l].job, date |-> Date(l), hour |-> HourOf(loop[l].began),
                     refunded |-> FALSE]
  BY ReserveUnit
<1>2. /\ unit'[n].date = Date(l) /\ ~unit'[n].refunded /\ Of[unit'[n].job] = Inst(l)
      /\ Kind[unit'[n].job] = k
  BY <1>1 DEF Inst
<1> HIDE DEF n, k
<1>3. UnitsOf(i, d)' = IF here THEN UnitsOf(i, d) \cup {n} ELSE UnitsOf(i, d)
  BY <1>1, <1>2 DEF UnitsOf
<1>4. GivenBack(i, d)' = GivenBack(i, d)
  BY <1>1, <1>2, <1>3 DEF GivenBack, UnitsOf
<1>5. ASSUME NEW K
      PROVE  Cardinality(Counted(i, d, K)') =
               Cardinality(Counted(i, d, K)) + One(here /\ k \in K)
  <2>1. IsFiniteSet(Counted(i, d, K)) /\ Cardinality(Counted(i, d, K)) \in Nat
    BY CountFinite
  <2>2. n \notin Counted(i, d, K)
    BY <1>1 DEF Counted, UnitsOf
  <2>3. CASE here /\ k \in K
    <3>1. Counted(i, d, K)' = Counted(i, d, K) \cup {n}
      BY <1>1, <1>2, <1>3, <2>3 DEF Counted, UnitsOf
    <3> QED BY <2>1, <2>2, <2>3, <3>1, OneMore DEF One
  <2>4. CASE ~(here /\ k \in K)
    <3>1. Counted(i, d, K)' = Counted(i, d, K)
      BY <1>1, <1>2, <1>3, <2>4 DEF Counted, UnitsOf
    <3> QED BY <2>1, <2>4, <3>1 DEF One
  <2> QED BY <2>3, <2>4
<1> QED BY <1>4, <1>5 DEF k

\* The kinds are what they are, whether a unit of kind k is counted by each counter.
LEMMA KindsOf ==
    ASSUME NEW k \in {"plain", "new", "group", "exempt"}
    PROVE  /\ k \in Paced <=> k # "exempt"
           /\ k \in {"new"} <=> k = "new"
           /\ k \in {"group"} <=> k = "group"
           /\ k \in {"exempt"} <=> k = "exempt"
  BY DEF Paced

LEMMA ReserveMatch ==
    ASSUME TypeInv, CountersMatchUnits, NEW l \in Loops, Reserve(l)
    PROVE  CountersMatchUnits'
<1> DEFINE k == Kind[loop[l].job]
           e == Ensured(l)
           c == Consumed(e, k, loop[l].began, loop[l].gap)
<1>1. Transacts(l)
  BY DEF Reserve, Transacts
<1>2. /\ Inst(l) \in Instances /\ Date(l) \in Dates /\ e \in Ledgers
      /\ loop[l].began \in Nat /\ loop[l].gap \in Nat
      /\ k \in {"plain", "new", "group", "exempt"}
  BY <1>1, EnsuredType, PacingAssumption DEF TypeInv, TypeOK, LoopStates
<1>3. CountsAre(Inst(l), Date(l), e)
  BY <1>1, EnsuredCounts
<1>4. ledger' = [ledger EXCEPT ![Inst(l)][Date(l)] = c]
  BY DEF Reserve
<1>5. /\ c.refunds = e.refunds
      /\ k = "exempt" => /\ c.consumed = e.consumed /\ c.new = e.new /\ c.group = e.group
                         /\ c.system = e.system + 1
      /\ k # "exempt" => /\ c.consumed = e.consumed + 1 /\ c.system = e.system
                         /\ c.new = e.new + One(k = "new") /\ c.group = e.group + One(k = "group")
  BY <1>2, ConsumedRow
<1> HIDE DEF k, e, c
<1>6. /\ \A i \in Instances, d \in Dates :
           ledger'[i][d] = IF i = Inst(l) /\ d = Date(l) THEN c ELSE ledger[i][d]
  BY <1>2, <1>4 DEF TypeInv, TypeOK
<1>7. ASSUME NEW i \in Instances, NEW d \in Dates
      PROVE  CountsAre(i, d, ledger[i][d])'
  <2>1. CountsAre(i, d, ledger[i][d])
    BY CountsAreAll
  <2>2. GivenBack(i, d)' = GivenBack(i, d)
    BY ReserveCounts
  <2>3. CASE i = Inst(l) /\ d = Date(l)
    <3>1. \A K : Cardinality(Counted(i, d, K)') = Cardinality(Counted(i, d, K)) + One(k \in K)
      BY <2>3, ReserveCounts DEF k
    <3>2. /\ Cardinality(Counted(i, d, Paced)') = Cardinality(Counted(i, d, Paced)) + One(k # "exempt")
          /\ Cardinality(Counted(i, d, {"new"})') = Cardinality(Counted(i, d, {"new"})) + One(k = "new")
          /\ Cardinality(Counted(i, d, {"group"})') =
               Cardinality(Counted(i, d, {"group"})) + One(k = "group")
          /\ Cardinality(Counted(i, d, {"exempt"})') =
               Cardinality(Counted(i, d, {"exempt"})) + One(k = "exempt")
      BY <1>2, <3>1, KindsOf DEF One
    <3>3. CountsAre(i, d, e)
      BY <1>3, <2>3
    <3>4. /\ Cardinality(Counted(i, d, Paced)) \in Nat /\ Cardinality(Counted(i, d, {"new"})) \in Nat
          /\ Cardinality(Counted(i, d, {"group"})) \in Nat
          /\ Cardinality(Counted(i, d, {"exempt"})) \in Nat
      BY CountFinite
    <3>5. ledger'[i][d] = c
      BY <1>6, <2>3
    <3>6. CASE k = "exempt"
      BY <1>5, <2>2, <3>2, <3>3, <3>4, <3>5, <3>6 DEF CountsAre, One
    <3>7. CASE k # "exempt"
      BY <1>5, <2>2, <3>2, <3>3, <3>4, <3>5, <3>7 DEF CountsAre, One
    <3> QED BY <3>6, <3>7
  <2>4. CASE ~(i = Inst(l) /\ d = Date(l))
    <3>1. \A K : Cardinality(Counted(i, d, K)') = Cardinality(Counted(i, d, K))
      <4>1. \A K : Cardinality(Counted(i, d, K)') = Cardinality(Counted(i, d, K)) + 0
        BY <2>4, ReserveCounts DEF One
      <4>2. \A K : Cardinality(Counted(i, d, K)) \in Nat
        BY CountFinite
      <4> QED BY <4>1, <4>2
    <3>2. ledger'[i][d] = ledger[i][d]
      BY <1>6, <2>4
    <3> QED BY <2>1, <2>2, <3>1, <3>2 DEF CountsAre
  <2> QED BY <2>3, <2>4
<1>8. \A i \in Instances, d \in Dates : CountsAre(i, d, ledger[i][d])'
  BY <1>7
<1> QED BY <1>8 DEF CountersMatchUnits, CountsAre, GivenBack

\* What leaves the units alone leaves the sets that count them.
LEMMA UnitsQuiet ==
    ASSUME unit' = unit
    PROVE  /\ Granted' = Granted
           /\ \A i, d : UnitsOf(i, d)' = UnitsOf(i, d) /\ GivenBack(i, d)' = GivenBack(i, d)
           /\ \A i, d, K : Counted(i, d, K)' = Counted(i, d, K)
<1>1. Granted' = Granted
  BY DEF Granted
<1>2. \A i, d : UnitsOf(i, d)' = UnitsOf(i, d)
  BY <1>1 DEF UnitsOf
<1>3. \A i, d : GivenBack(i, d)' = GivenBack(i, d)
  BY <1>1, <1>2 DEF GivenBack, UnitsOf
<1>4. \A i, d, K : Counted(i, d, K)' = Counted(i, d, K)
  BY <1>2 DEF Counted
<1> QED BY <1>1, <1>2, <1>3, <1>4

LEMMA CountersQuiet ==
    ASSUME CountersMatchUnits, UNCHANGED <<ledger, unit>>
    PROVE  CountersMatchUnits'
<1>1. ASSUME NEW i \in Instances, NEW d \in Dates
      PROVE  CountsAre(i, d, ledger[i][d])'
  <2>1. CountsAre(i, d, ledger[i][d])
    BY CountsAreAll
  <2> QED BY <2>1, UnitsQuiet DEF CountsAre
<1> QED BY <1>1 DEF CountersMatchUnits, CountsAre, GivenBack

\* A refund that is paid moves one unit from the counted to those given back.
LEMMA RefundCounts ==
    ASSUME TypeInv, RefundInv, NEW l \in Loops, loop[l].pc = "refunding",
           ~job[loop[l].job].refunded, unit' = [unit EXCEPT ![loop[l].unit].refunded = TRUE]
    PROVE  LET u == loop[l].unit IN
           /\ u \in Granted /\ Granted' = Granted
           /\ \A n \in Granted : unit'[n].job = unit[n].job /\ unit'[n].hour = unit[n].hour
                                  /\ unit'[n].date = unit[n].date
           /\ \A i, d : UnitsOf(i, d)' = UnitsOf(i, d)
           /\ \A i, d, K : Counted(i, d, K)' = Counted(i, d, K) \ {u}
           /\ \A i, d : GivenBack(i, d)' =
                IF i = Inst(l) /\ d = Date(l) THEN GivenBack(i, d) \cup {u} ELSE GivenBack(i, d)
           /\ u \notin GivenBack(Inst(l), Date(l))
           /\ \A i, d, K : u \in Counted(i, d, K) <=>
                i = Inst(l) /\ d = Date(l) /\ Kind[loop[l].job] \in K
<1> DEFINE u == loop[l].unit
<1>1. /\ u \in Granted /\ unit[u].job = loop[l].job /\ unit[u].date = Date(l)
      /\ ~unit[u].refunded
  BY DEF RefundInv, UnitsKnown, LastUnits
<1>2. Granted' = Granted
  BY DEF Granted
<1>3. \A n \in Granted : unit[n] \in Units
  BY DEF TypeInv, TypeOK
<1>4. \A n \in Granted : unit'[n] = IF n = u THEN [unit[n] EXCEPT !.refunded = TRUE] ELSE unit[n]
  BY <1>1 DEF Granted
<1> HIDE DEF u
<1>5. \A n \in Granted :
         /\ unit'[n].job = unit[n].job /\ unit'[n].hour = unit[n].hour
         /\ unit'[n].date = unit[n].date
         /\ (unit'[n].refunded <=> (n = u \/ unit[n].refunded))
  <2> SUFFICES ASSUME NEW n \in Granted
               PROVE  /\ unit'[n].job = unit[n].job /\ unit'[n].hour = unit[n].hour
                      /\ unit'[n].date = unit[n].date
                      /\ (unit'[n].refunded <=> (n = u \/ unit[n].refunded))
    OBVIOUS
  <2> DEFINE v == [unit[n] EXCEPT !.refunded = TRUE]
  <2>1. v.job = unit[n].job /\ v.hour = unit[n].hour /\ v.date = unit[n].date /\ v.refunded
    BY <1>3 DEF Units
  <2>2. unit'[n] = IF n = u THEN v ELSE unit[n]
    BY <1>4
  <2> HIDE DEF v
  <2>3. CASE n = u
    <3>1. unit'[n] = v
      BY <2>2, <2>3
    <3> QED BY <2>1, <2>3, <3>1
  <2>4. CASE n # u
    <3>1. unit'[n] = unit[n]
      BY <2>2, <2>4
    <3> QED BY <2>4, <3>1
  <2> QED BY <2>3, <2>4
<1>6. \A i, d : UnitsOf(i, d)' = UnitsOf(i, d)
  BY <1>2, <1>5 DEF UnitsOf
<1>7. \A i, d, K : Counted(i, d, K)' = Counted(i, d, K) \ {u}
  BY <1>2, <1>5, <1>6 DEF Counted, UnitsOf
<1>8. \A i, d : u \in UnitsOf(i, d) <=> i = Inst(l) /\ d = Date(l)
  BY <1>1 DEF UnitsOf, Inst
<1>9. \A i, d : GivenBack(i, d)' =
         IF i = Inst(l) /\ d = Date(l) THEN GivenBack(i, d) \cup {u} ELSE GivenBack(i, d)
  <2> TAKE i, d
  <2>1. GivenBack(i, d)' = {n \in UnitsOf(i, d) : n = u \/ unit[n].refunded}
    BY <1>2, <1>5, <1>6 DEF GivenBack, UnitsOf
  <2> QED BY <1>8, <2>1 DEF GivenBack
<1>10. u \notin GivenBack(Inst(l), Date(l))
  BY <1>1 DEF GivenBack
<1>11. \A i, d, K : u \in Counted(i, d, K) <=>
         i = Inst(l) /\ d = Date(l) /\ Kind[loop[l].job] \in K
  BY <1>1, <1>8 DEF Counted
<1>12. \A n \in Granted : /\ unit'[n].job = unit[n].job /\ unit'[n].hour = unit[n].hour
                          /\ unit'[n].date = unit[n].date
  BY <1>5
<1> QED BY <1>1, <1>2, <1>6, <1>7, <1>9, <1>10, <1>11, <1>12 DEF u

LEMMA RefundMatch ==
    ASSUME TypeInv, RefundInv, CountersMatchUnits, NEW l \in Loops, Refund(l)
    PROVE  CountersMatchUnits'
<1> DEFINE j == loop[l].job
           k == Kind[j]
           u == loop[l].unit
           e == ledger[Inst(l)][Date(l)]
           c == Returned(e, k, loop[l].gap)
<1>1. CASE UNCHANGED <<ledger, unit>>
  BY <1>1, CountersQuiet
<1>2. CASE ~UNCHANGED <<ledger, unit>>
  <2>1. /\ loop[l].pc = "refunding" /\ ~job[j].refunded
        /\ ledger' = [ledger EXCEPT ![Inst(l)][Date(l)] = c]
        /\ unit' = [unit EXCEPT ![u].refunded = TRUE]
    BY <1>2 DEF Refund, RefundDate, TypeInv, TypeOK
  <2>2. j \in Jobs /\ loop[l].began \in Nat /\ loop[l].began <= now /\ now <= MaxTime
        /\ now \in Nat /\ loop[l].gap \in Nat
    BY <2>1, WorkType
  <2>3. Inst(l) \in Instances /\ Date(l) \in Dates
    BY <2>1, <2>2, Dating, PacingAssumption DEF Inst, Date
  <2>4. e \in Ledgers /\ k \in {"plain", "new", "group", "exempt"}
    BY <2>2, <2>3, PacingAssumption DEF TypeInv, TypeOK
  <2>5. /\ c.refunds = e.refunds + 1
        /\ k = "exempt" => /\ c.consumed = e.consumed /\ c.new = e.new /\ c.group = e.group
                           /\ c.system = NotBelow(e.system - 1)
        /\ k # "exempt" => /\ c.consumed = NotBelow(e.consumed - 1) /\ c.system = e.system
                           /\ c.new = NotBelow(e.new - One(k = "new"))
                           /\ c.group = NotBelow(e.group - One(k = "group"))
    BY <2>2, <2>4, ReturnedRow
  <2>6. \A i \in Instances, d \in Dates :
           ledger'[i][d] = IF i = Inst(l) /\ d = Date(l) THEN c ELSE ledger[i][d]
    BY <2>1, <2>3 DEF TypeInv, TypeOK
  <2>7. /\ \A i, d, K : Counted(i, d, K)' = Counted(i, d, K) \ {u}
        /\ \A i, d : GivenBack(i, d)' =
             IF i = Inst(l) /\ d = Date(l) THEN GivenBack(i, d) \cup {u} ELSE GivenBack(i, d)
        /\ u \notin GivenBack(Inst(l), Date(l))
        /\ \A i, d, K : u \in Counted(i, d, K) <=> i = Inst(l) /\ d = Date(l) /\ k \in K
    BY <2>1, RefundCounts
  <2> HIDE DEF j, k, u, e, c
  <2>8. ASSUME NEW i \in Instances, NEW d \in Dates
        PROVE  CountsAre(i, d, ledger[i][d])'
    <3>1. CountsAre(i, d, ledger[i][d])
      BY CountsAreAll
    <3>2. CASE i = Inst(l) /\ d = Date(l)
      <4>1. \A K : IF k \in K
                   THEN Cardinality(Counted(i, d, K)') = NotBelow(Cardinality(Counted(i, d, K)) - 1)
                   ELSE Cardinality(Counted(i, d, K)') = Cardinality(Counted(i, d, K))
        <5> TAKE K
        <5>1. IsFiniteSet(Counted(i, d, K)) /\ Cardinality(Counted(i, d, K)) \in Nat
          BY CountFinite
        <5>2. CASE k \in K
          <6>1. u \in Counted(i, d, K) /\ Counted(i, d, K)' = Counted(i, d, K) \ {u}
            BY <2>7, <3>2, <5>2
          <6>2. Cardinality(Counted(i, d, K)') = Cardinality(Counted(i, d, K)) - 1
                /\ Cardinality(Counted(i, d, K)) - 1 \in Nat
            BY <5>1, <6>1, OneLess
          <6> QED BY <5>2, <6>2 DEF NotBelow
        <5>3. CASE k \notin K
          <6>1. u \notin Counted(i, d, K) /\ Counted(i, d, K)' = Counted(i, d, K) \ {u}
            BY <2>7, <5>3
          <6> QED BY <5>3, <6>1
        <5> QED BY <5>2, <5>3
      <4>2. /\ k # "exempt" => Cardinality(Counted(i, d, Paced)')
                                 = NotBelow(Cardinality(Counted(i, d, Paced)) - 1)
            /\ k = "exempt" => Cardinality(Counted(i, d, Paced)') = Cardinality(Counted(i, d, Paced))
        BY <2>4, <4>1, KindsOf
      <4>3. Cardinality(Counted(i, d, {"new"})')
              = NotBelow(Cardinality(Counted(i, d, {"new"})) - One(k = "new"))
        <5>1. Cardinality(Counted(i, d, {"new"})) \in Nat
          BY CountFinite
        <5> QED BY <4>1, <5>1 DEF One, NotBelow
      <4>4. Cardinality(Counted(i, d, {"group"})')
              = NotBelow(Cardinality(Counted(i, d, {"group"})) - One(k = "group"))
        <5>1. Cardinality(Counted(i, d, {"group"})) \in Nat
          BY CountFinite
        <5> QED BY <4>1, <5>1 DEF One, NotBelow
      <4>5. /\ k = "exempt" => Cardinality(Counted(i, d, {"exempt"})')
                                 = NotBelow(Cardinality(Counted(i, d, {"exempt"})) - 1)
            /\ k # "exempt" => Cardinality(Counted(i, d, {"exempt"})')
                                 = Cardinality(Counted(i, d, {"exempt"}))
        BY <4>1
      <4>6. Cardinality(GivenBack(i, d)') = Cardinality(GivenBack(i, d)) + 1
        <5>1. IsFiniteSet(GivenBack(i, d)) /\ u \notin GivenBack(i, d)
              /\ GivenBack(i, d)' = GivenBack(i, d) \cup {u}
          BY <2>7, <3>2, CountFinite
        <5> QED BY <5>1, OneMore
      <4>7. ledger'[i][d] = c /\ e = ledger[i][d]
        BY <2>6, <3>2 DEF e
      <4>8. CASE k = "exempt"
        <5>1. /\ Cardinality(Counted(i, d, {"new"})') = Cardinality(Counted(i, d, {"new"}))
              /\ Cardinality(Counted(i, d, {"group"})') = Cardinality(Counted(i, d, {"group"}))
          BY <4>1, <4>8
        <5> QED BY <2>5, <3>1, <4>2, <4>5, <4>6, <4>7, <4>8, <5>1 DEF CountsAre
      <4>9. CASE k # "exempt"
        BY <2>5, <3>1, <4>2, <4>3, <4>4, <4>5, <4>6, <4>7, <4>9 DEF CountsAre
      <4> QED BY <4>8, <4>9
    <3>3. CASE ~(i = Inst(l) /\ d = Date(l))
      <4>1. \A K : Counted(i, d, K)' = Counted(i, d, K)
        BY <2>7, <3>3
      <4>2. GivenBack(i, d)' = GivenBack(i, d) /\ ledger'[i][d] = ledger[i][d]
        BY <2>6, <2>7, <3>3
      <4> QED BY <3>1, <4>1, <4>2 DEF CountsAre
    <3> QED BY <3>2, <3>3
  <2> QED BY <2>8 DEF CountersMatchUnits, CountsAre, GivenBack
<1> QED BY <1>1, <1>2

\* A refused reservation leaves the row as ensured.
LEMMA DeferLedger ==
    ASSUME TypeInv, NEW l \in Loops, Defer(l)
    PROVE  /\ Inst(l) \in Instances /\ Date(l) \in Dates /\ Transacts(l) /\ unit' = unit
           /\ Granted' = Granted /\ now' = now
           /\ \A i \in Instances, d \in Dates :
                ledger'[i][d] = IF i = Inst(l) /\ d = Date(l) THEN Ensured(l) ELSE ledger[i][d]
<1>1. Transacts(l) /\ unit' = unit /\ now' = now
      /\ ledger' = [ledger EXCEPT ![Inst(l)][Date(l)] = Ensured(l)]
  BY DEF Defer, Transacts
<1>2. Inst(l) \in Instances /\ Date(l) \in Dates
  BY <1>1, EnsuredType
<1> QED BY <1>1, <1>2 DEF TypeInv, TypeOK, Granted

\* Of the other steps none writes the ledger or a unit.
LEMMA LedgerQuiet ==
    ASSUME TypeInv, [Next]_vars, ~\E l \in Loops : Reserve(l) \/ Defer(l) \/ Refund(l)
    PROVE  UNCHANGED <<ledger, unit>> /\ Granted' = Granted
  BY DEF Next, Works, vars, Claim, GuardDisposes, GuardDefers, Snapshot, MediaDefers,
         PrecheckCancels, Send, Dies, Reap, Tick, Granted

LEMMA CountersStep ==
    ASSUME TypeInv, RefundInv, CountersMatchUnits, [Next]_vars
    PROVE  CountersMatchUnits'
<1>1. ASSUME NEW l \in Loops, Defer(l)
      PROVE  CountersMatchUnits'
  <2>1. ASSUME NEW i \in Instances, NEW d \in Dates
        PROVE  CountsAre(i, d, ledger[i][d])'
    <3>1. CountsAre(i, d, ledger'[i][d])
      <4>1. CountsAre(i, d, ledger[i][d])
        BY CountsAreAll
      <4>2. CountsAre(Inst(l), Date(l), Ensured(l))
        BY <1>1, DeferLedger, EnsuredCounts
      <4> QED BY <1>1, <4>1, <4>2, DeferLedger
    <3>2. unit' = unit /\ Granted' = Granted
      BY <1>1, DeferLedger
    <3> QED BY <3>1, <3>2 DEF CountsAre, Counted, GivenBack, UnitsOf
  <2> QED BY <2>1 DEF CountersMatchUnits, CountsAre, GivenBack
<1>2. CASE ~\E l \in Loops : Reserve(l) \/ Defer(l) \/ Refund(l)
  BY <1>2, LedgerQuiet, CountersQuiet
<1> QED BY <1>1, <1>2, ReserveMatch, RefundMatch

LEMMA CountersStart ==
    ASSUME Init
    PROVE  CountersMatchUnits
<1>1. Granted = {} /\ \A i \in Instances, d \in Dates : ledger[i][d] = NoRow
  BY DEF Init, Granted
<1>2. \A i, d : GivenBack(i, d) = {} /\ \A K : Counted(i, d, K) = {}
  BY <1>1 DEF GivenBack, Counted, UnitsOf
<1>3. Cardinality({}) = 0
  BY FS_EmptySet
<1>4. /\ NoRow.consumed = 0 /\ NoRow.new = 0 /\ NoRow.group = 0 /\ NoRow.system = 0
      /\ NoRow.refunds = 0
  BY DEF NoRow, Fresh
<1>5. \A i, d : CountsAre(i, d, NoRow)
  BY <1>2, <1>3, <1>4 DEF CountsAre
<1> QED BY <1>1, <1>5, CountsAreAll

-----------------------------------------------------------------------------
(* The hours. *)

\* A sound row is one: its eligible is a time.
LEMMA SoundIsRow ==
    ASSUME NEW i, NEW d, NEW r, r.eligible \in Int, HourSound(i, d, r)
    PROVE  r # NoRow
<1>1. r.eligible >= 0
  BY DEF HourSound
<1>2. NoRow.eligible = -1
  BY DEF NoRow, Fresh
<1> QED BY <1>1, <1>2

\* A row whose hour is counted as before, with no new paced unit and an eligible that is
\* later or that is yet to come, remains sound.
LEMMA SoundKept ==
    ASSUME TypeInv, TypeInv', NEW i \in Instances, NEW d \in Dates,
           NEW r \in Ledgers, HourSound(i, d, r),
           ledger'[i][d].key = r.key, ledger'[i][d].hour = r.hour,
           ledger'[i][d].eligible >= r.eligible \/ ledger'[i][d].eligible >= now, now <= now',
           \A h : PacedIn(i, d, h)' = PacedIn(i, d, h),
           \A n \in UnitsOf(i, d)' : Kind[unit'[n].job] \in Paced =>
               /\ n \in UnitsOf(i, d) /\ Kind[unit[n].job] \in Paced
               /\ unit'[n].hour = unit[n].hour
    PROVE  HourSound(i, d, ledger[i][d])'
<1> DEFINE q == ledger'[i][d]
<1>1. q.eligible \in Int /\ r.eligible \in Int /\ now \in Nat /\ now' \in Nat
  BY PacingAssumption DEF TypeInv, TypeOK, Ledgers
<1>2. PICK t \in 0 .. now : DateOf(t) = d /\ HourOf(t) = r.key /\ t <= r.eligible
  BY DEF HourSound
<1> HIDE DEF q
<1>3. t \in 0 .. now' /\ t <= q.eligible
  BY <1>1, <1>2 DEF q
<1>4. \E s \in 0 .. now' : DateOf(s) = d /\ HourOf(s) = q.key /\ s <= q.eligible
  BY <1>2, <1>3 DEF q
<1>5. \A n \in UnitsOf(i, d)' : Kind[unit'[n].job] \in Paced => unit'[n].hour <= q.key
  BY DEF HourSound, q
<1>6. q.hour = Cardinality({n \in UnitsOf(i, d)' :
                              unit'[n].hour = q.key /\ Kind[unit'[n].job] \in Paced})
  <2>1. PacedIn(i, d, r.key)'
          = {n \in UnitsOf(i, d)' : unit'[n].hour = r.key /\ Kind[unit'[n].job] \in Paced}
    BY DEF PacedIn
  <2>2. q.hour = Cardinality(PacedIn(i, d, r.key)') /\ q.key = r.key
    BY DEF HourSound, q
  <2> QED BY <2>1, <2>2
<1> QED BY <1>4, <1>5, <1>6 DEF HourSound, PacedIn, q

LEMMA EnsuredSound ==
    ASSUME TypeInv, HoursInv, NEW l \in Loops, Transacts(l)
    PROVE  HourSound(Inst(l), Date(l), Ensured(l))
<1>1. /\ loop[l].began \in 0 .. now /\ now \in Nat
      /\ Inst(l) \in Instances /\ Date(l) \in Dates
  BY EnsuredType, PacingAssumption
<1>2. CASE NoRowYet(Inst(l), Date(l))
  <2>1. UnitsOf(Inst(l), Date(l)) = {} /\ \A h : PacedIn(Inst(l), Date(l), h) = {}
    BY <1>1, <1>2 DEF HoursInv, NoRowYet, PacedIn
  <2>2. /\ Ensured(l).key = HourOf(loop[l].began) /\ Ensured(l).hour = 0
        /\ Ensured(l).eligible = loop[l].began
    BY <1>2 DEF Ensured, Fresh
  <2>3. Cardinality({}) = 0
    BY FS_EmptySet
  <2>4. loop[l].began <= loop[l].began
    BY <1>1
  <2> QED BY <1>1, <2>1, <2>2, <2>3, <2>4 DEF HourSound, Date
<1>3. CASE ~NoRowYet(Inst(l), Date(l))
  BY <1>1, <1>3 DEF HoursInv, NoRowYet, Ensured
<1> QED BY <1>2, <1>3

\* Whose paced units of an hour a reservation adds to.
LEMMA ReservePaced ==
    ASSUME TypeInv, NEW l \in Loops, Reserve(l)
    PROVE  LET n == Cardinality(Granted) + 1
               k == Kind[loop[l].job]
               h == HourOf(loop[l].began) IN
           /\ \A i, d, g : PacedIn(i, d, g)' =
                IF i = Inst(l) /\ d = Date(l) /\ g = h /\ k \in Paced
                THEN PacedIn(i, d, g) \cup {n} ELSE PacedIn(i, d, g)
           /\ \A i, d, g : n \notin PacedIn(i, d, g)
           /\ \A i, d : UnitsOf(i, d)' =
                IF i = Inst(l) /\ d = Date(l) THEN UnitsOf(i, d) \cup {n} ELSE UnitsOf(i, d)
           /\ \A m \in Granted : unit'[m] = unit[m]
           /\ Kind[unit'[n].job] = k /\ unit'[n].hour = h
<1> DEFINE n == Cardinality(Granted) + 1
           k == Kind[loop[l].job]
           h == HourOf(loop[l].began)
<1>1. /\ n \notin Granted /\ Granted' = Granted \cup {n}
      /\ \A m \in Granted : unit'[m] = unit[m]
      /\ unit'[n] = [job |-> loop[l].job, date |-> Date(l), hour |-> h, refunded |-> FALSE]
  BY ReserveUnit
<1>2. /\ unit'[n].date = Date(l) /\ Of[unit'[n].job] = Inst(l)
      /\ Kind[unit'[n].job] = k /\ unit'[n].hour = h
  BY <1>1 DEF Inst
<1> HIDE DEF n, k, h
<1>3. \A i, d : UnitsOf(i, d)' =
         IF i = Inst(l) /\ d = Date(l) THEN UnitsOf(i, d) \cup {n} ELSE UnitsOf(i, d)
  BY <1>1, <1>2 DEF UnitsOf
<1>4. \A i, d, g : n \notin PacedIn(i, d, g)
  BY <1>1 DEF PacedIn, UnitsOf
<1>5. \A i, d, g : PacedIn(i, d, g)' =
         IF i = Inst(l) /\ d = Date(l) /\ g = h /\ k \in Paced
         THEN PacedIn(i, d, g) \cup {n} ELSE PacedIn(i, d, g)
  <2> TAKE i, d, g
  <2>1. PacedIn(i, d, g)'
          = {m \in UnitsOf(i, d)' : unit'[m].hour = g /\ Kind[unit'[m].job] \in Paced}
    BY DEF PacedIn
  <2>2. \A m \in UnitsOf(i, d) : unit'[m] = unit[m]
    BY <1>1 DEF UnitsOf
  <2> QED BY <1>2, <1>3, <2>1, <2>2 DEF PacedIn
<1> QED BY <1>1, <1>2, <1>3, <1>4, <1>5 DEF n, k, h

LEMMA PacedFinite ==
    ASSUME TypeInv, NEW i, NEW d, NEW h
    PROVE  IsFiniteSet(PacedIn(i, d, h)) /\ Cardinality(PacedIn(i, d, h)) \in Nat
<1>1. PacedIn(i, d, h) \in SUBSET Granted
  BY DEF PacedIn, UnitsOf
<1> QED BY <1>1, GrantedFinite DEF TypeInv

\* What a row counts as sent this hour is, whether or not its hour is the present one.
LEMMA SentIsPaced ==
    ASSUME TypeInv, HoursInv, NEW l \in Loops, Transacts(l), GapPassed(Ensured(l), loop[l].began)
    PROVE  LET h == HourOf(loop[l].began) IN
           /\ SentThisHour(Ensured(l), loop[l].began)
                = Cardinality(PacedIn(Inst(l), Date(l), h))
           /\ Ensured(l).key <= h
<1> DEFINE h == HourOf(loop[l].began)
           e == Ensured(l)
           i == Inst(l)
           d == Date(l)
<1>1. /\ loop[l].began \in Nat /\ e \in Ledgers /\ i \in Instances /\ d \in Dates /\ now \in Nat
  BY EnsuredType, PacingAssumption
<1>2. HourSound(i, d, e)
  BY EnsuredSound
<1>3. PICK t \in 0 .. now : DateOf(t) = d /\ HourOf(t) = e.key /\ t <= e.eligible
  BY <1>2 DEF HourSound
<1>4. t \in Nat /\ t <= loop[l].began /\ DateOf(loop[l].began) = d
  BY <1>1, <1>3 DEF GapPassed, Ledgers, Date
<1>5. e.key <= h /\ h \in Nat /\ e.key \in Nat
  BY <1>1, <1>3, <1>4, HoursGoOn, Dating
<1>6. CASE e.key = h
  BY <1>2, <1>5, <1>6 DEF HourSound, SentThisHour
<1>7. CASE e.key # h
  <2>1. PacedIn(i, d, h) = {}
    <3>1. \A n \in UnitsOf(i, d) : n \in Granted /\ unit[n].hour \in Nat
      BY DEF UnitsOf, TypeInv, TypeOK, Units
    <3>2. \A n \in UnitsOf(i, d) : Kind[unit[n].job] \in Paced => unit[n].hour <= e.key
      BY <1>2 DEF HourSound
    <3> HIDE DEF h, e
    <3>3. \A n \in UnitsOf(i, d) : Kind[unit[n].job] \in Paced => unit[n].hour # h
      BY <1>5, <1>7, <3>1, <3>2
    <3> QED BY <3>3 DEF PacedIn
  <2>2. Cardinality({}) = 0
    BY FS_EmptySet
  <2> QED BY <1>5, <1>7, <2>1, <2>2 DEF SentThisHour
<1> QED BY <1>6, <1>7, <1>5

\* One row written, and sound: the others are as they were.
LEMMA HoursMove ==
    ASSUME TypeInv, TypeInv', HoursInv, NEW I \in Instances, NEW D \in Dates, now' = now,
           HourSound(I, D, ledger[I][D])',
           \A n \in Granted : unit'[n].hour = unit[n].hour /\ unit'[n].job = unit[n].job,
           \A i, d : ~(i = I /\ d = D) => UnitsOf(i, d)' = UnitsOf(i, d),
           \A i, d, h : ~(i = I /\ d = D) => PacedIn(i, d, h)' = PacedIn(i, d, h),
           \A i \in Instances, d \in Dates :
               ~(i = I /\ d = D) => ledger'[i][d] = ledger[i][d]
    PROVE  HoursInv'
<1>1. ASSUME NEW i \in Instances, NEW d \in Dates
      PROVE  /\ ledger'[i][d] # NoRow => HourSound(i, d, ledger[i][d])'
             /\ ledger'[i][d] = NoRow => UnitsOf(i, d)' = {}
  <2>1. ledger[i][d] \in Ledgers /\ ledger'[i][d] \in Ledgers /\ now \in Nat
    BY PacingAssumption DEF TypeInv, TypeOK
  <2>2. CASE i = I /\ d = D
    <3>1. ledger'[i][d].eligible >= 0
      BY <2>1, <2>2 DEF HourSound, Ledgers
    <3>2. NoRow.eligible = -1
      BY DEF NoRow, Fresh
    <3>3. ledger'[i][d] # NoRow
      BY <3>1, <3>2
    <3> QED BY <2>2, <3>3
  <2>3. CASE ~(i = I /\ d = D)
    <3>1. ledger'[i][d] = ledger[i][d] /\ UnitsOf(i, d)' = UnitsOf(i, d)
          /\ \A h : PacedIn(i, d, h)' = PacedIn(i, d, h)
      BY <2>3
    <3>2. ASSUME ledger[i][d] # NoRow
          PROVE  HourSound(i, d, ledger[i][d])'
      <4>1. HourSound(i, d, ledger[i][d])
        BY <3>2 DEF HoursInv
      <4>2. \A n \in UnitsOf(i, d) : unit'[n].hour = unit[n].hour /\ unit'[n].job = unit[n].job
        BY DEF UnitsOf
      <4>3. ledger'[i][d].eligible >= ledger[i][d].eligible /\ now <= now'
        BY <2>1, <3>1 DEF Ledgers
      <4> QED BY <2>1, <3>1, <4>1, <4>2, <4>3, SoundKept
    <3>3. ledger[i][d] = NoRow => UnitsOf(i, d) = {}
      BY DEF HoursInv
    <3> QED BY <3>1, <3>2, <3>3
  <2> QED BY <2>2, <2>3
<1> QED BY <1>1 DEF HoursInv

LEMMA ReserveHours ==
    ASSUME TypeInv, TypeInv', HoursInv, NEW l \in Loops, Reserve(l)
    PROVE  HoursInv'
<1> DEFINE k == Kind[loop[l].job]
           e == Ensured(l)
           c == Consumed(e, k, loop[l].began, loop[l].gap)
           n == Cardinality(Granted) + 1
<1>0. PICK I, D, b, h : I = Inst(l) /\ D = Date(l) /\ b = loop[l].began /\ h = HourOf(b)
  OBVIOUS
<1>1. Transacts(l) /\ now' = now /\ ledger' = [ledger EXCEPT ![I][D] = c] /\ Grants(l)
  BY <1>0 DEF Reserve, Transacts
<1>2. /\ I \in Instances /\ D \in Dates /\ e \in Ledgers /\ b \in 0 .. now /\ now \in Nat
      /\ loop[l].gap \in Nat /\ k \in {"plain", "new", "group", "exempt"}
  BY <1>0, <1>1, EnsuredType, PacingAssumption DEF TypeInv, TypeOK, LoopStates
<1>3. \A i \in Instances, d \in Dates :
         ledger'[i][d] = IF i = I /\ d = D THEN c ELSE ledger[i][d]
  BY <1>1, <1>2 DEF TypeInv, TypeOK
<1>4. HourSound(I, D, e)
  BY <1>0, <1>1, EnsuredSound
<1>5. /\ \A i, d, g : PacedIn(i, d, g)' =
            IF i = I /\ d = D /\ g = h /\ k \in Paced
            THEN PacedIn(i, d, g) \cup {n} ELSE PacedIn(i, d, g)
      /\ \A i, d, g : n \notin PacedIn(i, d, g)
      /\ \A i, d : UnitsOf(i, d)' =
            IF i = I /\ d = D THEN UnitsOf(i, d) \cup {n} ELSE UnitsOf(i, d)
      /\ \A m \in Granted : unit'[m] = unit[m]
      /\ Kind[unit'[n].job] = k /\ unit'[n].hour = h
  BY <1>0, ReservePaced
<1>6. k \in Paced <=> k # "exempt"
  BY <1>2, KindsOf
<1>7. HourSound(I, D, ledger[I][D])'
  <2>1. CASE k = "exempt"
    <3>1. c.key = e.key /\ c.hour = e.hour /\ c.eligible = e.eligible
      BY <1>0, <1>2, <2>1, ConsumedRow
    <3>2. ledger'[I][D] = c
      BY <1>2, <1>3
    <3>3. \A g : PacedIn(I, D, g)' = PacedIn(I, D, g)
      BY <1>5, <1>6, <2>1
    <3>4. ASSUME NEW m \in UnitsOf(I, D)', Kind[unit'[m].job] \in Paced
          PROVE  /\ m \in UnitsOf(I, D) /\ Kind[unit[m].job] \in Paced
                 /\ unit'[m].hour = unit[m].hour
      <4>1. m # n
        BY <1>5, <1>6, <2>1, <3>4
      <4>2. m \in UnitsOf(I, D)
        BY <1>5, <3>4, <4>1
      <4>3. unit'[m] = unit[m]
        BY <1>5, <4>2 DEF UnitsOf
      <4> QED BY <3>4, <4>2, <4>3
    <3>5. e.eligible >= e.eligible /\ now <= now'
      BY <1>1, <1>2 DEF Ledgers
    <3> HIDE DEF k, e, c, n
    <3> QED BY <1>2, <1>4, <3>1, <3>2, <3>3, <3>4, <3>5, SoundKept
  <2>2. CASE k # "exempt"
    <3>1. GapPassed(e, b)
      BY <1>0, <1>1, <2>2 DEF Grants, WithinCaps
    <3>2. SentThisHour(e, b) = Cardinality(PacedIn(I, D, h)) /\ e.key <= h
      BY <1>0, <1>1, <3>1, SentIsPaced
    <3>3. c.key = h /\ c.hour = SentThisHour(e, b) + 1 /\ c.eligible = b + loop[l].gap
      BY <1>0, <1>2, <2>2, ConsumedRow
    <3>4. ledger'[I][D] = c
      BY <1>2, <1>3
    <3>5. PacedIn(I, D, h)' = PacedIn(I, D, h) \cup {n} /\ n \notin PacedIn(I, D, h)
      BY <1>5, <1>6, <2>2
    <3>6. IsFiniteSet(PacedIn(I, D, h))
      BY PacedFinite
    <3> HIDE DEF n
    <3>7. Cardinality(PacedIn(I, D, h)') = Cardinality(PacedIn(I, D, h)) + 1
      BY <3>5, <3>6, OneMore
    <3>8. PacedIn(I, D, h)'
            = {m \in UnitsOf(I, D)' : unit'[m].hour = h /\ Kind[unit'[m].job] \in Paced}
      BY DEF PacedIn
    <3>9. \A m \in UnitsOf(I, D)' : Kind[unit'[m].job] \in Paced => unit'[m].hour <= h
      <4> SUFFICES ASSUME NEW m \in UnitsOf(I, D)', Kind[unit'[m].job] \in Paced
                   PROVE  unit'[m].hour <= h
        OBVIOUS
      <4>1. h \in Nat /\ e.key \in Nat
        BY <1>0, <1>2, Dating DEF Ledgers
      <4>2. CASE m = n
        BY <1>5, <4>1, <4>2
      <4>3. CASE m # n
        <5>1. m \in UnitsOf(I, D)
          BY <1>5, <4>3
        <5>2. unit'[m] = unit[m] /\ unit[m].hour \in Nat
          BY <1>5, <5>1 DEF UnitsOf, TypeInv, TypeOK, Units
        <5>3. unit[m].hour <= e.key
          BY <1>4, <5>1, <5>2 DEF HourSound
        <5> QED BY <3>2, <4>1, <5>2, <5>3
      <4> QED BY <4>2, <4>3
    <3>10. b \in 0 .. now' /\ DateOf(b) = D /\ b <= b + loop[l].gap
      BY <1>0, <1>1, <1>2 DEF Date
    <3> HIDE DEF k, e, c
    <3>11. \E t \in 0 .. now' : DateOf(t) = D /\ HourOf(t) = c.key /\ t <= c.eligible
      BY <1>0, <3>3, <3>10
    <3>12. c.hour = Cardinality({m \in UnitsOf(I, D)' :
                                   unit'[m].hour = h /\ Kind[unit'[m].job] \in Paced})
      BY <3>2, <3>3, <3>7, <3>8
    <3>13. /\ ledger'[I][D].key = h /\ ledger'[I][D].hour = c.hour
           /\ \E t \in 0 .. now' :
                DateOf(t) = D /\ HourOf(t) = ledger'[I][D].key /\ t <= ledger'[I][D].eligible
      BY <3>3, <3>4, <3>11
    <3> QED BY <3>9, <3>12, <3>13 DEF HourSound, PacedIn
  <2> QED BY <2>1, <2>2
<1>8. \A m \in Granted : unit'[m].hour = unit[m].hour /\ unit'[m].job = unit[m].job
  BY <1>5
<1> HIDE DEF k, e, c, n
<1> QED BY <1>1, <1>2, <1>3, <1>5, <1>7, <1>8, HoursMove

LEMMA RefundHours ==
    ASSUME TypeInv, TypeInv', RefundInv, HoursInv, NEW l \in Loops, Refund(l),
           ~UNCHANGED <<ledger, unit>>
    PROVE  HoursInv'
<1> DEFINE j == loop[l].job
           k == Kind[j]
           r == ledger[Inst(l)][Date(l)]
           c == Returned(r, k, loop[l].gap)
<1>0. PICK I, D : I = Inst(l) /\ D = Date(l)
  OBVIOUS
<1>1. /\ loop[l].pc = "refunding" /\ ~job[j].refunded /\ r # NoRow /\ now' = now
      /\ ledger' = [ledger EXCEPT ![I][D] = c]
      /\ unit' = [unit EXCEPT ![loop[l].unit].refunded = TRUE]
  BY <1>0 DEF Refund, RefundDate, NoRowYet
<1>2. j \in Jobs /\ loop[l].began \in Nat /\ loop[l].began <= now /\ now <= MaxTime
      /\ now \in Nat /\ loop[l].gap \in Nat
  BY <1>1, WorkType
<1>3. I \in Instances /\ D \in Dates
  BY <1>0, <1>1, <1>2, Dating, PacingAssumption DEF Inst, Date
<1>4. r \in Ledgers
  BY <1>0, <1>3 DEF TypeInv, TypeOK
<1>5. /\ c.key = r.key /\ c.hour = r.hour /\ c \in Ledgers
      /\ c.eligible >= r.eligible \/ c.eligible >= now
  <2>1. r.eligible >= r.eligible
    BY <1>4 DEF Ledgers
  <2> QED BY <1>2, <1>4, <2>1, ReturnedRow
<1>6. \A i \in Instances, d \in Dates :
         ledger'[i][d] = IF i = I /\ d = D THEN c ELSE ledger[i][d]
  BY <1>1, <1>3 DEF TypeInv, TypeOK
<1>7. /\ \A i, d : UnitsOf(i, d)' = UnitsOf(i, d)
      /\ \A n \in Granted : unit'[n].hour = unit[n].hour /\ unit'[n].job = unit[n].job
  BY <1>1, RefundCounts
<1>8. \A i, d, h : PacedIn(i, d, h)' = PacedIn(i, d, h)
  BY <1>7 DEF PacedIn, UnitsOf
<1>9. \A n \in UnitsOf(I, D)' : Kind[unit'[n].job] \in Paced =>
         /\ n \in UnitsOf(I, D) /\ Kind[unit[n].job] \in Paced
         /\ unit'[n].hour = unit[n].hour
  BY <1>7 DEF UnitsOf
<1>10. HourSound(I, D, r) /\ ledger'[I][D] = c /\ now <= now'
  BY <1>0, <1>1, <1>2, <1>3, <1>6 DEF HoursInv
<1> HIDE DEF j, k, r, c
<1>11. HourSound(I, D, ledger[I][D])'
  BY <1>3, <1>4, <1>5, <1>8, <1>9, <1>10, SoundKept
<1> QED BY <1>1, <1>3, <1>6, <1>7, <1>8, <1>11, HoursMove

\* Where the units are left alone and the rows with them, or ensured, time may pass.
LEMMA HoursQuiet ==
    ASSUME TypeInv, TypeInv', HoursInv, unit' = unit, now <= now', NEW i \in Instances,
           NEW d \in Dates, NEW r, HourSound(i, d, r), ledger'[i][d] = r, r \in Ledgers
    PROVE  HourSound(i, d, ledger[i][d])' /\ ledger'[i][d] # NoRow
<1>1. /\ UnitsOf(i, d)' = UnitsOf(i, d) /\ r.eligible >= r.eligible
      /\ \A h : PacedIn(i, d, h)' = PacedIn(i, d, h)
  <2>1. UnitsOf(i, d)' = UnitsOf(i, d) /\ Granted' = Granted
    BY UnitsQuiet
  <2> QED BY <2>1 DEF PacedIn, Ledgers
<1>2. \A n \in UnitsOf(i, d)' : Kind[unit'[n].job] \in Paced =>
         /\ n \in UnitsOf(i, d) /\ Kind[unit[n].job] \in Paced
         /\ unit'[n].hour = unit[n].hour
  BY <1>1
<1>3. HourSound(i, d, ledger[i][d])'
  BY <1>1, <1>2, SoundKept
<1>4. r # NoRow
  <2>1. r.eligible \in Int
    BY DEF Ledgers
  <2> QED BY <2>1, SoundIsRow
<1> QED BY <1>3, <1>4

LEMMA HoursStep ==
    ASSUME TypeInv, TypeInv', RefundInv, HoursInv, [Next]_vars
    PROVE  HoursInv'
<1>1. ASSUME NEW l \in Loops, Defer(l)
      PROVE  HoursInv'
  <2>1. /\ Inst(l) \in Instances /\ Date(l) \in Dates /\ Transacts(l) /\ unit' = unit
        /\ now' = now
        /\ \A i \in Instances, d \in Dates :
             ledger'[i][d] = IF i = Inst(l) /\ d = Date(l) THEN Ensured(l) ELSE ledger[i][d]
    BY <1>1, DeferLedger
  <2>2. HourSound(Inst(l), Date(l), Ensured(l)) /\ Ensured(l) \in Ledgers
    BY <2>1, EnsuredSound, EnsuredType
  <2>3. PICK I, D, e : I = Inst(l) /\ D = Date(l) /\ e = Ensured(l)
    OBVIOUS
  <2>4. now <= now'
    BY <2>1, PacingAssumption DEF TypeInv, TypeOK
  <2>5. HourSound(I, D, ledger[I][D])'
    BY <2>1, <2>2, <2>3, <2>4, HoursQuiet
  <2>6. /\ Granted' = Granted
        /\ \A i, d : UnitsOf(i, d)' = UnitsOf(i, d)
    BY <2>1, UnitsQuiet
  <2>7. \A i, d, h : PacedIn(i, d, h)' = PacedIn(i, d, h)
    BY <2>1, <2>6 DEF PacedIn
  <2> QED BY <2>1, <2>3, <2>5, <2>6, <2>7, HoursMove
<1>2. ASSUME UNCHANGED <<ledger, unit>>, now <= now'
      PROVE  HoursInv'
  <2> SUFFICES ASSUME NEW i \in Instances, NEW d \in Dates
               PROVE  /\ ledger'[i][d] # NoRow => HourSound(i, d, ledger[i][d])'
                      /\ ledger'[i][d] = NoRow => UnitsOf(i, d)' = {}
    BY DEF HoursInv
  <2>1. /\ ledger'[i][d] = ledger[i][d] /\ ledger[i][d] \in Ledgers
        /\ UnitsOf(i, d)' = UnitsOf(i, d)
    BY <1>2, UnitsQuiet DEF TypeInv, TypeOK
  <2>2. CASE ledger[i][d] = NoRow
    BY <2>1, <2>2 DEF HoursInv
  <2>3. CASE ledger[i][d] # NoRow
    <3>1. HourSound(i, d, ledger[i][d])
      BY <2>3 DEF HoursInv
    <3> QED BY <1>2, <2>1, <3>1, HoursQuiet
  <2> QED BY <2>2, <2>3
<1>3. now <= now'
  <2>1. now' = now \/ now' = now + 1
    BY DEF Next, Works, vars, Claim, GuardDisposes, GuardDefers, Snapshot, Reserve, Defer,
           MediaDefers, PrecheckCancels, Send, Refund, Dies, Reap, Tick
  <2> QED BY <2>1, PacingAssumption DEF TypeInv, TypeOK
<1>4. CASE ~\E l \in Loops : Reserve(l) \/ Defer(l) \/ Refund(l)
  BY <1>2, <1>3, <1>4, LedgerQuiet
<1> QED BY <1>1, <1>2, <1>3, <1>4, ReserveHours, RefundHours

LEMMA HoursStart ==
    ASSUME Init
    PROVE  HoursInv
<1>1. Granted = {} /\ \A i \in Instances, d \in Dates : ledger[i][d] = NoRow
  BY DEF Init, Granted
<1> QED BY <1>1 DEF HoursInv, UnitsOf

-----------------------------------------------------------------------------
(* The caps. *)

CapsAre(i, d) ==
    /\ Cardinality(Counted(i, d, Paced)) <= DailyCap
    /\ Cardinality(Counted(i, d, {"new"})) <= NewCap
    /\ Cardinality(Counted(i, d, {"group"})) <= GroupCap
    /\ \A h \in 0 .. HourOf(Day - 1) : Cardinality(PacedIn(i, d, h)) <= HourlyCap

LEMMA CapsAreAll == CapsKept <=> \A i \in Instances, d \in Dates : CapsAre(i, d)
  BY DEF CapsKept, CapsAre, PacedIn

LEMMA ReserveCaps ==
    ASSUME TypeInv, CountersMatchUnits, HoursInv, CapsKept, NEW l \in Loops, Reserve(l),
           NEW i \in Instances, NEW d \in Dates
    PROVE  CapsAre(i, d)'
<1> DEFINE k == Kind[loop[l].job]
           e == Ensured(l)
           n == Cardinality(Granted) + 1
<1>0. PICK b, g : b = loop[l].began /\ g = HourOf(b)
  OBVIOUS
<1>1. Transacts(l) /\ WithinCaps(e, k, b)
  BY <1>0 DEF Reserve, Grants, Transacts
<1>2. k \in {"plain", "new", "group", "exempt"}
  BY <1>1, EnsuredType, PacingAssumption
<1>3. CapsAre(i, d)
  BY CapsAreAll
<1>4. /\ \A K : IsFiniteSet(Counted(i, d, K)) /\ Cardinality(Counted(i, d, K)) \in Nat
      /\ \A h : IsFiniteSet(PacedIn(i, d, h)) /\ Cardinality(PacedIn(i, d, h)) \in Nat
  BY CountFinite, PacedFinite
<1>5. {DailyCap, NewCap, GroupCap, HourlyCap} \subseteq Nat
  BY PacingAssumption
<1>6. CASE i = Inst(l) /\ d = Date(l)
  <2>1. CountsAre(i, d, e)
    BY <1>1, <1>6, EnsuredCounts
  <2>2. \A K : Cardinality(Counted(i, d, K)') = Cardinality(Counted(i, d, K)) + One(k \in K)
    BY <1>6, ReserveCounts
  <2>3. \A h : PacedIn(i, d, h)' = IF h = g /\ k \in Paced
                                   THEN PacedIn(i, d, h) \cup {n} ELSE PacedIn(i, d, h)
    BY <1>0, <1>6, ReservePaced
  <2>4. \A h : n \notin PacedIn(i, d, h)
    BY ReservePaced
  <2>5. CASE k = "exempt"
    <3>1. \A K \in {Paced, {"new"}, {"group"}} : k \notin K
      BY <2>5 DEF Paced
    <3>2. \A K \in {Paced, {"new"}, {"group"}} :
             Cardinality(Counted(i, d, K)') = Cardinality(Counted(i, d, K))
      <4> TAKE K \in {Paced, {"new"}, {"group"}}
      <4>1. One(k \in K) = 0
        BY <3>1 DEF One
      <4> QED BY <1>4, <2>2, <4>1
    <3>3. \A h : PacedIn(i, d, h)' = PacedIn(i, d, h)
      BY <2>3, <3>1
    <3> QED BY <1>3, <3>2, <3>3 DEF CapsAre
  <2>6. CASE k # "exempt"
    <3>1. /\ GapPassed(e, b) /\ e.consumed < DailyCap /\ SentThisHour(e, b) < HourlyCap
          /\ k = "new" => e.new < NewCap
          /\ k = "group" => e.group < GroupCap
      BY <1>1, <2>6 DEF WithinCaps
    <3>2. SentThisHour(e, b) = Cardinality(PacedIn(i, d, g))
      BY <1>0, <1>1, <1>6, <3>1, SentIsPaced
    <3>3. /\ e.consumed = Cardinality(Counted(i, d, Paced))
          /\ e.new = Cardinality(Counted(i, d, {"new"}))
          /\ e.group = Cardinality(Counted(i, d, {"group"}))
      BY <2>1 DEF CountsAre
    <3> HIDE DEF k, e, n
    <3>4. Cardinality(Counted(i, d, Paced)') <= DailyCap
      <4>1. One(k \in Paced) = 1
        BY <1>2, <2>6, KindsOf DEF One
      <4> QED BY <1>4, <1>5, <2>2, <3>1, <3>3, <4>1
    <3>5. Cardinality(Counted(i, d, {"new"})') <= NewCap
      <4>1. Cardinality(Counted(i, d, {"new"}))
              + One(k = "new") <= NewCap
        BY <1>3, <1>4, <1>5, <3>1, <3>3 DEF CapsAre, One
      <4>2. One(k \in {"new"}) = One(k = "new")
        BY DEF One
      <4> QED BY <2>2, <4>1, <4>2
    <3>6. Cardinality(Counted(i, d, {"group"})') <= GroupCap
      <4>1. Cardinality(Counted(i, d, {"group"})) + One(k = "group") <= GroupCap
        BY <1>3, <1>4, <1>5, <3>1, <3>3 DEF CapsAre, One
      <4>2. One(k \in {"group"}) = One(k = "group")
        BY DEF One
      <4> QED BY <2>2, <4>1, <4>2
    <3>7. ASSUME NEW h \in 0 .. HourOf(Day - 1)
          PROVE  Cardinality(PacedIn(i, d, h)') <= HourlyCap
      <4>1. CASE h = g
        <5>1. PacedIn(i, d, h)' = PacedIn(i, d, h) \cup {n}
          BY <1>2, <2>3, <2>6, <4>1, KindsOf
        <5>2. Cardinality(PacedIn(i, d, h)') = Cardinality(PacedIn(i, d, h)) + 1
          BY <1>4, <2>4, <5>1, OneMore
        <5> QED BY <1>4, <1>5, <3>1, <3>2, <4>1, <5>2
      <4>2. CASE h # g
        <5>1. PacedIn(i, d, h)' = PacedIn(i, d, h)
          BY <2>3, <4>2
        <5> QED BY <1>3, <5>1 DEF CapsAre
      <4> QED BY <4>1, <4>2
    <3> QED BY <3>4, <3>5, <3>6, <3>7 DEF CapsAre
  <2> QED BY <2>5, <2>6
<1>7. CASE ~(i = Inst(l) /\ d = Date(l))
  <2>1. \A K : Cardinality(Counted(i, d, K)') = Cardinality(Counted(i, d, K))
    <3>1. \A K : Cardinality(Counted(i, d, K)') = Cardinality(Counted(i, d, K)) + 0
      BY <1>7, ReserveCounts DEF One
    <3> QED BY <1>4, <3>1
  <2>2. \A h : PacedIn(i, d, h)' = PacedIn(i, d, h)
    BY <1>7, ReservePaced
  <2> QED BY <1>3, <2>1, <2>2 DEF CapsAre
<1> QED BY <1>6, <1>7

LEMMA RefundCaps ==
    ASSUME TypeInv, RefundInv, CapsKept, NEW l \in Loops, Refund(l), ~UNCHANGED <<ledger, unit>>,
           NEW i \in Instances, NEW d \in Dates
    PROVE  CapsAre(i, d)'
<1>1. /\ loop[l].pc = "refunding" /\ ~job[loop[l].job].refunded
      /\ unit' = [unit EXCEPT ![loop[l].unit].refunded = TRUE]
  BY DEF Refund
<1>2. /\ \A c, e, K : Counted(c, e, K)' = Counted(c, e, K) \ {loop[l].unit}
      /\ \A c, e : UnitsOf(c, e)' = UnitsOf(c, e)
      /\ \A n \in Granted : unit'[n].hour = unit[n].hour /\ unit'[n].job = unit[n].job
  BY <1>1, RefundCounts
<1>3. CapsAre(i, d)
  BY CapsAreAll
<1>4. \A h : PacedIn(i, d, h)' = PacedIn(i, d, h)
  BY <1>2 DEF PacedIn, UnitsOf
<1>5. \A K : /\ Cardinality(Counted(i, d, K)') <= Cardinality(Counted(i, d, K))
             /\ Cardinality(Counted(i, d, K)') \in Nat /\ Cardinality(Counted(i, d, K)) \in Nat
  <2> TAKE K
  <2>1. IsFiniteSet(Counted(i, d, K)) /\ Counted(i, d, K)' \subseteq Counted(i, d, K)
    BY <1>2, CountFinite
  <2> QED BY <2>1, FS_Subset, FS_CardinalityType
<1>6. {DailyCap, NewCap, GroupCap} \subseteq Nat
  BY PacingAssumption
<1>7. /\ Cardinality(Counted(i, d, Paced)') <= DailyCap
      /\ Cardinality(Counted(i, d, {"new"})') <= NewCap
      /\ Cardinality(Counted(i, d, {"group"})') <= GroupCap
  BY <1>3, <1>5, <1>6 DEF CapsAre
<1> QED BY <1>3, <1>4, <1>7 DEF CapsAre

LEMMA CapsStep ==
    ASSUME TypeInv, RefundInv, CountersMatchUnits, HoursInv, CapsKept, [Next]_vars
    PROVE  CapsKept'
<1>1. ASSUME unit' = unit, NEW i \in Instances, NEW d \in Dates
      PROVE  CapsAre(i, d)'
  <2>1. CapsAre(i, d)
    BY CapsAreAll
  <2>2. \A h : PacedIn(i, d, h)' = PacedIn(i, d, h)
    BY <1>1, UnitsQuiet DEF PacedIn
  <2> QED BY <1>1, <2>1, <2>2, UnitsQuiet DEF CapsAre
<1>2. \/ \E l \in Loops : Reserve(l) \/ (Refund(l) /\ ~UNCHANGED <<ledger, unit>>)
      \/ unit' = unit
  <2>1. \A l \in Loops : Defer(l) => unit' = unit
    BY DEF Defer
  <2> QED BY <2>1, LedgerQuiet
<1>3. \A i \in Instances, d \in Dates : CapsAre(i, d)'
  BY <1>1, <1>2, ReserveCaps, RefundCaps
<1> QED BY <1>3 DEF CapsKept, CapsAre, PacedIn

LEMMA CapsStart ==
    ASSUME Init
    PROVE  CapsKept
<1>1. Granted = {}
  BY DEF Init, Granted
<1>2. \A i, d : (\A K : Counted(i, d, K) = {}) /\ (\A h : PacedIn(i, d, h) = {})
  BY <1>1 DEF Counted, PacedIn, UnitsOf
<1>3. Cardinality({}) = 0
  BY FS_EmptySet
<1>4. \A n \in {DailyCap, NewCap, GroupCap, HourlyCap} : 0 <= n
  BY PacingAssumption
<1>5. \A i, d : CapsAre(i, d)
  BY <1>2, <1>3, <1>4 DEF CapsAre
<1> QED BY <1>5, CapsAreAll

-----------------------------------------------------------------------------
(* The theorems. *)

LEMMA Begin == ASSUME Init PROVE PacingInv
<1>1. TypeInv
  BY TypesStart
<1>2. RefundInv
  BY DEF Init, RefundInv, UnitsKnown, LastUnits, RefundIsLast, Granted, Idle
<1> QED BY <1>1, <1>2, CountersStart, PlanStart, HoursStart, CapsStart DEF PacingInv

LEMMA Step == ASSUME PacingInv, [Next]_vars PROVE PacingInv'
<1>1. TypeInv'
  BY TypesStep DEF PacingInv
<1>2. RefundInv'
  BY RefundStep DEF PacingInv
<1>3. CountersMatchUnits'
  BY CountersStep DEF PacingInv
<1>4. PlanInv'
  BY PlanStep DEF PacingInv
<1>5. HoursInv'
  BY <1>1, HoursStep DEF PacingInv
<1>6. CapsKept'
  BY CapsStep DEF PacingInv
<1> QED BY <1>1, <1>2, <1>3, <1>4, <1>5, <1>6 DEF PacingInv

\* In every behaviour of the loops and of time the inductive invariant holds.
THEOREM Invariance == Spec => []PacingInv
<1>1. Init => PacingInv
  BY Begin
<1>2. PacingInv /\ [Next]_vars => PacingInv'
  BY Step
<1> QED BY <1>1, <1>2, PTL DEF Spec

\* Every variable keeps its type, and a job has a lease exactly while it is processed:
\* the claim sets the two together and deferJob, the precheck, the send and the reaper
\* clear them together.
THEOREM TypeCorrect == Spec => []TypeOK
<1>1. PacingInv => TypeOK
  BY DEF PacingInv, TypeInv
<1> QED BY <1>1, Invariance, PTL

\* The counters of a row of pacing_ledger are the units that reserve-pacing granted on its
\* date less those that release-pacing took back, in whatever order the transactions of
\* the loops commit: the GREATEST(0, ..) of a refund never hides a count that is too low.
THEOREM CountersMatch == Spec => []CountersMatchUnits
<1>1. PacingInv => CountersMatchUnits
  BY DEF PacingInv
<1> QED BY <1>1, Invariance, PTL

\* reserve-pacing never grants an instance more in a day or hour than its caps, although
\* the hour of a row may be that of a transaction that began later and committed first.
THEOREM CapsAreKept == Spec => []CapsKept
<1>1. PacingInv => CapsKept
  BY DEF PacingInv
<1> QED BY <1>1, Invariance, PTL

\* usage_bump counts every unit of the day, and however the snapshots of the reservations
\* overlap it passes the plan's cap by less than the number of loops.
THEOREM PlanIsNearlyKept == Spec => []PlanNearlyKept
<1>1. PacingInv => PlanNearlyKept
  BY PlanKept DEF PacingInv
<1> QED BY <1>1, Invariance, PTL

\* refundPacingUnitAfterPrecheckCancel gives back the unit of a job that is cancelled and
\* was granted none since, though the loop may have lost the lease of the job after that
\* unit was granted and a second loop have claimed the job.
THEOREM RefundsAreLast == Spec => []RefundIsLast
<1>1. PacingInv => RefundIsLast
  BY DEF PacingInv, RefundInv
<1> QED BY <1>1, Invariance, PTL
=============================================================================
