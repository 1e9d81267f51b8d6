----------------------------- MODULE SendQueue -----------------------------
(***************************************************************************)
(* The life of one message job.  Send loops claim it under a lease, record *)
(* an attempt, send it and settle the outcome.  The reaper repairs what a  *)
(* crash leaves behind, the echo reconciler decides what the reaper cannot *)
(* and a human decides the rest.  The wallet is debited with the           *)
(* settlement, or later through the charge list or check B.                *)
(*                                                                         *)
(* Jobs meet only in the evidence of their echoes (a sibling with the same *)
(* content is a choice of the reconciler's scan) and in the pause of their *)
(* instance, so one job is modelled.  Whatever makes a queued job due,     *)
(* funded and allowed under the fence is the environment's choice.         *)
(*                                                                         *)
(* Time matters in units of ten minutes: the reconcile window and the      *)
(* grace of check B are one unit, the window of the scan is two.           *)
(***************************************************************************)
EXTENDS QueueStore, FiniteSets

CONSTANTS
    Workers,      \* the send loops that may claim the job
    MaxRetries,   \* bound: how often a human retries it
    Stalls,       \* a loop may stall for longer than its lease and the grace
    Outages       \* the cron role may be down for ten minutes

ASSUME LoopAssumption ==
    /\ MaxRetries \in Nat
    /\ Stalls \in BOOLEAN /\ Outages \in BOOLEAN

VARIABLES
    job,      \* the message_jobs row
    att,      \* att[n]: the send_attempts row with attempt_no n
    loop,     \* loop[w]: w's send loop, by the await it is suspended in
    wire,     \* messages on their way, delivered, and the ids kept of them
    wallet,   \* the job's guard rows and its entries of the charge list
    reaper,   \* the swept row whose effects are still to be applied
    recon,    \* the candidate the echo reconciler works on
    check,    \* the missing debit check B works on
    paused,   \* the instance is paused
    retries   \* retries asked for by a human so far

store == <<job, att, wire, wallet>>
cron  == <<reaper, recon, check>>
vars  == <<store, loop, cron, paused, retries>>

-----------------------------------------------------------------------------
(*   claimed   the claim committed, the prechecks and prepare next         *)
(*   prepared  the attempt row is in, markDispatched next                  *)
(*   sending   transport.send raced against the send timeout               *)
(*   acking    sent; the attempt row next   charging  then job and wallet  *)
(*   failing   refused or timed out; the row next   settling  then the job *)
Loops == [pc : {"idle", "claimed", "prepared", "sending", "acking",
                "charging", "failing", "settling"},
          lease : Leases \cup {NoLease}, no : Nat, class : Classes]

Idle == [pc |-> "idle", lease |-> NoLease, no |-> 0, class |-> "none"]

Reapers == [pc : {"idle", "sent", "failed"}, no : Counts, class : Classes]
NoReap  == [pc |-> "idle", no |-> 0, class |-> "none"]

Recons  == [pc : {"idle", "found", "ambiguous", "expired", "resolve", "sink"},
            no : Counts, echo : Counts, sibling : BOOLEAN]
NoRecon == [pc |-> "idle", no |-> 0, echo |-> 0, sibling |-> FALSE]

Checks  == [no : Counts, sent : BOOLEAN]
NoCheck == [no |-> 0, sent |-> FALSE]

TypeOK ==
    /\ job \in Jobs
    /\ att \in [Nos -> Attempts]
    /\ loop \in [Workers -> Loops]
    /\ wire \in Wires
    /\ wallet \in Wallets
    /\ reaper \in Reapers /\ recon \in Recons /\ check \in Checks
    /\ paused \in BOOLEAN
    /\ retries \in 0 .. MaxRetries

Init ==
    /\ job = [status |-> "queued", lease |-> NoLease, expired |-> FALSE,
              attempts |-> 0]
    /\ att = [n \in Nos |-> NoAttempt]
    /\ loop = [w \in Workers |-> Idle]
    /\ wire = [flying |-> {}, delivered |-> {}, echoes |-> {}, owned |-> {}]
    /\ wallet = [debits |-> {}, adjusted |-> {}, pending |-> {}]
    /\ reaper = NoReap /\ recon = NoRecon /\ check = NoCheck
    /\ paused = FALSE
    /\ retries = 0

-----------------------------------------------------------------------------
(* The send loop. *)

At(w, pc)       == loop[w].pc = pc
MovesTo(w, pc)  == loop' = [loop EXCEPT ![w].pc = pc]
FailsAs(w, c)   == loop' = [loop EXCEPT ![w].pc = "failing", ![w].class = c]
Ends(w)         == loop' = [loop EXCEPT ![w] = Idle]
OthersUnchanged == UNCHANGED <<cron, paused, retries>>

\* gen_random_uuid(): a lease id nothing remembers; the least, to tell no two
\* choices apart.
Forgotten == Leases \ ({job.lease} \cup {att[n].lease : n \in Nos}
                         \cup {loop[w].lease : w \in Workers})

\* Mutant of Claim: the lease of the last claim is used again.
ClaimSameLease(w) ==
    /\ At(w, "idle") /\ job.status = "queued" /\ ~paused
    /\ \E l \in IF job.lease = NoLease THEN Forgotten ELSE {job.lease} :
        /\ job' = Claimed(job, l)
        /\ loop' = [loop EXCEPT ![w] = [Idle EXCEPT !.pc = "claimed",
                                  !.lease = l, !.no = job.attempts + 1]]
    /\ UNCHANGED <<att, wire, wallet>> /\ OthersUnchanged

\* claimOne: a due job of a connected instance, and its pacing reservation.
Claim(w) ==
    /\ At(w, "idle") /\ job.status = "queued" /\ ~paused
    /\ \E l \in Forgotten :
        /\ \A k \in Forgotten : l <= k
        /\ job' = Claimed(job, l)
        /\ loop' = [loop EXCEPT ![w] = [Idle EXCEPT !.pc = "claimed",
                                  !.lease = l, !.no = job.attempts + 1]]
    /\ UNCHANGED <<att, wire, wallet>> /\ OthersUnchanged

\* resolveMediaOrDefer puts the job back; runOptOutPrecheck cancels it.  Both
\* under the lease: if it is lost, media is deferred all the same and the
\* precheck lets prepare find out.
MediaDefers(w) ==
    /\ At(w, "claimed")
    /\ job' = IF Holds(job, loop[w].lease) THEN Unleased(job, "queued") ELSE job
    /\ Ends(w)
    /\ UNCHANGED <<att, wire, wallet>> /\ OthersUnchanged

OptOut(w) ==
    /\ At(w, "claimed") /\ Holds(job, loop[w].lease)
    /\ job' = Unleased(job, "cancelled")
    /\ Ends(w)
    /\ UNCHANGED <<att, wire, wallet>> /\ OthersUnchanged

\* The insert finds no row of this number, the increment finds the lease and
\* keeps within mj_attempts_range.
Preparable(w) ==
    /\ loop[w].no \in Nos /\ att[loop[w].no].state = "none"
    /\ job.lease = loop[w].lease /\ job.attempts <= MaxAttempts

Prepare(w) ==
    /\ At(w, "claimed") /\ Preparable(w)
    /\ att' = [att EXCEPT ![loop[w].no] =
                 [NoAttempt EXCEPT !.state = "prepared", !.lease = loop[w].lease]]
    /\ job' = [job EXCEPT !.attempts = @ + 1]
    /\ MovesTo(w, "prepared")
    /\ UNCHANGED <<wire, wallet>> /\ OthersUnchanged

\* DispatchAlreadyRecorded, ClaimLostBeforeDispatch or a check violation.
PrepareFails(w) ==
    /\ At(w, "claimed") /\ ~Preparable(w)
    /\ Ends(w)
    /\ UNCHANGED store /\ OthersUnchanged

\* markDispatched asks for nothing but the row; then the send begins.
Dispatch(w) ==
    /\ At(w, "prepared")
    /\ att' = [att EXCEPT ![loop[w].no] = Stated(@, "dispatched")]
    /\ wire' = [wire EXCEPT !.flying = @ \cup {loop[w].no}]
    /\ MovesTo(w, "sending")
    /\ UNCHANGED <<job, wallet>> /\ OthersUnchanged

\* startHeartbeat extends lease_expires_at while the send is under way.
Extend(w) ==
    /\ At(w, "sending") /\ Holds(job, loop[w].lease) /\ job.expired
    /\ job' = [job EXCEPT !.expired = FALSE]
    /\ UNCHANGED <<att, wire, wallet, loop>> /\ OthersUnchanged

\* WhatsApp takes a message, perhaps long after its sender gave up on it.
Deliver(n) ==
    /\ n \in wire.flying
    /\ wire' = [wire EXCEPT !.flying = @ \ {n}, !.delivered = @ \cup {n}]
    /\ UNCHANGED <<job, att, wallet, loop>> /\ OthersUnchanged

Acked(w) ==
    /\ At(w, "sending") /\ loop[w].no \in wire.delivered
    /\ MovesTo(w, "acking")
    /\ UNCHANGED store /\ OthersUnchanged

\* A refusal of a known class says that the message was not taken; class
\* unknown, which a timeout is given too, says nothing.
Refused(w) ==
    /\ At(w, "sending") /\ loop[w].no \in wire.flying
    /\ \E c \in {"transient", "permanent"} : FailsAs(w, c)
    /\ wire' = [wire EXCEPT !.flying = @ \ {loop[w].no}]
    /\ UNCHANGED <<job, att, wallet>> /\ OthersUnchanged

TimesOut(w) ==
    /\ At(w, "sending")
    /\ FailsAs(w, "unknown")
    /\ UNCHANGED store /\ OthersUnchanged

\* resolveAck, first transaction: markAttempt asks for nothing but the row.
RecordAck(w) ==
    /\ At(w, "acking")
    /\ att' = [att EXCEPT ![loop[w].no] = Stated(@, "acked")]
    /\ MovesTo(w, "charging")
    /\ UNCHANGED <<job, wire, wallet>> /\ OthersUnchanged

\* Second transaction: job, debit and id together, or none of them.
SettleAck(w) ==
    LET n == loop[w].no
    IN /\ At(w, "charging")
       /\ IF Holds(job, loop[w].lease) /\ Insertable(wire, n)
          THEN /\ job' = Become(job, "sent")
               /\ wallet' = Debit(wallet, n)
               /\ wire' = Own(wire, n)
          ELSE UNCHANGED <<job, wallet, wire>>
       /\ Ends(w)
       /\ UNCHANGED att /\ OthersUnchanged

\* resolveFailure, the same two transactions.
RecordFailure(w) ==
    /\ At(w, "failing")
    /\ att' = [att EXCEPT ![loop[w].no] =
                 [Stated(@, "failed") EXCEPT !.class = loop[w].class]]
    /\ MovesTo(w, "settling")
    /\ UNCHANGED <<job, wire, wallet>> /\ OthersUnchanged

SettleFailure(w) ==
    LET c == loop[w].class
    IN /\ At(w, "settling")
       /\ IF Holds(job, loop[w].lease)
          THEN /\ job' = Become(job, AfterFailure(c, loop[w].no))
               /\ paused' = (paused \/ c = "unknown")
          ELSE UNCHANGED <<job, paused>>
       /\ Ends(w)
       /\ UNCHANGED <<att, wire, wallet, cron, retries>>

\* The process dies, or a statement throws out of the iteration.
Abandon(w) ==
    /\ ~At(w, "idle")
    /\ Ends(w)
    /\ UNCHANGED store /\ OthersUnchanged

-----------------------------------------------------------------------------
(* The reaper. *)

Tended == \E w \in Workers : loop[w].lease # NoLease /\ loop[w].lease = job.lease

\* The lease and the grace run out.
Expire ==
    /\ job.status = "processing" /\ ~job.expired
    /\ Stalls \/ ~Tended
    /\ job' = [job EXCEPT !.expired = TRUE]
    /\ UNCHANGED <<att, wire, wallet, loop>> /\ OthersUnchanged

\* Mutant: an inner join.
MatchesRowOnly(n) == n # 0 /\ att[n].lease = job.lease

\* The LEFT JOIN on lease_id: the number of the attempt, 0 for none.
Matches(n) == IF n = 0 THEN \A m \in Nos : att[m].lease # job.lease
                       ELSE att[n].lease = job.lease

StateOf(n) == IF n = 0 THEN "none" ELSE att[n].state

\* wp_reap_expired_leases; what is left to do for the row is in reaper.
Reap ==
    /\ reaper = NoReap
    /\ job.status = "processing" /\ job.expired
    /\ \E n \in Counts :
        /\ Matches(n) /\ StateOf(n) \notin Decided
        /\ job' = Reaped(job, StateOf(n))
        /\ reaper' = CASE StateOf(n) = "acked" -> [NoReap EXCEPT !.pc = "sent", !.no = n]
                       [] StateOf(n) = "failed" ->
                            [pc |-> "failed", no |-> n, class |-> att[n].class]
                       [] OTHER -> NoReap
    /\ UNCHANGED <<att, wire, wallet, loop, recon, check, paused, retries>>

\* applyRepairedSent.
ReapedSent ==
    /\ reaper.pc = "sent"
    /\ wallet' \in Enqueue(wallet, reaper.no)
    /\ reaper' = NoReap
    /\ UNCHANGED <<job, att, wire, loop, recon, check, paused, retries>>

\* reclassifyReapedFailure; the pause does not depend on the job's status.
ReapedFailed ==
    /\ reaper.pc = "failed"
    /\ job' = IfUnresolved(job, AfterFailure(reaper.class, reaper.no))
    /\ paused' = (paused \/ reaper.class = "unknown")
    /\ reaper' = NoReap
    /\ UNCHANGED <<att, wire, wallet, loop, recon, check, retries>>

-----------------------------------------------------------------------------
(* The echo reconciler. *)

\* captureEchoIfFromMe; a row that is owned is left alone.
EchoCaptured(n) ==
    /\ n \in wire.delivered \ (wire.echoes \cup wire.owned)
    /\ wire' = [wire EXCEPT !.echoes = @ \cup {n}]
    /\ UNCHANGED <<job, att, wallet, loop>> /\ OthersUnchanged

\* Mutant: the scan reaches no further back than the window itself.
InScanOneWindow(a) == a.state = "dispatched" /\ a.age < 1

\* SCAN_WINDOW_MULTIPLIER is 2.
InScan(a) == a.state = "dispatched" /\ a.age < 2

\* wp_reconcile_scan_unresolved, with or without a sibling in flight.
RecScan(n) ==
    /\ recon = NoRecon
    /\ job.status = "needs_reconcile" /\ InScan(att[n])
    /\ \E s \in BOOLEAN :
         recon' = [NoRecon EXCEPT !.pc = "found", !.no = n, !.sibling = s]
    /\ UNCHANGED <<store, loop, reaper, check, paused, retries>>

\* decideReconciliation, on the evidence that lies within the tolerance.
RecDecide ==
    /\ recon.pc = "found"
    /\ \E seen \in SUBSET wire.echoes :
         recon' =
           IF recon.sibling \/ \E e, f \in seen : e # f
           THEN [recon EXCEPT !.pc = "ambiguous"]
           ELSE IF seen # {}
           THEN [recon EXCEPT !.pc = "resolve", !.echo = CHOOSE e \in Nos : e \in seen]
           ELSE IF att[recon.no].age >= 1
           THEN [recon EXCEPT !.pc = "expired"] ELSE NoRecon
    /\ UNCHANGED <<store, loop, reaper, check, paused, retries>>

\* applyAmbiguous.
RecAmbiguous ==
    /\ recon.pc = "ambiguous"
    /\ job' = IfUnresolved(job, "blocked_needs_review")
    /\ recon' = NoRecon
    /\ UNCHANGED <<att, wire, wallet, loop, reaper, check, paused, retries>>

\* applyExpired: the attempt is abandoned whatever has become of it.
RecExpired ==
    /\ recon.pc = "expired"
    /\ att' = [att EXCEPT ![recon.no] = Stated(@, "abandoned")]
    /\ job' = IfUnresolved(job, "blocked_needs_review")
    /\ recon' = NoRecon
    /\ UNCHANGED <<wire, wallet, loop, reaper, check, paused, retries>>

\* applyResolve: the evidence has an owner by now or is still unambiguous, or
\* a second look finds it otherwise.
RecResolve ==
    LET e == recon.echo
    IN /\ recon.pc = "resolve"
       /\ \/ /\ e \in wire.owned \/ (wire.owned = {} /\ e \in wire.echoes)
             /\ wire' = Own(wire, e)
             /\ att' = [att EXCEPT ![recon.no] = Stated(@, "reconciled_sent")]
             /\ job' = IfUnresolved(job, "sent")
             /\ recon' = [recon EXCEPT !.pc = "sink"]
          \/ /\ e \notin wire.owned
             /\ job' = IfUnresolved(job, "blocked_needs_review")
             /\ recon' = NoRecon
             /\ UNCHANGED <<wire, att>>
       /\ UNCHANGED <<wallet, loop, reaper, check, paused, retries>>

RecSink ==
    /\ recon.pc = "sink"
    /\ wallet' \in Enqueue(wallet, recon.no)
    /\ recon' = NoRecon
    /\ UNCHANGED <<job, att, wire, loop, reaper, check, paused, retries>>

-----------------------------------------------------------------------------
(* The wallet. *)

\* drainOnce takes an entry from the list; a failed charge is not put back.
ChargeDrain(n) ==
    /\ n \in wallet.pending
    /\ LET rest == [wallet EXCEPT !.pending = @ \ {n}]
       IN wallet' \in {rest, DebitRepaired(rest, n, att[n], job)}
    /\ UNCHANGED <<job, att, wire, loop>> /\ OthersUnchanged

\* Mutant: check B without its grace.
MissingAtOnce(n) ==
    /\ Chargeable(att[n])
    /\ n \notin wallet.debits \cup wallet.adjusted

\* wp_wallet_check_missing_debits: a settled attempt without a guard row, past
\* the grace.
Missing(n) ==
    /\ Chargeable(att[n]) /\ att[n].age >= 1
    /\ n \notin wallet.debits \cup wallet.adjusted

CheckScan(n) ==
    /\ check = NoCheck /\ Missing(n)
    /\ check' = [no |-> n, sent |-> job.status = "sent"]
    /\ UNCHANGED <<store, loop, reaper, recon, paused, retries>>

Correction(n, sent) ==
    IF sent THEN DebitRepaired(wallet, n, att[n], job) ELSE Adjust(wallet, n, att[n])

\* And corrects it by the status it saw, up to a daily cap.
CheckCharge ==
    /\ check # NoCheck
    /\ \/ wallet' = Correction(check.no, check.sent)
       \/ ~check.sent /\ UNCHANGED wallet
    /\ check' = NoCheck
    /\ UNCHANGED <<job, att, wire, loop, reaper, recon, paused, retries>>

\* A sweep throws, or its process dies, with the rest of the row undone.
SweepDies ==
    /\ \/ reaper # NoReap /\ reaper' = NoReap /\ UNCHANGED <<recon, check>>
       \/ recon # NoRecon /\ recon' = NoRecon /\ UNCHANGED <<reaper, check>>
       \/ check # NoCheck /\ check' = NoCheck /\ UNCHANGED <<reaper, recon>>
    /\ UNCHANGED <<store, loop, paused, retries>>

-----------------------------------------------------------------------------
(* People, drain and time. *)

\* retryUnresolved: the last dispatched attempt is given up.
RetryUnresolved ==
    LET open == {n \in Nos : att[n].state = "dispatched"}
    IN /\ job.status = "blocked_needs_review" /\ retries < MaxRetries
       /\ att' = [n \in Nos |->
                    IF n \in open /\ \A m \in open : m <= n
                    THEN Stated(att[n], "reconciled_lost") ELSE att[n]]
       /\ job' = Become(job, "queued")
       /\ retries' = retries + 1
       /\ UNCHANGED <<wire, wallet, loop, cron, paused>>

\* discardUnresolved, and the cancellation of a queued job.
Discard ==
    /\ job.status \in {"blocked_needs_review", "queued"}
    /\ job' = Become(job, "cancelled")
    /\ UNCHANGED <<att, wire, wallet, loop>> /\ OthersUnchanged

Resume ==
    /\ paused
    /\ paused' = FALSE
    /\ UNCHANGED <<store, loop, cron, retries>>

\* markNeedsReconcile of a draining worker: the lease stays.
DrainMark ==
    /\ job.status = "processing"
    /\ job' = Become(job, "needs_reconcile")
    /\ UNCHANGED <<att, wire, wallet, loop>> /\ OthersUnchanged

\* Nothing the loops or the cron role would have done by now is left.
CaughtUp ==
    /\ job.status # "processing"
    /\ \A w \in Workers : At(w, "idle")
    /\ reaper = NoReap /\ recon = NoRecon /\ wallet.pending = {}
    /\ job.status = "needs_reconcile" =>
         \A n \in Nos : att[n].state = "dispatched" => att[n].age < 1

Older(a) == IF a.state # "none" /\ a.age < 2 THEN [a EXCEPT !.age = @ + 1] ELSE a

TenMinutes ==
    /\ Outages \/ CaughtUp
    /\ \E n \in Nos : Older(att[n]) # att[n]
    /\ att' = [n \in Nos |-> Older(att[n])]
    /\ UNCHANGED <<job, wire, wallet, loop>> /\ OthersUnchanged

-----------------------------------------------------------------------------
Loop(w) ==
    \/ Claim(w) \/ MediaDefers(w) \/ OptOut(w) \/ Prepare(w) \/ PrepareFails(w)
    \/ Dispatch(w) \/ Extend(w) \/ Acked(w) \/ Refused(w) \/ TimesOut(w)
    \/ RecordAck(w) \/ SettleAck(w) \/ RecordFailure(w) \/ SettleFailure(w)
    \/ Abandon(w)

Cron ==
    \/ Reap \/ ReapedSent \/ ReapedFailed
    \/ RecDecide \/ RecAmbiguous \/ RecExpired \/ RecResolve \/ RecSink
    \/ CheckCharge \/ SweepDies
    \/ \E n \in Nos : RecScan(n) \/ ChargeDrain(n) \/ CheckScan(n)

Next ==
    \/ \E w \in Workers : Loop(w)
    \/ \E n \in Nos : Deliver(n) \/ EchoCaptured(n)
    \/ Cron
    \/ RetryUnresolved \/ Discard \/ Resume \/ DrainMark
    \/ Expire \/ TenMinutes

Spec == Init /\ [][Next]_vars

\* A loop that has claimed goes on, the send timeout included.
Proceeds(w) ==
    \/ Prepare(w) \/ PrepareFails(w) \/ Dispatch(w) \/ Acked(w) \/ TimesOut(w)
    \/ RecordAck(w) \/ SettleAck(w) \/ RecordFailure(w) \/ SettleFailure(w)

\* The sweeps run on intervals that nothing switches off, and none dies for ever.
FairSpec ==
    /\ Spec
    /\ \A w \in Workers : WF_vars(Proceeds(w))
    /\ WF_vars(Expire) /\ WF_vars(Reap) /\ WF_vars(ReapedSent \/ ReapedFailed)
    /\ SF_vars(\E n \in Nos : RecScan(n)) /\ SF_vars(RecDecide)
    /\ SF_vars(RecAmbiguous \/ RecExpired \/ RecResolve) /\ WF_vars(RecSink)
    /\ WF_vars(\E n \in Nos : ChargeDrain(n))
    /\ SF_vars(\E n \in Nos : CheckScan(n)) /\ SF_vars(CheckCharge)
    /\ SF_vars(TenMinutes)

-----------------------------------------------------------------------------
(* Safety. *)

\* message_jobs.attempts counts the rows of send_attempts: the numbers used
\* are the first ones, whatever crashed, was reaped or came late in between.
AttemptsMatchRows ==
    \A n \in Nos : att[n].state # "none" <=> n <= job.attempts

\* The LEFT JOIN of wp_reap_expired_leases is on lease_id alone: no two
\* attempts of the job may share a lease, or the reaper judges by either.
OneAttemptPerLease ==
    \A m, n \in Nos :
        m # n /\ att[m].state # "none" /\ att[n].state # "none"
            => att[m].lease # att[n].lease

\* A job is called sent, by its loop, the reaper or the reconciler, only when
\* WhatsApp has taken one of its messages.
SentWasDelivered == job.status = "sent" => wire.delivered # {}

\* However a debit came about, it is for a message WhatsApp took: never more
\* attempts are paid for than messages were taken, unless a human retried a
\* message that had arrived.
PaidForDelivered ==
    retries = 0 =>
        Cardinality(wallet.debits \cup wallet.adjusted) <= Cardinality(wire.delivered)

\* No attempt is paid for both by its debit and by an adjustment, which have
\* guards of different kinds and so do not exclude each other.
ChargedOnce == wallet.debits \cap wallet.adjusted = {}

\* Nothing the system does by itself sends a message again that was taken:
\* its send failed as unknown, or a human asked for the retry.
NoBlindResend ==
    \A m, n \in wire.delivered :
        m < n => att[m].class = "unknown" \/ retries > 0

\* 0029:494-498: wp_reconcile_scan_unresolved joins a job to its one dispatched
\* attempt; there is never a second for the echo to be held against.
OneDispatched ==
    \A m, n \in Nos :
        att[m].state = "dispatched" /\ att[n].state = "dispatched" => m = n

\* No loop, sweep or settlement that comes late changes a job that is sent,
\* failed or cancelled.
TerminalIsFinal ==
    [][job.status \in Final => job'.status = job.status]_vars

(* Liveness, under FairSpec. *)

\* A job cannot be stuck in processing: its loop ends or the reaper finds it.
ProcessingEnds == job.status = "processing" ~> job.status # "processing"

\* While the cron role keeps up, a job with a dispatched attempt nobody heard
\* of is decided or handed to a human, before the scan loses sight of it.
Awaited == job.status = "needs_reconcile" /\ \E n \in Nos : att[n].state = "dispatched"
DispatchedIsDecided == Awaited ~> ~Awaited

\* A settled attempt of a sent job does not stay unpaid: if the debit did not
\* come with the settlement, it comes through check B (charger.worker.ts:13-15).
Unpaid(n) ==
    /\ job.status = "sent" /\ att[n].state \in Settled
    /\ n \notin wallet.debits \cup wallet.adjusted
EventuallyCharged == \A n \in Nos : Unpaid(n) ~> ~Unpaid(n)

(* What the repository says of the queue and the code does not do; TLC *)
(* finds each violated on a small instance, and README.md tells the story. *)

\* send-loop.ts:35-42: a send that timed out is never sent again by itself.
NeverResent == Cardinality(wire.delivered) <= 1

\* docs/RUNBOOK.md:359-362: what cannot be resolved lands with a human.
UnresolvedLands == job.status = "needs_reconcile" ~> job.status # "needs_reconcile"
=============================================================================
