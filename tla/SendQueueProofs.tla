-------------------------- MODULE SendQueueProofs --------------------------
(***************************************************************************)
(* Theorems about SendQueue, for any number of loops, leases, attempts and *)
(* retries.  What the rows say of one another, Rows, holds with stalls     *)
(* and outages.  The theorems that need more of the environment say so:    *)
(* ~Outages, that the sweeps keep up with their ten minutes, for single    *)
(* charges, and ~Stalls, that no loop goes on after its lease and the      *)
(* grace have passed, for what is in doubt, sent again and paid for.       *)
(***************************************************************************)
EXTENDS SendQueue, FiniteSetTheorems, TLAPS

-----------------------------------------------------------------------------
(* What the statements of QueueStore leave behind. *)

\* An outcome write is a job again and touches neither lease nor attempts.
LEMMA BecomeJob ==
    ASSUME NEW j \in Jobs, NEW s \in Statuses
    PROVE  /\ Become(j, s) \in Jobs
           /\ Become(j, s).attempts = j.attempts
           /\ Become(j, s).lease = j.lease
           /\ Become(j, s).status = s
  BY DEF Become, Jobs

\* Giving a job back clears its lease and keeps its attempts.
LEMMA UnleasedJob ==
    ASSUME NEW j \in Jobs, NEW s \in Statuses
    PROVE  /\ Unleased(j, s) \in Jobs
           /\ Unleased(j, s).attempts = j.attempts
           /\ Unleased(j, s).lease = NoLease
           /\ Unleased(j, s).status = s
  BY DEF Unleased, Jobs

\* A write behind status = 'needs_reconcile' changes at most the status.
LEMMA IfUnresolvedJob ==
    ASSUME NEW j \in Jobs, NEW s \in Statuses
    PROVE  /\ IfUnresolved(j, s) \in Jobs
           /\ IfUnresolved(j, s).attempts = j.attempts
           /\ IfUnresolved(j, s).lease = j.lease
           /\ \/ IfUnresolved(j, s).status = j.status
              \/ IfUnresolved(j, s).status = s /\ j.status = "needs_reconcile"
  BY BecomeJob DEF IfUnresolved

\* A claim changes the status and the lease.
LEMMA ClaimedJob ==
    ASSUME NEW j \in Jobs, NEW l \in Leases
    PROVE  /\ Claimed(j, l) \in Jobs
           /\ Claimed(j, l).attempts = j.attempts
           /\ Claimed(j, l).lease = l
           /\ Claimed(j, l).status = "processing"
  BY DEF Claimed, Jobs, Statuses

\* The reaper clears the lease, keeps the attempts, and calls the job sent
\* only for an acked attempt.
LEMMA ReapedJob ==
    ASSUME NEW j \in Jobs, NEW state
    PROVE  /\ Reaped(j, state) \in Jobs
           /\ Reaped(j, state).attempts = j.attempts
           /\ Reaped(j, state).lease = NoLease
           /\ Reaped(j, state).status = "sent" => state = "acked"
  <1> DEFINE s == CASE state = "none"     -> "queued"
                    [] state = "prepared" -> IF Exhausted(j.attempts)
                                             THEN "failed" ELSE "queued"
                    [] state = "acked"    -> "sent"
                    [] OTHER              -> "needs_reconcile"
  <1>1. s \in Statuses /\ (s = "sent" => state = "acked")
    BY DEF Statuses, Final
  <1>2. Reaped(j, state) = Unleased(j, s)
    BY DEF Reaped
  <1> HIDE DEF s
  <1> QED  BY <1>1, <1>2, UnleasedJob

\* A failure sends the job to one of three statuses, never to sent.
LEMMA AfterFailureStatus ==
    ASSUME NEW c, NEW n
    PROVE  AfterFailure(c, n) \in Statuses \ {"sent"}
  BY DEF AfterFailure, Statuses, Final

\* Writing the state of an attempt keeps its lease.
LEMMA StatedAttempt ==
    ASSUME NEW a \in Attempts,
           NEW s \in {"none", "prepared", "dispatched", "acked", "failed"} \cup Decided
    PROVE  /\ Stated(a, s) \in Attempts
           /\ Stated(a, s).state = s
           /\ Stated(a, s).lease = a.lease
           /\ Stated(a, s).class = a.class
  <1>1. 0 \in Ages
    BY DEF Ages
  <1> QED  BY <1>1 DEF Stated, Attempts

\* Ageing keeps an attempt's state and lease.
LEMMA OlderAttempt ==
    ASSUME NEW a \in Attempts
    PROVE  /\ Older(a) \in Attempts
           /\ Older(a).state = a.state
           /\ Older(a).lease = a.lease
  <1>1. a.age \in Nat /\ (a.age < 2 => a.age + 1 \in Ages)
    BY DEF Attempts, Ages
  <1> QED  BY <1>1 DEF Older, Attempts

\* The charging statements add guard rows and nothing else.
LEMMA WalletTypes ==
    ASSUME NEW v \in Wallets, NEW n \in Nos, NEW a, NEW j
    PROVE  /\ Debit(v, n) \in Wallets
           /\ DebitRepaired(v, n, a, j) \in Wallets
           /\ Adjust(v, n, a) \in Wallets
           /\ Enqueue(v, n) \subseteq Wallets
           /\ [v EXCEPT !.pending = @ \ {n}] \in Wallets
  BY DEF Debit, DebitRepaired, Adjust, Enqueue, Wallets

\* The attempt that made it, the echo's row and its owner stay attempt numbers.
LEMMA WireTypes ==
    ASSUME NEW v \in Wires, NEW n \in Nos
    PROVE  /\ Own(v, n) \in Wires
           /\ [v EXCEPT !.flying = @ \cup {n}] \in Wires
           /\ [v EXCEPT !.flying = @ \ {n}] \in Wires
           /\ [v EXCEPT !.flying = @ \ {n}, !.delivered = @ \cup {n}] \in Wires
           /\ [v EXCEPT !.echoes = @ \cup {n}] \in Wires
  BY DEF Own, Wires
-----------------------------------------------------------------------------
(* Types. *)

\* Attempt numbers are counts that an attempt can have.
LEMMA Numbers ==
    /\ Nos \subseteq Counts /\ 0 \in Counts /\ Counts \subseteq Nat
    /\ \A n \in Nat : n \in Counts <=> n <= MaxAttempts + 1
    /\ \A n \in Counts : n = 0 \/ n \in Nos
  BY QueueAssumption DEF Nos, Counts

\* The empty records are of their types.
LEMMA IdleTypes ==
    /\ NoAttempt \in Attempts
    /\ Idle \in Loops
    /\ NoReap \in Reapers
    /\ NoRecon \in Recons
    /\ NoCheck \in Checks
  BY Numbers DEF NoAttempt, Attempts, Ages, Idle, Loops, NoReap, Reapers,
                 NoRecon, Recons, NoCheck, Checks, Classes

\* Moving on within its iteration keeps a loop's type.
LEMMA LoopTypes ==
    ASSUME TypeOK, NEW w \in Workers
    PROVE  /\ Ends(w) => loop' \in [Workers -> Loops]
           /\ \A c \in Classes : FailsAs(w, c) => loop' \in [Workers -> Loops]
           /\ \A pc \in {"prepared", "sending", "acking", "charging", "settling"} :
                MovesTo(w, pc) => loop' \in [Workers -> Loops]
  <1>1. loop \in [Workers -> Loops]
    BY DEF TypeOK
  <1>2. ASSUME NEW c \in Classes
        PROVE  [loop[w] EXCEPT !.pc = "failing", !.class = c] \in Loops
    BY <1>1 DEF Loops
  <1>3. ASSUME NEW pc \in {"prepared", "sending", "acking", "charging", "settling"}
        PROVE  [loop[w] EXCEPT !.pc = pc] \in Loops
    BY <1>1 DEF Loops
  <1> QED  BY <1>1, <1>2, <1>3, IdleTypes DEF Ends, FailsAs, MovesTo
\* Whatever a loop or a sweep has in hand past its first look has the number
\* of an attempt.
Numbered ==
    /\ \A w \in Workers : loop[w].pc \notin {"idle", "claimed"} => loop[w].no \in Nos
    /\ reaper.pc # "idle" => reaper.no \in Nos
    /\ recon.pc # "idle" => recon.no \in Nos
    /\ recon.pc = "resolve" => recon.echo \in Nos
    /\ check # NoCheck => check.no \in Nos

Typed == TypeOK /\ Numbered

\* A step of a loop's own keeps the types.
LEMMA LoopTyped ==
    ASSUME Typed, NEW w \in Workers, Loop(w) PROVE Typed'
  <1> USE DEF Typed, TypeOK, Numbered
  <1>0. /\ job \in Jobs /\ loop \in [Workers -> Loops] /\ att \in [Nos -> Attempts]
        /\ loop[w].lease \in Leases \cup {NoLease} /\ loop[w].no \in Nat
        /\ loop[w].class \in Classes
        /\ {"queued", "sent", "failed", "cancelled"} \subseteq Statuses
        /\ {"transient", "permanent", "unknown"} \subseteq Classes
    BY DEF Loops, Statuses, Final, Classes
  <1>1. CASE Claim(w)
    <2>1. PICK l \in Leases :
            /\ job' = Claimed(job, l)
            /\ loop' = [loop EXCEPT ![w] = [Idle EXCEPT !.pc = "claimed",
                                  !.lease = l, !.no = job.attempts + 1]]
      BY <1>1 DEF Claim, Forgotten
    <2>2. job.attempts + 1 \in Nat
      <3>1. job.attempts \in Counts
        BY <1>0 DEF Jobs
      <3> QED  BY <3>1, QueueAssumption DEF Counts
    <2>3. [Idle EXCEPT !.pc = "claimed", !.lease = l, !.no = job.attempts + 1] \in Loops
      BY <2>2, IdleTypes DEF Loops
    <2>4. \A v \in Workers : loop'[v].pc \notin {"idle", "claimed"} => loop'[v].no \in Nos
      BY <2>1, <1>0 DEF Idle
    <2> QED  BY <1>1, <2>1, <2>3, <2>4, ClaimedJob DEF Claim, OthersUnchanged, cron
  <1>2. CASE MediaDefers(w)
    <2>1. job' \in Jobs
      BY <1>0, <1>2, UnleasedJob DEF MediaDefers
    <2>2. \A v \in Workers : loop'[v].pc \notin {"idle", "claimed"} => loop'[v].no \in Nos
      BY <1>0, <1>2 DEF MediaDefers, Ends, Idle
    <2> QED  BY <1>2, <2>1, <2>2, LoopTypes DEF MediaDefers, OthersUnchanged, cron
  <1>3. CASE OptOut(w)
    <2>1. job' \in Jobs
      BY <1>0, <1>3, UnleasedJob DEF OptOut
    <2>2. \A v \in Workers : loop'[v].pc \notin {"idle", "claimed"} => loop'[v].no \in Nos
      BY <1>0, <1>3 DEF OptOut, Ends, Idle
    <2> QED  BY <1>3, <2>1, <2>2, LoopTypes DEF OptOut, OthersUnchanged, cron
  <1>4. CASE Prepare(w)
    <2>1. job.attempts + 1 \in Counts
      <3>1. job.attempts \in Counts /\ job.attempts <= MaxAttempts
        BY <1>0, <1>4 DEF Prepare, Preparable, Jobs
      <3> QED  BY <3>1, QueueAssumption DEF Counts
    <2>2. job' \in Jobs
      BY <1>0, <1>4, <2>1 DEF Prepare, Jobs
    <2>3. [NoAttempt EXCEPT !.state = "prepared", !.lease = loop[w].lease] \in Attempts
      BY <1>0, IdleTypes DEF Attempts
    <2>4. att' \in [Nos -> Attempts]
      BY <1>0, <1>4, <2>3 DEF Prepare
    <2>5. \A v \in Workers : loop'[v].pc \notin {"idle", "claimed"} => loop'[v].no \in Nos
      BY <1>0, <1>4 DEF Prepare, Preparable, MovesTo, Loops
    <2> QED  BY <1>4, <2>2, <2>4, <2>5, LoopTypes DEF Prepare, OthersUnchanged, cron
  <1>5. CASE PrepareFails(w)
    <2>1. \A v \in Workers : loop'[v].pc \notin {"idle", "claimed"} => loop'[v].no \in Nos
      BY <1>0, <1>5 DEF PrepareFails, Ends, Idle
    <2> QED  BY <1>5, <2>1, LoopTypes DEF PrepareFails, OthersUnchanged, cron, store
  <1>6. CASE Dispatch(w)
    <2>1. loop[w].no \in Nos
      BY <1>6 DEF Dispatch, At
    <2>2. att' \in [Nos -> Attempts]
      BY <1>0, <1>6, <2>1, StatedAttempt DEF Dispatch
    <2>3. wire' \in Wires
      BY <1>6, <2>1, WireTypes DEF Dispatch
    <2>4. \A v \in Workers : loop'[v].pc \notin {"idle", "claimed"} => loop'[v].no \in Nos
      BY <1>0, <1>6, <2>1 DEF Dispatch, MovesTo, Loops
    <2> QED  BY <1>6, <2>2, <2>3, <2>4, LoopTypes DEF Dispatch, OthersUnchanged, cron
  <1>7. CASE Extend(w)
    <2>1. job' \in Jobs
      BY <1>7 DEF Extend, Jobs
    <2> QED  BY <1>7, <2>1 DEF Extend, OthersUnchanged, cron
  <1>8. CASE Acked(w)
    <2>1. \A v \in Workers : loop'[v].pc \notin {"idle", "claimed"} => loop'[v].no \in Nos
      BY <1>0, <1>8 DEF Acked, At, MovesTo, Loops
    <2> QED  BY <1>8, <2>1, LoopTypes DEF Acked, OthersUnchanged, cron, store
  <1>9. CASE Refused(w)
    <2>1. loop' \in [Workers -> Loops]
      BY <1>0, <1>9, LoopTypes DEF Refused
    <2>2. \A v \in Workers : loop'[v].pc \notin {"idle", "claimed"} => loop'[v].no \in Nos
      BY <1>0, <1>9 DEF Refused, At, FailsAs, Loops
    <2>3. wire' \in Wires
      BY <1>9, WireTypes DEF Refused, At
    <2> QED  BY <1>9, <2>1, <2>2, <2>3 DEF Refused, OthersUnchanged, cron
  <1>10. CASE TimesOut(w)
    <2>1. \A v \in Workers : loop'[v].pc \notin {"idle", "claimed"} => loop'[v].no \in Nos
      BY <1>0, <1>10 DEF TimesOut, At, FailsAs, Loops
    <2> QED  BY <1>0, <1>10, <2>1, LoopTypes DEF TimesOut, OthersUnchanged, cron, store
  <1>11. CASE RecordAck(w)
    <2>1. att' \in [Nos -> Attempts]
      BY <1>0, <1>11, StatedAttempt DEF RecordAck
    <2>2. \A v \in Workers : loop'[v].pc \notin {"idle", "claimed"} => loop'[v].no \in Nos
      BY <1>0, <1>11 DEF RecordAck, At, MovesTo, Loops
    <2> QED  BY <1>11, <2>1, <2>2, LoopTypes DEF RecordAck, OthersUnchanged, cron
  <1>12. CASE SettleAck(w)
    <2>1. loop[w].no \in Nos
      BY <1>12 DEF SettleAck, At
    <2>2. job' \in Jobs /\ wallet' \in Wallets /\ wire' \in Wires
      BY <1>0, <1>12, <2>1, BecomeJob, WalletTypes, WireTypes, ZenonT(60) DEF SettleAck
    <2>3. \A v \in Workers : loop'[v].pc \notin {"idle", "claimed"} => loop'[v].no \in Nos
      BY <1>0, <1>12 DEF SettleAck, Ends, Idle
    <2> QED  BY <1>12, <2>2, <2>3, LoopTypes DEF SettleAck, OthersUnchanged, cron
  <1>13. CASE RecordFailure(w)
    <2>1. loop[w].no \in Nos
      BY <1>13 DEF RecordFailure, At
    <2>2. [Stated(att[loop[w].no], "failed") EXCEPT !.class = loop[w].class] \in Attempts
      BY <1>0, <2>1, StatedAttempt DEF Attempts
    <2>3. att' \in [Nos -> Attempts]
      BY <1>0, <1>13, <2>2 DEF RecordFailure
    <2>4. \A v \in Workers : loop'[v].pc \notin {"idle", "claimed"} => loop'[v].no \in Nos
      BY <1>0, <1>13, <2>1 DEF RecordFailure, MovesTo, Loops
    <2> QED  BY <1>13, <2>3, <2>4, LoopTypes DEF RecordFailure, OthersUnchanged, cron
  <1>14. CASE SettleFailure(w)
    <2>1. job' \in Jobs
      BY <1>0, <1>14, BecomeJob, AfterFailureStatus, SMTT(30) DEF SettleFailure
    <2>2. paused' \in BOOLEAN
      BY <1>14 DEF SettleFailure
    <2>3. \A v \in Workers : loop'[v].pc \notin {"idle", "claimed"} => loop'[v].no \in Nos
      BY <1>0, <1>14 DEF SettleFailure, Ends, Idle
    <2> QED  BY <1>14, <2>1, <2>2, <2>3, LoopTypes DEF SettleFailure, cron
  <1>15. CASE Abandon(w)
    <2>1. \A v \in Workers : loop'[v].pc \notin {"idle", "claimed"} => loop'[v].no \in Nos
      BY <1>0, <1>15 DEF Abandon, Ends, Idle
    <2> QED  BY <1>15, <2>1, LoopTypes DEF Abandon, OthersUnchanged, cron, store
  <1> QED
    BY <1>1, <1>2, <1>3, <1>4, <1>5, <1>6, <1>7, <1>8, <1>9, <1>10, <1>11, <1>12,
       <1>13, <1>14, <1>15 DEF Loop
\* A step of a sweep keeps the types.
LEMMA CronTyped ==
    ASSUME Typed, Cron PROVE Typed'
  <1> USE DEF Typed, TypeOK, Numbered
  <1>0. /\ job \in Jobs /\ att \in [Nos -> Attempts]
        /\ {"sent", "blocked_needs_review"} \subseteq Statuses
        /\ reaper.class \in Classes
    BY DEF Statuses, Final, Reapers
  <1>1. CASE Reap
    <2>1. PICK n \in Counts :
            /\ Matches(n) /\ StateOf(n) \notin Decided
            /\ job' = Reaped(job, StateOf(n))
            /\ reaper' = CASE StateOf(n) = "acked" -> [NoReap EXCEPT !.pc = "sent", !.no = n]
                           [] StateOf(n) = "failed" ->
                                [pc |-> "failed", no |-> n, class |-> att[n].class]
                           [] OTHER -> NoReap
      BY <1>1 DEF Reap
    <2>2. job' \in Jobs
      BY <1>0, <2>1, ReapedJob
    <2>3. StateOf(n) \in {"acked", "failed"} => n \in Nos
      BY <2>1, Numbers DEF StateOf
    <2>4. reaper' \in Reapers /\ (reaper'.pc # "idle" => reaper'.no \in Nos)
      <3>1. CASE StateOf(n) = "acked"
        <4>1. reaper' = [NoReap EXCEPT !.pc = "sent", !.no = n]
          BY <2>1, <3>1
        <4> QED  BY <4>1, <3>1, <2>3, IdleTypes DEF Reapers, NoReap
      <3>2. CASE StateOf(n) = "failed"
        <4>1. reaper' = [pc |-> "failed", no |-> n, class |-> att[n].class]
          BY <2>1, <3>2
        <4>2. att[n].class \in Classes
          BY <1>0, <2>3, <3>2 DEF Attempts
        <4> QED  BY <4>1, <4>2, <3>2, <2>3 DEF Reapers
      <3>3. CASE StateOf(n) \notin {"acked", "failed"}
        <4>1. reaper' = NoReap
          BY <2>1, <3>3
        <4> QED  BY <4>1, IdleTypes DEF NoReap
      <3> QED  BY <3>1, <3>2, <3>3
    <2> QED  BY <1>1, <2>2, <2>4 DEF Reap
  <1>2. CASE ReapedSent
    <2>1. wallet' \in Wallets
      BY <1>2, WalletTypes DEF ReapedSent
    <2> QED  BY <1>2, <2>1, IdleTypes DEF ReapedSent, NoReap
  <1>3. CASE ReapedFailed
    <2>1. job' \in Jobs /\ paused' \in BOOLEAN
      BY <1>0, <1>3, IfUnresolvedJob, AfterFailureStatus DEF ReapedFailed
    <2> QED  BY <1>3, <2>1, IdleTypes DEF ReapedFailed, NoReap
  <1>4. CASE RecDecide
    <2>1. PICK seen \in SUBSET wire.echoes :
            recon' =
              IF recon.sibling \/ \E e, f \in seen : e # f
              THEN [recon EXCEPT !.pc = "ambiguous"]
              ELSE IF seen # {}
              THEN [recon EXCEPT !.pc = "resolve", !.echo = CHOOSE e \in Nos : e \in seen]
              ELSE IF att[recon.no].age >= 1
              THEN [recon EXCEPT !.pc = "expired"] ELSE NoRecon
      BY <1>4 DEF RecDecide
    <2>2. seen \subseteq Nos
      BY <2>1 DEF Wires
    <2>3. recon \in Recons /\ recon.no \in Nos
      BY <1>4 DEF RecDecide
    <2>4. ASSUME seen # {}
          PROVE  (CHOOSE e \in Nos : e \in seen) \in Nos
      BY <2>2, <2>4
    <2> DEFINE e0 == CHOOSE e \in Nos : e \in seen
    <2> HIDE DEF e0
    <2>5. /\ [recon EXCEPT !.pc = "ambiguous"] \in Recons
          /\ [recon EXCEPT !.pc = "expired"] \in Recons
          /\ e0 \in Nos => [recon EXCEPT !.pc = "resolve", !.echo = e0] \in Recons
      BY <2>3, Numbers DEF Recons
    <2>6. \/ recon' = [recon EXCEPT !.pc = "ambiguous"]
          \/ e0 \in Nos /\ recon' = [recon EXCEPT !.pc = "resolve", !.echo = e0]
          \/ recon' = [recon EXCEPT !.pc = "expired"]
          \/ recon' = NoRecon
      BY <2>1, <2>4 DEF e0
    <2>7. /\ recon' \in Recons
          /\ recon'.pc # "idle" => recon'.no \in Nos
          /\ recon'.pc = "resolve" => recon'.echo \in Nos
      BY <2>3, <2>5, <2>6, IdleTypes DEF Recons, NoRecon
    <2> QED  BY <1>4, <2>7 DEF RecDecide, store
  <1>5. CASE RecAmbiguous
    <2>1. job' \in Jobs
      BY <1>0, <1>5, IfUnresolvedJob DEF RecAmbiguous
    <2> QED  BY <1>5, <2>1, IdleTypes DEF RecAmbiguous, NoRecon
  <1>6. CASE RecExpired
    <2>1. job' \in Jobs
      BY <1>0, <1>6, IfUnresolvedJob DEF RecExpired
    <2>2. recon.no \in Nos
      BY <1>6 DEF RecExpired
    <2>3. att' \in [Nos -> Attempts]
      BY <1>0, <1>6, <2>2, StatedAttempt DEF RecExpired, Decided
    <2> QED  BY <1>6, <2>1, <2>3, IdleTypes DEF RecExpired, NoRecon
  <1>7. CASE RecResolve
    <2>1. recon.no \in Nos /\ recon.echo \in Nos
      BY <1>7 DEF RecResolve
    <2>2. job' \in Jobs
      BY <1>0, <1>7, IfUnresolvedJob DEF RecResolve
    <2>3. wire' \in Wires
      BY <1>7, <2>1, WireTypes, ZenonT(60) DEF RecResolve
    <2>4. att' \in [Nos -> Attempts]
      BY <1>0, <1>7, <2>1, StatedAttempt DEF RecResolve, Decided
    <2>5. /\ recon' \in Recons
          /\ recon'.pc # "idle" => recon'.no \in Nos
          /\ recon'.pc # "resolve"
      BY <1>7, <2>1, IdleTypes DEF RecResolve, Recons, NoRecon
    <2> QED  BY <1>7, <2>2, <2>3, <2>4, <2>5 DEF RecResolve
  <1>8. CASE RecSink
    <2>1. wallet' \in Wallets
      BY <1>8, WalletTypes DEF RecSink
    <2> QED  BY <1>8, <2>1, IdleTypes DEF RecSink, NoRecon
  <1>9. CASE CheckCharge
    <2>1. check.no \in Nos
      BY <1>9 DEF CheckCharge
    <2>2. Correction(check.no, check.sent) \in Wallets
      BY <2>1, WalletTypes DEF Correction
    <2>3. wallet' \in {Correction(check.no, check.sent), wallet}
      BY <1>9, Zenon DEF CheckCharge
    <2> QED  BY <1>9, <2>2, <2>3, IdleTypes DEF CheckCharge
  <1>10. CASE SweepDies
    <2>1. /\ reaper' \in {reaper, NoReap} /\ recon' \in {recon, NoRecon}
          /\ check' \in {check, NoCheck}
      BY <1>10 DEF SweepDies
    <2>2. NoReap.pc = "idle" /\ NoRecon.pc = "idle"
      BY DEF NoReap, NoRecon
    <2>3. reaper' \in Reapers /\ (reaper'.pc # "idle" => reaper'.no \in Nos)
      BY <2>1, <2>2, IdleTypes
    <2>4. /\ recon' \in Recons /\ (recon'.pc # "idle" => recon'.no \in Nos)
          /\ recon'.pc = "resolve" => recon'.echo \in Nos
      BY <2>1, <2>2, IdleTypes
    <2>5. check' \in Checks /\ (check' # NoCheck => check'.no \in Nos)
      BY <2>1, IdleTypes
    <2> QED  BY <1>10, <2>3, <2>4, <2>5 DEF SweepDies, store
  <1>11. ASSUME NEW n \in Nos, RecScan(n) PROVE Typed'
    <2>1. PICK s \in BOOLEAN :
            recon' = [NoRecon EXCEPT !.pc = "found", !.no = n, !.sibling = s]
      BY <1>11 DEF RecScan
    <2>2. recon' \in Recons /\ recon'.pc = "found" /\ recon'.no \in Nos
      BY <2>1, IdleTypes, Numbers DEF Recons, NoRecon
    <2> QED  BY <1>11, <2>2 DEF RecScan, store
  <1>12. ASSUME NEW n \in Nos, ChargeDrain(n) PROVE Typed'
    <2> DEFINE rest == [wallet EXCEPT !.pending = @ \ {n}]
    <2>1. rest \in Wallets /\ DebitRepaired(rest, n, att[n], job) \in Wallets
      <3>1. rest \in Wallets
        BY WalletTypes
      <3> HIDE DEF rest
      <3> QED  BY <3>1, WalletTypes
    <2>2. wallet' \in {rest, DebitRepaired(rest, n, att[n], job)}
      BY <1>12 DEF ChargeDrain
    <2>3. wallet' \in Wallets
      BY <2>1, <2>2
    <2> HIDE DEF rest
    <2> QED  BY <1>12, <2>3 DEF ChargeDrain, OthersUnchanged, cron
  <1>13. ASSUME NEW n \in Nos, CheckScan(n) PROVE Typed'
    <2>1. check' \in Checks /\ check'.no \in Nos
      BY <1>13, Numbers DEF CheckScan, Checks
    <2> QED  BY <1>13, <2>1 DEF CheckScan, store
  <1> QED
    BY <1>1, <1>2, <1>3, <1>4, <1>5, <1>6, <1>7, <1>8, <1>9, <1>10, <1>11, <1>12,
       <1>13 DEF Cron

\* Initially every part has its type.
LEMMA InitTyped == ASSUME Init PROVE Typed
  <1>1. job \in Jobs
    BY Numbers DEF Init, Jobs, Statuses
  <1>2. wire \in Wires /\ wallet \in Wallets
    BY DEF Init, Wires, Wallets
  <1>3. retries \in 0 .. MaxRetries
    BY LoopAssumption DEF Init
  <1>4. /\ att \in [Nos -> Attempts] /\ loop \in [Workers -> Loops]
        /\ \A w \in Workers : loop[w].pc = "idle"
    BY IdleTypes DEF Init, Idle
  <1> QED
    BY <1>1, <1>2, <1>3, <1>4, IdleTypes
       DEF Init, Typed, TypeOK, Numbered, NoReap, NoRecon

\* And every step keeps the types.
LEMMA NextTyped == ASSUME Typed, [Next]_vars PROVE Typed'
  <1> USE DEF Typed, TypeOK, Numbered
  <1>0. job \in Jobs /\ att \in [Nos -> Attempts]
    OBVIOUS
  <1>1. ASSUME NEW n \in Nos, Deliver(n) PROVE Typed'
    <2>1. wire' \in Wires
      BY <1>1, WireTypes DEF Deliver
    <2> QED  BY <1>1, <2>1 DEF Deliver, OthersUnchanged, cron
  <1>2. ASSUME NEW n \in Nos, EchoCaptured(n) PROVE Typed'
    <2>1. wire' \in Wires
      BY <1>2, WireTypes DEF EchoCaptured
    <2> QED  BY <1>2, <2>1 DEF EchoCaptured, OthersUnchanged, cron
  <1>3. CASE RetryUnresolved
    <2>1. job' \in Jobs
      BY <1>0, <1>3, BecomeJob DEF RetryUnresolved, Statuses
    <2>2. att' \in [Nos -> Attempts]
      BY <1>0, <1>3, StatedAttempt DEF RetryUnresolved, Decided
    <2>3. retries' \in 0 .. MaxRetries
      BY <1>3, LoopAssumption DEF RetryUnresolved
    <2> QED  BY <1>3, <2>1, <2>2, <2>3 DEF RetryUnresolved, cron
  <1>4. CASE Discard
    <2>1. job' \in Jobs
      BY <1>0, <1>4, BecomeJob DEF Discard, Statuses, Final
    <2> QED  BY <1>4, <2>1 DEF Discard, OthersUnchanged, cron
  <1>5. CASE Resume
    BY <1>5 DEF Resume, cron, store
  <1>6. CASE DrainMark
    <2>1. job' \in Jobs
      BY <1>0, <1>6, BecomeJob DEF DrainMark, Statuses
    <2> QED  BY <1>6, <2>1 DEF DrainMark, OthersUnchanged, cron
  <1>7. CASE Expire
    <2>1. job' \in Jobs
      BY <1>0, <1>7 DEF Expire, Jobs
    <2> QED  BY <1>7, <2>1 DEF Expire, OthersUnchanged, cron
  <1>8. CASE TenMinutes
    <2>1. att' \in [Nos -> Attempts]
      BY <1>0, <1>8, OlderAttempt DEF TenMinutes
    <2> QED  BY <1>8, <2>1 DEF TenMinutes, OthersUnchanged, cron
  <1>9. CASE UNCHANGED vars
    BY <1>9 DEF vars, store, cron
  <1> QED
    BY <1>1, <1>2, <1>3, <1>4, <1>5, <1>6, <1>7, <1>8, <1>9, LoopTyped, CronTyped
       DEF Next

\* TypeOK holds in every reachable state: attempts stays within
\* mj_attempts_range, and nothing charges, resolves or records an attempt that
\* is not one.
THEOREM TypeCorrect == Spec => []TypeOK
  <1>1. Typed => TypeOK
    BY DEF Typed
  <1> QED  BY <1>1, InitTyped, NextTyped, PTL DEF Spec
-----------------------------------------------------------------------------
(* Numbers and leases. *)

\* AttemptsMatchRows and OneAttemptPerLease as an inductive invariant.  Leases
\* of loops differ from each other; a loop that has claimed and not recorded
\* yet has a lease no attempt has, and while the job has that lease too, the
\* number it was given is the next one.  Whatever is past that has a row.
Rows ==
    /\ AttemptsMatchRows
    /\ OneAttemptPerLease
    /\ \A w \in Workers : loop[w].pc # "idle" => loop[w].lease \in Leases
    /\ \A v, w \in Workers :
         v # w /\ loop[v].pc # "idle" /\ loop[w].pc # "idle"
             => loop[v].lease # loop[w].lease
    /\ \A w \in Workers : loop[w].pc = "claimed" =>
         /\ \A n \in Nos : att[n].lease # loop[w].lease
         /\ loop[w].lease = job.lease => loop[w].no = job.attempts + 1
    /\ \A w \in Workers :
         loop[w].pc \notin {"idle", "claimed"} => att[loop[w].no].state # "none"
    /\ recon.pc # "idle" => att[recon.no].state # "none"

\* What every step but Claim and Prepare leaves alone.
KeepsAttempts ==
    \A n \in Nos : /\ att'[n].lease = att[n].lease
                   /\ att'[n].state = "none" <=> att[n].state = "none"

KeepsJob == job'.attempts = job.attempts /\ job'.lease \in {job.lease, NoLease}

KeepsLoops ==
    \A w \in Workers : loop'[w].pc # "idle" =>
        /\ loop[w].pc # "idle"
        /\ loop'[w].lease = loop[w].lease /\ loop'[w].no = loop[w].no
        /\ loop'[w].pc = "claimed" <=> loop[w].pc = "claimed"

KeepsRecon ==
    recon'.pc # "idle" => \/ recon.pc # "idle" /\ recon'.no = recon.no
                          \/ att[recon'.no].state # "none"

Keeps == KeepsAttempts /\ KeepsJob /\ KeepsLoops /\ KeepsRecon

\* Such a step keeps the invariant.
LEMMA KeepsRows == ASSUME Typed, Typed', Rows, Keeps PROVE Rows'
  <1> USE DEF Keeps
  <1>0. NoLease \notin Leases
    BY QueueAssumption DEF NoLease
  <1>1. AttemptsMatchRows'
    BY DEF Rows, AttemptsMatchRows, KeepsAttempts, KeepsJob
  <1>2. OneAttemptPerLease'
    BY DEF Rows, OneAttemptPerLease, KeepsAttempts
  <1>3. /\ \A w \in Workers : loop'[w].pc # "idle" => loop'[w].lease \in Leases
        /\ \A v, w \in Workers :
             v # w /\ loop'[v].pc # "idle" /\ loop'[w].pc # "idle"
                 => loop'[v].lease # loop'[w].lease
    BY DEF Rows, KeepsLoops
  <1>4. ASSUME NEW w \in Workers, loop'[w].pc = "claimed"
        PROVE  /\ \A n \in Nos : att'[n].lease # loop'[w].lease
               /\ loop'[w].lease = job'.lease => loop'[w].no = job'.attempts + 1
    <2>1. /\ loop[w].pc = "claimed" /\ loop[w].lease \in Leases
          /\ loop'[w].lease = loop[w].lease /\ loop'[w].no = loop[w].no
      BY <1>4 DEF Rows, KeepsLoops
    <2> QED  BY <1>0, <2>1 DEF Rows, KeepsAttempts, KeepsJob
  <1>5. ASSUME NEW w \in Workers, loop'[w].pc \notin {"idle", "claimed"}
        PROVE  att'[loop'[w].no].state # "none"
    <2>1. loop[w].pc \notin {"idle", "claimed"} /\ loop'[w].no = loop[w].no
      BY <1>5 DEF KeepsLoops
    <2>2. loop[w].no \in Nos /\ att[loop[w].no].state # "none"
      BY <2>1 DEF Typed, Numbered, Rows
    <2> QED  BY <2>1, <2>2 DEF KeepsAttempts
  <1>6. recon'.pc # "idle" => att'[recon'.no].state # "none"
    BY DEF Rows, KeepsRecon, KeepsAttempts, Typed, Numbered
  <1> QED  BY <1>1, <1>2, <1>3, <1>4, <1>5, <1>6 DEF Rows

\* A claim brings a lease that no loop and no attempt has.
LEMMA ClaimRows ==
    ASSUME Typed, Rows, NEW w \in Workers, Claim(w) PROVE Rows'
  <1>1. PICK l \in Forgotten :
          /\ job' = Claimed(job, l)
          /\ loop' = [loop EXCEPT ![w] = [Idle EXCEPT !.pc = "claimed",
                                !.lease = l, !.no = job.attempts + 1]]
    BY DEF Claim
  <1>2. /\ l \in Leases /\ \A n \in Nos : att[n].lease # l
        /\ \A v \in Workers : loop[v].lease # l
    BY DEF Forgotten
  <1>3. job'.attempts = job.attempts /\ job'.lease = l
    BY <1>1, <1>2, ClaimedJob DEF Typed, TypeOK
  <1>4. att' = att /\ recon' = recon
    BY DEF Claim, OthersUnchanged, cron
  <1>5. /\ loop'[w].pc = "claimed" /\ loop'[w].lease = l
        /\ loop'[w].no = job.attempts + 1
        /\ \A v \in Workers : v # w => loop'[v] = loop[v]
    BY <1>1 DEF Typed, TypeOK, Idle
  <1>6. AttemptsMatchRows' /\ OneAttemptPerLease'
    BY <1>3, <1>4 DEF Rows, AttemptsMatchRows, OneAttemptPerLease
  <1> QED  BY <1>2, <1>3, <1>4, <1>5, <1>6 DEF Rows

\* The row recorded has the next number and a lease of its own.
LEMMA PrepareRows ==
    ASSUME Typed, Rows, NEW w \in Workers, Prepare(w) PROVE Rows'
  <1> DEFINE k == loop[w].no
             l == loop[w].lease
  <1>1. /\ loop[w].pc = "claimed" /\ k \in Nos /\ l \in Leases
        /\ job.lease = l /\ k = job.attempts + 1 /\ att[k].state = "none"
        /\ \A n \in Nos : att[n].lease # l
    BY DEF Prepare, Preparable, At, Rows
  <1>2. /\ att'[k].state = "prepared" /\ att'[k].lease = l
        /\ \A n \in Nos : n # k => att'[n] = att[n]
    BY <1>1 DEF Prepare, Typed, TypeOK, NoAttempt
  <1>3. job'.attempts = k /\ job'.lease = l
    BY <1>1 DEF Prepare, Typed, TypeOK, Jobs
  <1>4. /\ loop'[w].pc = "prepared" /\ loop'[w].lease = l /\ loop'[w].no = k
        /\ \A v \in Workers : v # w => loop'[v] = loop[v]
    BY DEF Prepare, MovesTo, Typed, TypeOK, Loops
  <1>5. recon' = recon
    BY DEF Prepare, OthersUnchanged, cron
  <1>6. AttemptsMatchRows'
    <2>1. ASSUME NEW n \in Nos PROVE att'[n].state # "none" <=> n <= job'.attempts
      <3>1. n \in Nat /\ k \in Nat /\ job.attempts \in Nat
        BY <1>1, QueueAssumption DEF Nos, Counts, Typed, TypeOK, Jobs
      <3>2. att[n].state # "none" <=> n <= job.attempts
        BY DEF Rows, AttemptsMatchRows
      <3> QED  BY <1>1, <1>2, <1>3, <3>1, <3>2
    <2> QED  BY <2>1 DEF AttemptsMatchRows
  <1>7. OneAttemptPerLease'
    BY <1>1, <1>2 DEF Rows, OneAttemptPerLease
  <1>8. \A v \in Workers : v # w /\ loop[v].pc # "idle" => loop[v].lease # l
    BY <1>1 DEF Rows
  <1>9. ASSUME NEW v \in Workers, loop'[v].pc = "claimed"
        PROVE  /\ \A n \in Nos : att'[n].lease # loop'[v].lease
               /\ loop'[v].lease # job'.lease
    <2>1. v # w /\ loop'[v] = loop[v] /\ loop[v].lease # l
      BY <1>4, <1>8, <1>9
    <2> QED  BY <1>2, <1>3, <1>9, <2>1 DEF Rows
  <1>10. \A v \in Workers :
           loop'[v].pc \notin {"idle", "claimed"} => att'[loop'[v].no].state # "none"
    BY <1>1, <1>2, <1>4 DEF Rows, Typed, Numbered
  <1>11. recon'.pc # "idle" => att'[recon'.no].state # "none"
    BY <1>1, <1>2, <1>5 DEF Rows, Typed, Numbered
  <1>12. /\ \A v \in Workers : loop'[v].pc # "idle" => loop'[v].lease \in Leases
         /\ \A u, v \in Workers :
              u # v /\ loop'[u].pc # "idle" /\ loop'[v].pc # "idle"
                  => loop'[u].lease # loop'[v].lease
    BY <1>1, <1>4, <1>8 DEF Rows
  <1> QED  BY <1>6, <1>7, <1>9, <1>10, <1>11, <1>12 DEF Rows
\* The steps of a loop other than Claim and Prepare.
LEMMA LoopKeeps ==
    ASSUME Typed, Rows, NEW w \in Workers, Loop(w), ~Claim(w), ~Prepare(w)
    PROVE  Keeps
  <1>0. /\ job \in Jobs /\ att \in [Nos -> Attempts] /\ loop \in [Workers -> Loops]
        /\ {"queued", "sent", "failed", "cancelled"} \subseteq Statuses
    BY DEF Typed, TypeOK, Statuses, Final
  <1>1. ASSUME NEW pc \in {"sending", "acking", "charging", "settling"},
               MovesTo(w, pc), loop[w].pc \notin {"idle", "claimed"}
        PROVE  KeepsLoops
    BY <1>0, <1>1 DEF MovesTo, KeepsLoops, Loops
  <1>2. ASSUME NEW c, FailsAs(w, c), loop[w].pc = "sending"
        PROVE  KeepsLoops
    BY <1>0, <1>2 DEF FailsAs, KeepsLoops, Loops
  <1>3. ASSUME Ends(w) PROVE KeepsLoops
    BY <1>0, <1>3 DEF Ends, KeepsLoops, Idle
  <1>4. ASSUME att' = att PROVE KeepsAttempts
    BY <1>4 DEF KeepsAttempts
  <1>5. ASSUME job' = job PROVE KeepsJob
    BY <1>5 DEF KeepsJob
  <1>6. KeepsRecon
    BY DEF Loop, Claim, Prepare, MediaDefers, OptOut, PrepareFails, Dispatch, Extend,
           Acked, Refused, TimesOut, RecordAck, SettleAck, RecordFailure,
           SettleFailure, Abandon, OthersUnchanged, cron, KeepsRecon
  <1>7. CASE MediaDefers(w) \/ OptOut(w)
    <2>1. KeepsJob
      BY <1>0, <1>7, UnleasedJob, SMTT(30) DEF MediaDefers, OptOut, KeepsJob
    <2> QED  BY <1>3, <1>4, <1>6, <1>7, <2>1 DEF MediaDefers, OptOut, Keeps
  <1>8. CASE PrepareFails(w) \/ Abandon(w)
    BY <1>3, <1>4, <1>5, <1>6, <1>8 DEF PrepareFails, Abandon, Keeps, store
  <1>9. CASE Dispatch(w)
    <2>1. loop[w].no \in Nos /\ att[loop[w].no].state # "none"
      BY <1>9 DEF Dispatch, At, Typed, Numbered, Rows
    <2>2. KeepsAttempts
      BY <1>0, <1>9, <2>1, StatedAttempt DEF Dispatch, KeepsAttempts
    <2> QED  BY <1>1, <1>5, <1>6, <1>9, <2>2 DEF Dispatch, At, Keeps
  <1>10. CASE Extend(w)
    <2>1. KeepsJob /\ KeepsLoops
      BY <1>0, <1>10 DEF Extend, KeepsJob, KeepsLoops, Jobs
    <2> QED  BY <1>4, <1>6, <1>10, <2>1 DEF Extend, Keeps
  <1>11. CASE Acked(w)
    BY <1>1, <1>4, <1>5, <1>6, <1>11 DEF Acked, At, Keeps, store
  <1>12. CASE Refused(w) \/ TimesOut(w)
    BY <1>2, <1>4, <1>5, <1>6, <1>12 DEF Refused, TimesOut, At, Keeps, store
  <1>13. CASE RecordAck(w)
    <2>1. loop[w].no \in Nos /\ att[loop[w].no].state # "none"
      BY <1>13 DEF RecordAck, At, Typed, Numbered, Rows
    <2>2. KeepsAttempts
      BY <1>0, <1>13, <2>1, StatedAttempt, SMTT(30) DEF RecordAck, KeepsAttempts
    <2> QED  BY <1>1, <1>5, <1>6, <1>13, <2>2 DEF RecordAck, At, Keeps
  <1>14. CASE SettleAck(w)
    <2>1. KeepsJob
      BY <1>0, <1>14, BecomeJob, SMTT(30) DEF SettleAck, KeepsJob
    <2> QED  BY <1>3, <1>4, <1>6, <1>14, <2>1 DEF SettleAck, Keeps
  <1>15. CASE RecordFailure(w)
    <2>1. loop[w].no \in Nos /\ att[loop[w].no].state # "none"
      BY <1>15 DEF RecordFailure, At, Typed, Numbered, Rows
    <2>2. LET a == [Stated(att[loop[w].no], "failed") EXCEPT !.class = loop[w].class]
          IN  a.state = "failed" /\ a.lease = att[loop[w].no].lease
      BY <1>0, <2>1, StatedAttempt DEF Attempts
    <2>3. KeepsAttempts
      BY <1>0, <1>15, <2>1, <2>2 DEF RecordFailure, KeepsAttempts
    <2> QED  BY <1>1, <1>5, <1>6, <1>15, <2>3 DEF RecordFailure, At, Keeps
  <1>16. CASE SettleFailure(w)
    <2> DEFINE s == AfterFailure(loop[w].class, loop[w].no)
    <2>1. s \in Statuses
      BY AfterFailureStatus
    <2>2. Become(job, s).attempts = job.attempts /\ Become(job, s).lease = job.lease
      BY <1>0, <2>1, BecomeJob
    <2>3. job' \in {job, Become(job, s)}
      BY <1>16 DEF SettleFailure
    <2>4. KeepsJob
      BY <2>2, <2>3 DEF KeepsJob
    <2> QED  BY <1>3, <1>4, <1>6, <1>16, <2>4 DEF SettleFailure, Keeps
  <1> QED
    BY <1>7, <1>8, <1>9, <1>10, <1>11, <1>12, <1>13, <1>14, <1>15, <1>16 DEF Loop

\* The sweeps, people, drain and time.
LEMMA OtherStepsKeep ==
    ASSUME Typed, Rows, [Next]_vars, \A w \in Workers : ~Loop(w) PROVE Keeps
  <1>0. /\ job \in Jobs /\ att \in [Nos -> Attempts]
        /\ {"queued", "sent", "cancelled", "needs_reconcile", "blocked_needs_review"}
             \subseteq Statuses
    BY DEF Typed, TypeOK, Statuses, Final
  <1>1. ASSUME loop' = loop PROVE KeepsLoops
    BY <1>1 DEF KeepsLoops
  <1>2. ASSUME att' = att PROVE KeepsAttempts
    BY <1>2 DEF KeepsAttempts
  <1>3. ASSUME job' = job PROVE KeepsJob
    BY <1>3 DEF KeepsJob
  <1>4. ASSUME recon' = recon \/ recon' = NoRecon PROVE KeepsRecon
    BY <1>4 DEF KeepsRecon, NoRecon
  <1>5. ASSUME NEW s \in Statuses, job' \in {job, Become(job, s), IfUnresolved(job, s)}
        PROVE  KeepsJob
    <2>1. /\ Become(job, s).attempts = job.attempts
          /\ Become(job, s).lease = job.lease
          /\ IfUnresolved(job, s).attempts = job.attempts
          /\ IfUnresolved(job, s).lease = job.lease
      BY <1>0, BecomeJob, IfUnresolvedJob
    <2> QED  BY <1>5, <2>1 DEF KeepsJob
  <1>6. CASE Reap
    <2>1. KeepsJob
      BY <1>0, <1>6, ReapedJob DEF Reap, KeepsJob
    <2> QED  BY <1>1, <1>2, <1>4, <1>6, <2>1 DEF Reap, Keeps
  <1>7. CASE ReapedSent
    BY <1>1, <1>2, <1>3, <1>4, <1>7 DEF ReapedSent, Keeps
  <1>8. CASE ReapedFailed
    <2>1. KeepsJob
      BY <1>5, <1>8, AfterFailureStatus DEF ReapedFailed
    <2> QED  BY <1>1, <1>2, <1>4, <1>8, <2>1 DEF ReapedFailed, Keeps
  <1>9. CASE RecDecide
    <2>1. recon'.pc # "idle" => recon'.no = recon.no
      BY <1>9 DEF RecDecide, NoRecon, Typed, TypeOK, Recons
    <2>2. KeepsRecon
      BY <1>9, <2>1 DEF RecDecide, KeepsRecon
    <2> QED  BY <1>1, <1>2, <1>3, <1>9, <2>2 DEF RecDecide, Keeps, store
  <1>10. CASE RecAmbiguous
    <2>1. KeepsJob
      BY <1>0, <1>5, <1>10 DEF RecAmbiguous
    <2> QED  BY <1>1, <1>2, <1>4, <1>10, <2>1 DEF RecAmbiguous, Keeps
  <1>11. ASSUME NEW s \in Decided, recon.pc # "idle",
                att' = [att EXCEPT ![recon.no] = Stated(@, s)]
         PROVE  KeepsAttempts
    <2>1. recon.no \in Nos /\ att[recon.no].state # "none" /\ s # "none"
      BY <1>11 DEF Typed, Numbered, Rows, Decided
    <2>2. /\ Stated(att[recon.no], s).state = s
          /\ Stated(att[recon.no], s).lease = att[recon.no].lease
      BY <1>0, <2>1, StatedAttempt
    <2> QED  BY <1>0, <1>11, <2>1, <2>2 DEF KeepsAttempts
  <1>12. CASE RecExpired
    <2>1. KeepsJob
      BY <1>0, <1>5, <1>12 DEF RecExpired
    <2>2. KeepsAttempts
      BY <1>11, <1>12 DEF RecExpired, Decided
    <2> QED  BY <1>1, <1>4, <1>12, <2>1, <2>2 DEF RecExpired, Keeps
  <1>13. CASE RecResolve
    <2>1. KeepsJob
      BY <1>0, <1>5, <1>13 DEF RecResolve
    <2>2. KeepsAttempts
      BY <1>2, <1>11, <1>13 DEF RecResolve, Decided
    <2>3. KeepsRecon
      BY <1>13 DEF RecResolve, KeepsRecon, NoRecon, Typed, TypeOK, Recons
    <2> QED  BY <1>1, <1>13, <2>1, <2>2, <2>3 DEF RecResolve, Keeps
  <1>14. CASE RecSink
    BY <1>1, <1>2, <1>3, <1>4, <1>14 DEF RecSink, Keeps
  <1>15. CASE CheckCharge
    BY <1>1, <1>2, <1>3, <1>4, <1>15 DEF CheckCharge, Keeps
  <1>16. CASE SweepDies
    BY <1>1, <1>2, <1>3, <1>4, <1>16 DEF SweepDies, Keeps, store
  <1>17. ASSUME NEW n \in Nos, RecScan(n) PROVE Keeps
    <2>1. KeepsRecon
      BY <1>17, Numbers DEF RecScan, InScan, KeepsRecon, NoRecon
    <2> QED  BY <1>1, <1>2, <1>3, <1>17, <2>1 DEF RecScan, Keeps, store
  <1>18. ASSUME NEW n \in Nos, ChargeDrain(n) \/ CheckScan(n) PROVE Keeps
    BY <1>1, <1>2, <1>3, <1>4, <1>18
       DEF ChargeDrain, CheckScan, Keeps, store, OthersUnchanged, cron
  <1>19. ASSUME NEW n \in Nos, Deliver(n) \/ EchoCaptured(n) PROVE Keeps
    BY <1>1, <1>2, <1>3, <1>4, <1>19
       DEF Deliver, EchoCaptured, Keeps, OthersUnchanged, cron
  <1>20. CASE RetryUnresolved
    <2>1. KeepsJob
      BY <1>0, <1>5, <1>20 DEF RetryUnresolved
    <2>2. KeepsAttempts
      BY <1>0, <1>20, StatedAttempt DEF RetryUnresolved, KeepsAttempts, Decided
    <2> QED  BY <1>1, <1>4, <1>20, <2>1, <2>2 DEF RetryUnresolved, Keeps, cron
  <1>21. CASE Discard \/ DrainMark
    <2>1. KeepsJob
      BY <1>0, <1>5, <1>21 DEF Discard, DrainMark
    <2> QED
      BY <1>1, <1>2, <1>4, <1>21, <2>1 DEF Discard, DrainMark, Keeps, OthersUnchanged, cron
  <1>22. CASE Resume \/ UNCHANGED vars
    BY <1>1, <1>2, <1>3, <1>4, <1>22 DEF Resume, Keeps, vars, store, cron
  <1>23. CASE Expire
    <2>1. KeepsJob
      BY <1>0, <1>23 DEF Expire, KeepsJob, Jobs
    <2> QED  BY <1>1, <1>2, <1>4, <1>23, <2>1 DEF Expire, Keeps, OthersUnchanged, cron
  <1>24. CASE TenMinutes
    <2>1. KeepsAttempts
      BY <1>0, <1>24, OlderAttempt DEF TenMinutes, KeepsAttempts
    <2> QED  BY <1>1, <1>3, <1>4, <1>24, <2>1 DEF TenMinutes, Keeps, OthersUnchanged, cron
  <1> QED
    BY <1>6, <1>7, <1>8, <1>9, <1>10, <1>12, <1>13, <1>14, <1>15, <1>16, <1>17, <1>18,
       <1>19, <1>20, <1>21, <1>22, <1>23, <1>24 DEF Next, Cron

LEMMA RowsStart == ASSUME Init PROVE Rows
  <1>1. /\ \A n \in Nos : att[n] = NoAttempt
        /\ \A w \in Workers : loop[w] = Idle
        /\ job.attempts = 0 /\ recon = NoRecon
    BY DEF Init
  <1>2. \A n \in Nos : n \in Nat /\ ~(n <= 0)
    BY QueueAssumption DEF Nos, Counts
  <1> QED
    BY <1>1, <1>2 DEF Rows, AttemptsMatchRows, OneAttemptPerLease, NoAttempt, Idle, NoRecon

LEMMA RowsStep == ASSUME Typed, Rows, [Next]_vars PROVE Rows'
  <1>1. Typed'
    BY NextTyped
  <1>2. ASSUME NEW w \in Workers, Loop(w) PROVE Rows'
    <2>1. CASE Claim(w)
      BY <2>1, ClaimRows
    <2>2. CASE Prepare(w)
      BY <2>2, PrepareRows
    <2>3. CASE ~Claim(w) /\ ~Prepare(w)
      BY <1>1, <1>2, <2>3, LoopKeeps, KeepsRows
    <2> QED  BY <2>1, <2>2, <2>3
  <1>3. CASE \A w \in Workers : ~Loop(w)
    BY <1>1, <1>3, OtherStepsKeep, KeepsRows
  <1> QED  BY <1>2, <1>3

\* The rows of send_attempts are the first `attempts` numbers, each under a
\* lease of its own, however claims, stalls, reaps and retries interleave: the
\* reaper's LEFT JOIN on the lease finds at most one attempt.
THEOREM AttemptsAreCounted == Spec => [](AttemptsMatchRows /\ OneAttemptPerLease)
  <1>1. Rows => AttemptsMatchRows /\ OneAttemptPerLease
    BY DEF Rows
  <1> QED  BY <1>1, InitTyped, NextTyped, RowsStart, RowsStep, PTL DEF Spec

-----------------------------------------------------------------------------
(* A final status. *)

\* The writes of a loop ask for processing, in their own predicate or, for
\* the claim, for queued.
LEMMA LoopKeepsFinal ==
    ASSUME Typed, NEW w \in Workers, Loop(w), job.status \in Final
    PROVE  job'.status = job.status
  <1>1. /\ job \in Jobs /\ ~Holds(job, loop[w].lease)
        /\ job.status # "queued"
    BY DEF Typed, TypeOK, Holds, Final
  <1> QED
    BY <1>1 DEF Loop, Claim, MediaDefers, OptOut, Prepare, PrepareFails, Dispatch,
                Extend, Acked, Refused, TimesOut, RecordAck, SettleAck,
                RecordFailure, SettleFailure, Abandon, store, Jobs

\* The writes of the sweeps, of people and of drain ask for processing,
\* needs_reconcile, queued or blocked_needs_review.
LEMMA OtherStepsKeepFinal ==
    ASSUME Typed, [Next]_vars, \A w \in Workers : ~Loop(w), job.status \in Final
    PROVE  job'.status = job.status
  <1>1. /\ job \in Jobs
        /\ job.status \notin {"queued", "processing", "needs_reconcile",
                              "blocked_needs_review"}
        /\ \A s : IfUnresolved(job, s) = job
    BY DEF Typed, TypeOK, Final, IfUnresolved
  <1>2. CASE Cron
    BY <1>1, <1>2 DEF Cron, Reap, ReapedSent, ReapedFailed, RecDecide, RecAmbiguous,
                RecExpired, RecResolve, RecSink, CheckCharge, SweepDies, RecScan,
                ChargeDrain, CheckScan, store
  <1>3. CASE ~Cron
    BY <1>1, <1>3 DEF Next, Deliver, EchoCaptured, RetryUnresolved, Discard, Resume,
                DrainMark, Expire, TenMinutes, vars, store
  <1> QED  BY <1>2, <1>3

\* A settlement, repair, reconciliation or human decision that comes late
\* never changes a job that is sent, failed or cancelled.
THEOREM FinalIsFinal == Spec => TerminalIsFinal
  <1>1. ASSUME Typed, [Next]_vars
        PROVE  [job.status \in Final => job'.status = job.status]_vars
    BY <1>1, LoopKeepsFinal, OtherStepsKeepFinal
  <1> QED  BY <1>1, InitTyped, NextTyped, PTL DEF Spec, TerminalIsFinal

-----------------------------------------------------------------------------
(* A message called sent. *)

\* SentWasDelivered as an inductive invariant: ids are kept of messages that
\* were taken only, a loop that heard an ack has such a message, and nothing
\* is settled before there is one.
Evidence ==
    /\ wire.echoes \cup wire.owned \subseteq wire.delivered
    /\ \A w \in Workers :
         loop[w].pc \in {"acking", "charging"} => loop[w].no \in wire.delivered
    /\ job.status = "sent" => wire.delivered # {}
    /\ \A n \in Nos : att[n].state \in Settled => wire.delivered # {}

\* Nothing that was taken is forgotten, and the ids stay those of messages
\* that were taken.
LEMMA WireGrows ==
    ASSUME Typed, Evidence, [Next]_vars
    PROVE  /\ wire.delivered \subseteq wire'.delivered
           /\ wire'.echoes \cup wire'.owned \subseteq wire'.delivered
  <1> DEFINE Grows == /\ wire.delivered \subseteq wire'.delivered
                      /\ wire'.echoes \cup wire'.owned \subseteq wire'.delivered
  <1>0. /\ wire \in Wires /\ wire.echoes \subseteq wire.delivered
        /\ wire.owned \subseteq wire.delivered
    BY DEF Typed, TypeOK, Evidence
  <1>1. ASSUME wire' = wire PROVE Grows
    BY <1>0, <1>1
  <1>2. ASSUME NEW n \in wire.delivered, wire' = Own(wire, n) PROVE Grows
    BY <1>0, <1>2 DEF Own, Wires
  <1>3. ASSUME NEW w \in Workers, Loop(w) PROVE Grows
    <2>1. CASE Dispatch(w) \/ Refused(w)
      BY <1>0, <2>1 DEF Dispatch, Refused, Wires
    <2>2. CASE SettleAck(w)
      <3>1. loop[w].no \in wire.delivered
        BY <2>2 DEF SettleAck, At, Evidence
      <3> QED  BY <1>1, <1>2, <2>2, <3>1 DEF SettleAck
    <2>3. CASE ~(Dispatch(w) \/ Refused(w) \/ SettleAck(w))
      <3>1. wire' = wire
        BY <1>3, <2>3
           DEF Loop, Claim, MediaDefers, OptOut, Prepare, PrepareFails, Extend, Acked,
               TimesOut, RecordAck, RecordFailure, SettleFailure, Abandon, store
      <3> QED  BY <1>1, <3>1
    <2> QED  BY <2>1, <2>2, <2>3
  <1>4. ASSUME NEW n \in Nos, Deliver(n) \/ EchoCaptured(n) PROVE Grows
    BY <1>0, <1>4 DEF Deliver, EchoCaptured, Wires
  <1>5. CASE RecResolve
    <2>1. recon.echo \in wire.owned \cup wire.echoes => recon.echo \in wire.delivered
      BY <1>0
    <2> QED  BY <1>1, <1>2, <1>5, <2>1 DEF RecResolve
  <1>6. CASE Cron /\ ~RecResolve
    <2>1. wire' = wire
      BY <1>6 DEF Cron, Reap, ReapedSent, ReapedFailed, RecDecide, RecAmbiguous,
                  RecExpired, RecSink, CheckCharge, SweepDies, RecScan,
                  ChargeDrain, CheckScan, store
    <2> QED  BY <1>1, <2>1
  <1>7. CASE \/ RetryUnresolved \/ Discard \/ Resume \/ DrainMark \/ Expire
             \/ TenMinutes \/ UNCHANGED vars
    <2>1. wire' = wire
      BY <1>7 DEF RetryUnresolved, Discard, Resume, DrainMark, Expire, TenMinutes,
                  vars, store
    <2> QED  BY <1>1, <2>1
  <1>8. \/ \E w \in Workers : Loop(w)
        \/ \E n \in Nos : Deliver(n) \/ EchoCaptured(n)
        \/ RecResolve
        \/ Cron /\ ~RecResolve
        \/ \/ RetryUnresolved \/ Discard \/ Resume \/ DrainMark \/ Expire
           \/ TenMinutes \/ UNCHANGED vars
    BY Zenon DEF Next
  <1> QED  BY <1>3, <1>4, <1>5, <1>6, <1>7, <1>8

\* While WhatsApp has taken nothing, a loop neither hears an ack nor settles.
LEMMA LoopSettlesDelivered ==
    ASSUME Typed, Evidence, NEW w \in Workers, Loop(w), wire'.delivered = {},
           wire.delivered = {}
    PROVE  /\ job'.status # "sent"
           /\ \A n \in Nos : att'[n].state \notin Settled
           /\ \A v \in Workers : loop'[v].pc \notin {"acking", "charging"}
  <1>0. /\ job \in Jobs /\ att \in [Nos -> Attempts] /\ loop \in [Workers -> Loops]
        /\ job.status # "sent" /\ \A n \in Nos : att[n].state \notin Settled
        /\ \A v \in Workers : loop[v].pc \notin {"acking", "charging"}
        /\ {"queued", "failed", "cancelled"} \subseteq Statuses
    BY DEF Typed, TypeOK, Evidence, Statuses, Final
  <1>1. ~(Acked(w) \/ RecordAck(w) \/ SettleAck(w))
    BY <1>0 DEF Acked, RecordAck, SettleAck, At
  <1>2. \A v \in Workers : loop'[v].pc \notin {"acking", "charging"}
    <2>1. \/ Claim(w)
          \/ Ends(w)
          \/ \E pc \in {"prepared", "sending", "settling"} : MovesTo(w, pc)
          \/ \E c \in Classes : FailsAs(w, c)
          \/ loop' = loop
      BY <1>1
         DEF Loop, MediaDefers, OptOut, Prepare, PrepareFails, Dispatch, Extend,
             Refused, TimesOut, RecordFailure, SettleFailure, Abandon, Classes
    <2>2. CASE Claim(w)
      BY <1>0, <2>2 DEF Claim, Idle
    <2>3. CASE Ends(w) \/ loop' = loop
      BY <1>0, <2>3 DEF Ends, Idle
    <2>4. ASSUME NEW pc \in {"prepared", "sending", "settling"}, MovesTo(w, pc)
          PROVE  \A v \in Workers : loop'[v].pc \notin {"acking", "charging"}
      BY <1>0, <2>4 DEF MovesTo, Loops
    <2>5. ASSUME NEW c \in Classes, FailsAs(w, c)
          PROVE  \A v \in Workers : loop'[v].pc \notin {"acking", "charging"}
      BY <1>0, <2>5 DEF FailsAs, Loops
    <2> QED  BY <2>1, <2>2, <2>3, <2>4, <2>5
  <1>3. \A n \in Nos : att'[n].state \notin Settled
    <2>1. CASE Prepare(w)
      BY <1>0, <2>1 DEF Prepare, NoAttempt, Settled
    <2>2. CASE Dispatch(w)
      BY <1>0, <2>2 DEF Dispatch, Stated, Settled, Attempts
    <2>3. CASE RecordFailure(w)
      BY <1>0, <2>3 DEF RecordFailure, Stated, Settled, Attempts
    <2>4. CASE ~(Prepare(w) \/ Dispatch(w) \/ RecordFailure(w))
      <3>1. att' = att
        BY <1>1, <2>4
           DEF Loop, Claim, MediaDefers, OptOut, PrepareFails, Extend, Refused,
               TimesOut, SettleFailure, Abandon, store
      <3> QED  BY <1>0, <3>1
    <2> QED  BY <2>1, <2>2, <2>3, <2>4
  <1>4. job'.status # "sent"
    <2>1. CASE Claim(w)
      BY <1>0, <2>1, ClaimedJob DEF Claim, Forgotten
    <2>2. CASE MediaDefers(w) \/ OptOut(w)
      BY <1>0, <2>2, UnleasedJob DEF MediaDefers, OptOut
    <2>3. CASE SettleFailure(w)
      <3> DEFINE s == AfterFailure(loop[w].class, loop[w].no)
      <3>1. s \in Statuses /\ s # "sent"
        BY AfterFailureStatus
      <3>2. job' = Become(job, s) \/ job' = job
        BY <2>3 DEF SettleFailure
      <3> HIDE DEF s
      <3>3. Become(job, s).status = s
        BY <1>0, <3>1, BecomeJob
      <3> QED  BY <1>0, <3>1, <3>2, <3>3
    <2>4. CASE ~(Claim(w) \/ MediaDefers(w) \/ OptOut(w) \/ SettleFailure(w))
      BY <1>0, <1>1, <2>4
         DEF Loop, Prepare, PrepareFails, Dispatch, Extend, Refused, TimesOut,
             RecordFailure, Abandon, store, Jobs
    <2> QED  BY <2>1, <2>2, <2>3, <2>4
  <1> QED  BY <1>2, <1>3, <1>4

\* Nor does any other step call something sent.
LEMMA OthersSettleDelivered ==
    ASSUME Typed, Evidence, [Next]_vars, \A w \in Workers : ~Loop(w),
           wire.delivered = {}
    PROVE  /\ job'.status # "sent"
           /\ \A n \in Nos : att'[n].state \notin Settled
           /\ loop' = loop
  <1>0. /\ job \in Jobs /\ att \in [Nos -> Attempts]
        /\ job.status # "sent" /\ \A n \in Nos : att[n].state \notin Settled
        /\ {"queued", "cancelled", "needs_reconcile", "blocked_needs_review"}
             \subseteq Statuses
    BY DEF Typed, TypeOK, Evidence, Statuses, Final
  <1>1. loop' = loop
    BY DEF Next, Cron, Reap, ReapedSent, ReapedFailed, RecDecide, RecAmbiguous,
           RecExpired, RecResolve, RecSink, CheckCharge, SweepDies, RecScan,
           ChargeDrain, CheckScan, Deliver, EchoCaptured, RetryUnresolved, Discard,
           Resume, DrainMark, Expire, TenMinutes, vars, store
  <1>2. CASE Reap
    <2>1. PICK n \in Counts : job' = Reaped(job, StateOf(n))
      BY <1>2 DEF Reap
    <2>2. StateOf(n) # "acked"
      BY <1>0, <2>1, Numbers DEF StateOf, Settled
    <2> QED  BY <1>0, <1>1, <1>2, <2>1, <2>2, ReapedJob DEF Reap
  <1>3. CASE ReapedFailed
    <2> DEFINE s == AfterFailure(reaper.class, reaper.no)
    <2>1. s \in Statuses /\ s # "sent"
      BY AfterFailureStatus
    <2>2. att' = att /\ job' = IfUnresolved(job, s)
      BY <1>3 DEF ReapedFailed
    <2> HIDE DEF s
    <2> QED  BY <1>0, <1>1, <2>1, <2>2, IfUnresolvedJob
  <1>4. CASE RecAmbiguous
    BY <1>0, <1>1, <1>4, IfUnresolvedJob DEF RecAmbiguous
  <1>5. CASE RecExpired
    <2>1. job'.status # "sent"
      BY <1>0, <1>5, IfUnresolvedJob DEF RecExpired
    <2>2. \A n \in Nos : att'[n].state \notin Settled
      BY <1>0, <1>5 DEF RecExpired, Stated, Settled, Attempts
    <2> QED  BY <1>1, <2>1, <2>2
  <1>6. CASE RecResolve
    <2>1. recon.echo \notin wire.owned \cup wire.echoes
      BY DEF Evidence
    <2>2. att' = att /\ job' = IfUnresolved(job, "blocked_needs_review")
      BY <1>6, <2>1 DEF RecResolve
    <2> QED  BY <1>0, <1>1, <2>2, IfUnresolvedJob
  <1>7. CASE RetryUnresolved
    <2>1. job'.status # "sent"
      BY <1>0, <1>7, BecomeJob DEF RetryUnresolved
    <2>2. \A n \in Nos : att'[n].state \notin Settled
      BY <1>0, <1>7, StatedAttempt DEF RetryUnresolved, Settled, Decided
    <2> QED  BY <1>1, <2>1, <2>2
  <1>8. CASE Discard \/ DrainMark \/ Expire
    <2>1. att' = att /\ job'.status # "sent"
      BY <1>0, <1>8, BecomeJob DEF Discard, DrainMark, Expire, Jobs
    <2> QED  BY <1>0, <1>1, <2>1
  <1>9. CASE TenMinutes
    BY <1>0, <1>1, <1>9, OlderAttempt DEF TenMinutes
  <1>10. CASE ~(\/ Reap \/ ReapedFailed \/ RecAmbiguous \/ RecExpired \/ RecResolve
                \/ RetryUnresolved \/ Discard \/ DrainMark \/ Expire \/ TenMinutes)
    <2>1. att' = att /\ job' = job
      BY <1>10 DEF Next, Cron, ReapedSent, RecDecide, RecSink, CheckCharge, SweepDies,
                   RecScan, ChargeDrain, CheckScan, Deliver, EchoCaptured, Resume,
                   vars, store
    <2> QED  BY <1>0, <1>1, <2>1
  <1> QED
    BY <1>2, <1>3, <1>4, <1>5, <1>6, <1>7, <1>8, <1>9, <1>10

\* What a loop has in hand after the ack is a message that was taken.
LEMMA AckedStaysDelivered ==
    ASSUME Typed, Evidence, [Next]_vars, NEW v \in Workers,
           loop'[v].pc \in {"acking", "charging"}
    PROVE  loop'[v].no \in wire'.delivered
  <1>0. loop \in [Workers -> Loops] /\ wire.delivered \subseteq wire'.delivered
    BY WireGrows DEF Typed, TypeOK
  <1>1. ASSUME NEW w \in Workers, Loop(w) PROVE loop'[v].no \in wire'.delivered
    <2>1. \/ Claim(w)
          \/ Ends(w)
          \/ \E pc \in {"prepared", "sending", "settling"} : MovesTo(w, pc)
          \/ loop[w].no \in wire.delivered /\ MovesTo(w, "acking")
          \/ loop[w].pc = "acking" /\ MovesTo(w, "charging")
          \/ \E c \in Classes : FailsAs(w, c)
          \/ loop' = loop
      BY <1>1
         DEF Loop, MediaDefers, OptOut, Prepare, PrepareFails, Dispatch, Extend, Acked,
             Refused, TimesOut, RecordAck, SettleAck, RecordFailure, SettleFailure,
             Abandon, Classes, At
    <2>2. CASE Claim(w)
      <3>1. v # w /\ loop'[v] = loop[v]
        BY <1>0, <2>2 DEF Claim, Idle
      <3> QED  BY <1>0, <3>1 DEF Evidence
    <2>3. CASE Ends(w) \/ loop' = loop
      BY <1>0, <2>3 DEF Ends, Idle, Evidence
    <2>4. ASSUME NEW pc \in {"prepared", "sending", "settling"}, MovesTo(w, pc)
          PROVE  loop'[v].no \in wire'.delivered
      BY <1>0, <2>4 DEF MovesTo, Loops, Evidence
    <2>5. CASE \/ loop[w].no \in wire.delivered /\ MovesTo(w, "acking")
               \/ loop[w].pc = "acking" /\ MovesTo(w, "charging")
      BY <1>0, <2>5 DEF MovesTo, Loops, Evidence
    <2>6. ASSUME NEW c \in Classes, FailsAs(w, c)
          PROVE  loop'[v].no \in wire'.delivered
      BY <1>0, <2>6 DEF FailsAs, Loops, Evidence
    <2> QED  BY <2>1, <2>2, <2>3, <2>4, <2>5, <2>6
  <1>2. CASE \A w \in Workers : ~Loop(w)
    <2>1. loop' = loop
      BY <1>2
         DEF Next, Cron, Reap, ReapedSent, ReapedFailed, RecDecide, RecAmbiguous,
             RecExpired, RecResolve, RecSink, CheckCharge, SweepDies, RecScan,
             ChargeDrain, CheckScan, Deliver, EchoCaptured, RetryUnresolved, Discard,
             Resume, DrainMark, Expire, TenMinutes, vars, store
    <2> QED  BY <1>0, <2>1 DEF Evidence
  <1> QED  BY <1>1, <1>2

LEMMA EvidenceStart == ASSUME Init PROVE Evidence
  BY DEF Init, Evidence, Idle, NoAttempt, Settled

LEMMA EvidenceStep == ASSUME Typed, Evidence, [Next]_vars PROVE Evidence'
  <1>1. /\ wire'.echoes \cup wire'.owned \subseteq wire'.delivered
        /\ wire.delivered \subseteq wire'.delivered
    BY WireGrows
  <1>2. \A v \in Workers :
          loop'[v].pc \in {"acking", "charging"} => loop'[v].no \in wire'.delivered
    BY AckedStaysDelivered
  <1>3. ASSUME wire'.delivered = {}
        PROVE  /\ job'.status # "sent"
               /\ \A n \in Nos : att'[n].state \notin Settled
    <2>1. wire.delivered = {}
      BY <1>1, <1>3
    <2> QED  BY <1>3, <2>1, LoopSettlesDelivered, OthersSettleDelivered
  <1> QED  BY <1>1, <1>2, <1>3 DEF Evidence

\* A job is called sent only when WhatsApp has taken one of its messages,
\* whether the loop, the reaper or the reconciler says so.
THEOREM SentIsDelivered == Spec => []SentWasDelivered
  <1>1. Evidence => SentWasDelivered
    BY DEF Evidence, SentWasDelivered
  <1> QED  BY <1>1, InitTyped, NextTyped, EvidenceStart, EvidenceStep, PTL DEF Spec

-----------------------------------------------------------------------------
(* Who writes what. *)

LEMMA AttemptWriters ==
    ASSUME [Next]_vars
    PROVE  \/ att' = att
           \/ \E w \in Workers : Prepare(w) \/ Dispatch(w) \/ RecordAck(w) \/ RecordFailure(w)
           \/ RecExpired \/ RecResolve \/ RetryUnresolved \/ TenMinutes
  BY DEF Next, Loop, Cron, Claim, MediaDefers, OptOut, PrepareFails, Extend, Acked, Refused,
         TimesOut, SettleAck, SettleFailure, Abandon, Reap, ReapedSent, ReapedFailed,
         RecDecide, RecAmbiguous, RecSink, CheckCharge, SweepDies, RecScan, ChargeDrain,
         CheckScan, Deliver, EchoCaptured, Discard, Resume, DrainMark, Expire, vars, store

LEMMA JobWriters ==
    ASSUME [Next]_vars
    PROVE  \/ job' = job
           \/ \E w \in Workers : \/ Claim(w) \/ MediaDefers(w) \/ OptOut(w) \/ Prepare(w)
                                 \/ Extend(w) \/ SettleAck(w) \/ SettleFailure(w)
           \/ Reap \/ ReapedFailed \/ RecAmbiguous \/ RecExpired \/ RecResolve
           \/ RetryUnresolved \/ Discard \/ DrainMark \/ Expire
  BY DEF Next, Loop, Cron, PrepareFails, Dispatch, Acked, Refused, TimesOut, RecordAck,
         RecordFailure, Abandon, ReapedSent, RecDecide, RecSink, CheckCharge, SweepDies,
         RecScan, ChargeDrain, CheckScan, Deliver, EchoCaptured, Resume, TenMinutes, vars,
         store

LEMMA WireWriters ==
    ASSUME [Next]_vars
    PROVE  \/ wire' = wire
           \/ \E w \in Workers : Dispatch(w) \/ Refused(w) \/ SettleAck(w)
           \/ \E n \in Nos : Deliver(n) \/ EchoCaptured(n)
           \/ RecResolve
  BY DEF Next, Loop, Cron, Claim, MediaDefers, OptOut, Prepare, PrepareFails, Extend, Acked,
         TimesOut, RecordAck, RecordFailure, SettleFailure, Abandon, Reap, ReapedSent,
         ReapedFailed, RecDecide, RecAmbiguous, RecExpired, RecSink, CheckCharge, SweepDies,
         RecScan, ChargeDrain, CheckScan, RetryUnresolved, Discard, Resume, DrainMark,
         Expire, TenMinutes, vars, store

LEMMA WalletWriters ==
    ASSUME [Next]_vars
    PROVE  \/ wallet' = wallet
           \/ \E w \in Workers : SettleAck(w)
           \/ \E n \in Nos : ChargeDrain(n)
           \/ ReapedSent \/ RecSink \/ CheckCharge
  BY DEF Next, Loop, Cron, Claim, MediaDefers, OptOut, Prepare, PrepareFails, Dispatch,
         Extend, Acked, Refused, TimesOut, RecordAck, RecordFailure, SettleFailure, Abandon,
         Reap, ReapedFailed, RecDecide, RecAmbiguous, RecExpired, RecResolve, SweepDies,
         RecScan, CheckScan, Deliver, EchoCaptured, RetryUnresolved, Discard, Resume,
         DrainMark, Expire, TenMinutes, vars, store

LEMMA SweepWriters ==
    ASSUME [Next]_vars
    PROVE  /\ reaper' \in {reaper, NoReap} \/ Reap
           /\ \/ recon' \in {recon, NoRecon} \/ RecDecide \/ RecResolve
              \/ \E n \in Nos : RecScan(n)
           /\ check' \in {check, NoCheck} \/ \E n \in Nos : CheckScan(n)
  <1>1. CASE Cron
    BY <1>1 DEF Cron, Reap, ReapedSent, ReapedFailed, RecDecide, RecAmbiguous, RecExpired,
                RecResolve, RecSink, CheckCharge, SweepDies, RecScan, ChargeDrain, CheckScan,
                OthersUnchanged, cron
  <1>2. CASE ~Cron
    <2>1. UNCHANGED cron
      BY <1>2 DEF Next, Loop, Claim, MediaDefers, OptOut, Prepare, PrepareFails, Dispatch,
                  Extend, Acked, Refused, TimesOut, RecordAck, SettleAck, RecordFailure,
                  SettleFailure, Abandon, Deliver, EchoCaptured, RetryUnresolved, Discard,
                  Resume, DrainMark, Expire, TenMinutes, vars, OthersUnchanged
    <2> QED  BY <2>1 DEF cron
  <1> QED  BY <1>1, <1>2

\* Past its claim a loop goes on with the number and the lease of the claim.
LEMMA LoopMoves ==
    ASSUME Typed, Rows, [Next]_vars, NEW w \in Workers,
           loop'[w].pc \notin {"idle", "claimed"}
    PROVE  /\ loop'[w].no = loop[w].no /\ loop'[w].lease = loop[w].lease
           /\ \/ loop[w].pc \notin {"idle", "claimed"}
              \/ Prepare(w)
  <1>1. ASSUME NEW v \in Workers, Claim(v)
        PROVE  loop'[w] = loop[w]
    BY <1>1 DEF Claim, Idle, Typed, TypeOK
  <1>2. ASSUME NEW v \in Workers, Prepare(v)
        PROVE  /\ loop'[w].no = loop[w].no /\ loop'[w].lease = loop[w].lease
               /\ loop[w].pc \notin {"idle", "claimed"} \/ Prepare(w)
    BY <1>2 DEF Prepare, MovesTo, Typed, TypeOK, Loops
  <1>3. CASE \A v \in Workers : ~Claim(v) /\ ~Prepare(v)
    <2>1. KeepsLoops
      BY <1>3, LoopKeeps, OtherStepsKeep DEF Keeps
    <2> QED  BY <2>1 DEF KeepsLoops
  <1> QED  BY <1>1, <1>2, <1>3

\* A write of the job that is no claim leaves it in processing only under its lease.
LEMMA LeaseKept ==
    ASSUME Typed, [Next]_vars, job'.status = "processing", \A w \in Workers : ~Claim(w)
    PROVE  job.status = "processing" /\ job'.lease = job.lease
  <1>0. /\ job \in Jobs
        /\ {"queued", "sent", "cancelled", "needs_reconcile", "blocked_needs_review"}
             \subseteq Statuses \ {"processing"}
    BY DEF Typed, TypeOK, Statuses, Final
  <1>1. ASSUME NEW s \in Statuses \ {"processing"}
        PROVE  /\ Become(job, s).status # "processing" /\ Unleased(job, s).status # "processing"
               /\ IfUnresolved(job, s).status = "processing" => IfUnresolved(job, s) = job
    <2>1. Become(job, s).status = s /\ Unleased(job, s).status = s
      BY <1>0, BecomeJob, UnleasedJob
    <2> QED  BY <1>0, <2>1 DEF IfUnresolved
  <1>2. \A c, m : AfterFailure(c, m) \in Statuses \ {"processing"}
    BY DEF AfterFailure, Statuses, Final
  <1>3. ASSUME NEW w \in Workers
        PROVE  /\ MediaDefers(w) \/ OptOut(w) \/ SettleAck(w) \/ SettleFailure(w) => job' = job
               /\ Prepare(w) \/ Extend(w) => job'.status = job.status /\ job'.lease = job.lease
    <2>1. MediaDefers(w) \/ OptOut(w) \/ SettleAck(w) => job' = job
      BY <1>0, <1>1 DEF MediaDefers, OptOut, SettleAck
    <2>2. SettleFailure(w) => job' = job
      BY <1>1, <1>2 DEF SettleFailure
    <2>3. Prepare(w) \/ Extend(w) => job'.status = job.status /\ job'.lease = job.lease
      BY <1>0 DEF Prepare, Extend, Jobs
    <2> QED  BY <2>1, <2>2, <2>3
  <1>4. ~Reap
    <2>1. ASSUME NEW m \in Counts, job' = Reaped(job, StateOf(m)) PROVE FALSE
      <3> DEFINE s == CASE StateOf(m) = "none"     -> "queued"
                        [] StateOf(m) = "prepared" -> IF Exhausted(job.attempts)
                                                      THEN "failed" ELSE "queued"
                        [] StateOf(m) = "acked"    -> "sent"
                        [] OTHER                   -> "needs_reconcile"
      <3>1. s \in Statuses \ {"processing"}
        BY DEF Statuses, Final
      <3>2. job' = Unleased(job, s)
        BY <2>1 DEF Reaped
      <3> HIDE DEF s
      <3> QED  BY <1>1, <3>1, <3>2
    <2> QED  BY <2>1 DEF Reap
  <1>5. ReapedFailed => job' = job
    <2> DEFINE s == AfterFailure(reaper.class, reaper.no)
    <2>1. s \in Statuses \ {"processing"}
      BY <1>2
    <2>2. ReapedFailed => job' = IfUnresolved(job, s)
      BY DEF ReapedFailed
    <2> HIDE DEF s
    <2> QED  BY <1>1, <2>1, <2>2
  <1>6. RecAmbiguous \/ RecExpired \/ RecResolve => job' = job
    BY <1>0, <1>1 DEF RecAmbiguous, RecExpired, RecResolve
  <1>7. ~RetryUnresolved /\ ~Discard /\ ~DrainMark
    BY <1>0, <1>1 DEF RetryUnresolved, Discard, DrainMark
  <1>8. Expire => job'.status = job.status /\ job'.lease = job.lease
    BY <1>0 DEF Expire, Jobs
  <1> QED  BY <1>3, <1>4, <1>5, <1>6, <1>7, <1>8, JobWriters

-----------------------------------------------------------------------------
(* Sweeps that keep up. *)

\* A settled attempt that is ten minutes old: nothing is under way for it any more, no
\* loop, no entry of the charge list, no sweep, and no lease the reaper may judge it by.
Old(n) == att[n].state \in Settled /\ att[n].age >= 1
AtRest ==
    \A n \in Nos : Old(n) =>
        /\ \A w \in Workers : loop[w].pc \notin {"idle", "claimed"} => loop[w].no # n
        /\ n \notin wallet.pending
        /\ reaper.pc = "sent" => reaper.no # n
        /\ recon.pc # "idle" => recon.no # n
        /\ ~(job.status = "processing" /\ att[n].lease = job.lease)

\* So check B corrects what nobody else will pay for any more.
ChargeInv ==
    /\ AtRest
    /\ \A n \in wallet.adjusted : Old(n)
    /\ check # NoCheck =>
         /\ Old(check.no) /\ check.no \notin wallet.adjusted
         /\ ~check.sent => check.no \notin wallet.debits
    /\ ChargedOnce

\* But for time, who writes an attempt sets its age back and is under way for it.
LEMMA OldIsLeft ==
    ASSUME Typed, Rows, AtRest, [Next]_vars, ~TenMinutes, NEW n \in Nos
    PROVE  /\ Old(n)' <=> Old(n)
           /\ Old(n) => att'[n] = att[n]
  <1>0. att \in [Nos -> Attempts]
    BY DEF Typed, TypeOK
  <1>1. ASSUME NEW m \in Nos, NEW s \in {"prepared", "dispatched", "acked", "failed"} \cup Decided,
               att' = [att EXCEPT ![m] = Stated(att[m], s)], ~Old(m)
        PROVE  /\ Old(n)' <=> Old(n)
               /\ Old(n) => att'[n] = att[n]
    <2>1. att'[m].age = 0
      BY <1>0, <1>1 DEF Stated, Attempts
    <2> QED  BY <1>0, <1>1, <2>1 DEF Old
  <1>2. ASSUME NEW w \in Workers, Prepare(w)
        PROVE  /\ Old(n)' <=> Old(n)
               /\ Old(n) => att'[n] = att[n]
    <2>1. /\ loop[w].no \in Nos /\ att[loop[w].no].state = "none"
          /\ att' = [att EXCEPT ![loop[w].no] =
                       [NoAttempt EXCEPT !.state = "prepared", !.lease = loop[w].lease]]
      BY <1>2 DEF Prepare, Preparable
    <2>2. att'[loop[w].no].state = "prepared"
      BY <1>0, <2>1 DEF NoAttempt
    <2> QED  BY <1>0, <2>1, <2>2 DEF Old, Settled
  <1>3. ASSUME NEW w \in Workers, Dispatch(w) \/ RecordAck(w)
        PROVE  /\ Old(n)' <=> Old(n)
               /\ Old(n) => att'[n] = att[n]
    <2>1. /\ loop[w].no \in Nos /\ ~Old(loop[w].no)
          /\ \E s \in {"dispatched", "acked"} :
               att' = [att EXCEPT ![loop[w].no] = Stated(att[loop[w].no], s)]
      BY <1>3 DEF Dispatch, RecordAck, At, Typed, Numbered, AtRest
    <2> QED  BY <1>1, <2>1
  <1>4. ASSUME NEW w \in Workers, RecordFailure(w)
        PROVE  /\ Old(n)' <=> Old(n)
               /\ Old(n) => att'[n] = att[n]
    <2>1. /\ loop[w].no \in Nos /\ ~Old(loop[w].no)
          /\ att' = [att EXCEPT ![loop[w].no] =
                       [Stated(att[loop[w].no], "failed") EXCEPT !.class = loop[w].class]]
      BY <1>4 DEF RecordFailure, At, Typed, Numbered, AtRest
    <2> DEFINE a == Stated(att[loop[w].no], "failed")
    <2>2. a \in Attempts /\ a.state = "failed"
      BY <1>0, <2>1, StatedAttempt
    <2> HIDE DEF a
    <2>3. att'[loop[w].no].state = "failed"
      <3>1. att'[loop[w].no] = [a EXCEPT !.class = loop[w].class]
        BY <1>0, <2>1 DEF a
      <3> QED  BY <2>2, <3>1 DEF Attempts
    <2> QED  BY <1>0, <2>1, <2>3 DEF Old, Settled
  <1>5. CASE RecExpired \/ RecResolve
    <2>1. \/ att' = att
          \/ /\ recon.no \in Nos /\ ~Old(recon.no)
             /\ \E s \in Decided : att' = [att EXCEPT ![recon.no] = Stated(att[recon.no], s)]
      BY <1>5 DEF RecExpired, RecResolve, Typed, Numbered, AtRest, Decided
    <2> QED  BY <1>1, <2>1 DEF Old
  <1>6. CASE RetryUnresolved
    <2>1. \/ att'[n] = att[n]
          \/ att[n].state = "dispatched" /\ att'[n] = Stated(att[n], "reconciled_lost")
      BY <1>6 DEF RetryUnresolved
    <2>2. Stated(att[n], "reconciled_lost").state = "reconciled_lost"
      BY <1>0, StatedAttempt DEF Decided
    <2> QED  BY <2>1, <2>2 DEF Old, Settled
  <1> QED  BY <1>2, <1>3, <1>4, <1>5, <1>6, AttemptWriters DEF Old

\* The charge list gets what a sweep settled, and only that.
LEMMA PendingMoves ==
    ASSUME Typed, [Next]_vars, NEW n \in wallet'.pending
    PROVE  \/ n \in wallet.pending
           \/ reaper.pc = "sent" /\ reaper.no = n
           \/ recon.pc = "sink" /\ recon.no = n
  <1>0. wallet \in Wallets
    BY DEF Typed, TypeOK
  <1>1. ASSUME NEW m \in Nos, wallet' \in Enqueue(wallet, m)
        PROVE  n \in wallet.pending \/ n = m
    BY <1>0, <1>1 DEF Enqueue, Wallets
  <1>2. ASSUME NEW w \in Workers, SettleAck(w)
        PROVE  n \in wallet.pending
    BY <1>0, <1>2 DEF SettleAck, Debit, Wallets
  <1>3. ASSUME NEW m \in Nos, ChargeDrain(m)
        PROVE  n \in wallet.pending
    BY <1>0, <1>3 DEF ChargeDrain, DebitRepaired, Debit, Wallets
  <1>4. CASE CheckCharge
    BY <1>0, <1>4 DEF CheckCharge, Correction, DebitRepaired, Adjust, Debit, Wallets
  <1>5. CASE ReapedSent \/ RecSink
    BY <1>1, <1>5 DEF ReapedSent, RecSink, Typed, Numbered
  <1> QED  BY <1>2, <1>3, <1>4, <1>5, WalletWriters

\* A lease that is judged by was that of the job before, or is one no attempt has.
LEMMA LeaseMoves ==
    ASSUME Typed, [Next]_vars, NEW n \in Nos, job'.status = "processing",
           job'.lease = att[n].lease
    PROVE  job.status = "processing" /\ job.lease = att[n].lease
  <1>1. ASSUME NEW w \in Workers PROVE ~Claim(w)
    <2>1. ASSUME NEW l \in Forgotten PROVE job' # Claimed(job, l)
      <3>1. l \in Leases /\ l # att[n].lease
        BY DEF Forgotten
      <3> QED  BY <3>1, ClaimedJob DEF Typed, TypeOK
    <2> QED  BY <2>1 DEF Claim
  <1> QED  BY <1>1, LeaseKept

\* Nothing is taken up again for an attempt that is at rest.
LEMMA AtRestStep ==
    ASSUME Typed, Rows, AtRest, [Next]_vars, ~Outages
    PROVE  AtRest'
  <1>0. att \in [Nos -> Attempts]
    BY DEF Typed, TypeOK
  <1>1. CASE TenMinutes
    <2>1. /\ job.status # "processing" /\ \A w \in Workers : loop[w].pc = "idle"
          /\ reaper.pc = "idle" /\ recon.pc = "idle" /\ wallet.pending = {}
          /\ UNCHANGED <<job, wallet, loop, reaper, recon>>
      BY <1>1 DEF TenMinutes, CaughtUp, At, NoReap, NoRecon, OthersUnchanged, cron
    <2> QED  BY <2>1 DEF AtRest
  <1>2. CASE ~TenMinutes
    <2> SUFFICES ASSUME NEW n \in Nos, Old(n)'
                 PROVE  /\ \A w \in Workers :
                             loop'[w].pc \notin {"idle", "claimed"} => loop'[w].no # n
                        /\ n \notin wallet'.pending
                        /\ reaper'.pc = "sent" => reaper'.no # n
                        /\ recon'.pc # "idle" => recon'.no # n
                        /\ ~(job'.status = "processing" /\ att'[n].lease = job'.lease)
      BY DEF AtRest
    <2>1. Old(n) /\ att'[n] = att[n]
      BY <1>2, OldIsLeft
    <2>2. att[n].state \in Settled
      BY <2>1 DEF Old
    <2>3. ASSUME NEW w \in Workers, loop'[w].pc \notin {"idle", "claimed"}
          PROVE  loop'[w].no # n
      <3>1. CASE loop[w].pc \notin {"idle", "claimed"}
        BY <2>1, <2>3, <3>1, LoopMoves DEF AtRest
      <3>2. CASE Prepare(w)
        <4>1. att[loop[w].no].state = "none"
          BY <3>2 DEF Prepare, Preparable
        <4> QED  BY <2>2, <2>3, <4>1, LoopMoves DEF Settled
      <3> QED  BY <2>3, <3>1, <3>2, LoopMoves
    <2>4. n \notin wallet'.pending
      <3>1. recon.pc = "sink" => recon.pc # "idle"
        OBVIOUS
      <3> QED  BY <2>1, <3>1, PendingMoves DEF AtRest
    <2>5. ASSUME reaper'.pc = "sent" PROVE reaper'.no # n
      <3>1. CASE reaper' \in {reaper, NoReap}
        BY <2>1, <2>5, <3>1 DEF AtRest, NoReap
      <3>2. CASE Reap
        <4>1. PICK m \in Counts :
                /\ job.status = "processing" /\ Matches(m)
                /\ reaper' = CASE StateOf(m) = "acked" -> [NoReap EXCEPT !.pc = "sent", !.no = m]
                               [] StateOf(m) = "failed" ->
                                    [pc |-> "failed", no |-> m, class |-> att[m].class]
                               [] OTHER -> NoReap
          BY <3>2 DEF Reap
        <4>2. reaper'.no = m /\ StateOf(m) = "acked"
          BY <2>5, <4>1 DEF NoReap
        <4>3. att[m].lease = job.lease
          BY <4>1, <4>2 DEF Matches, StateOf
        <4> QED  BY <2>1, <4>1, <4>2, <4>3 DEF AtRest
      <3> QED  BY <3>1, <3>2, SweepWriters
    <2>6. ASSUME recon'.pc # "idle" PROVE recon'.no # n
      <3>1. CASE recon' \in {recon, NoRecon}
        BY <2>1, <2>6, <3>1 DEF AtRest, NoRecon
      <3>2. CASE RecDecide \/ RecResolve
        <4>0. recon \in Recons
          BY DEF Typed, TypeOK
        <4>1. recon.pc # "idle" /\ (recon'.no = recon.no \/ recon' = NoRecon)
          <5>1. CASE RecDecide
            BY <4>0, <5>1 DEF RecDecide, Recons
          <5>2. CASE RecResolve
            BY <4>0, <5>2 DEF RecResolve, Recons
          <5> QED  BY <3>2, <5>1, <5>2
        <4> QED  BY <2>1, <2>6, <4>1 DEF AtRest, NoRecon
      <3>3. ASSUME NEW m \in Nos, RecScan(m) PROVE recon'.no # n
        <4>1. att[m].state = "dispatched" /\ recon'.no = m
          BY <3>3 DEF RecScan, InScan, NoRecon
        <4> QED  BY <2>2, <4>1 DEF Settled
      <3> QED  BY <3>1, <3>2, <3>3, SweepWriters
    <2>7. ~(job'.status = "processing" /\ att'[n].lease = job'.lease)
      BY <2>1, LeaseMoves DEF AtRest
    <2> QED  BY <2>3, <2>4, <2>5, <2>6, <2>7
  <1> QED  BY <1>1, <1>2

\* What is old stays old.
LEMMA OldStays ==
    ASSUME Typed, Rows, AtRest, [Next]_vars, NEW n \in Nos, Old(n)
    PROVE  Old(n)'
  <1>1. CASE TenMinutes
    <2>1. att[n] \in Attempts /\ att' = [m \in Nos |-> Older(att[m])]
      BY <1>1 DEF TenMinutes, Typed, TypeOK
    <2>2. att'[n] = Older(att[n])
      BY <2>1
    <2>3. att[n].age \in Nat
      BY <2>1 DEF Attempts, Ages
    <2>4. att'[n].state = att[n].state /\ att'[n].age >= att[n].age /\ att'[n].age \in Nat
      BY <2>1, <2>2, <2>3 DEF Older, Attempts
    <2> QED  BY <2>3, <2>4 DEF Old
  <1>2. CASE ~TenMinutes
    BY <1>2, OldIsLeft
  <1> QED  BY <1>1, <1>2

\* A debit is added for an attempt somebody is at, or by check B.
LEMMA DebitMoves ==
    ASSUME Typed, AtRest, [Next]_vars, NEW n \in wallet'.debits, n \notin wallet.debits
    PROVE  ~Old(n) \/ (CheckCharge /\ check.sent /\ n = check.no)
  <1>0. wallet \in Wallets
    BY DEF Typed, TypeOK
  <1>1. ASSUME NEW w \in Workers, SettleAck(w)
        PROVE  ~Old(n)
    <2>1. loop[w].pc = "charging" /\ loop[w].no \in Nos
      BY <1>1 DEF SettleAck, At, Typed, Numbered
    <2>2. n = loop[w].no
      BY <1>0, <1>1 DEF SettleAck, Debit, Wallets
    <2> QED  BY <2>1, <2>2 DEF AtRest
  <1>2. ASSUME NEW m \in Nos, ChargeDrain(m)
        PROVE  ~Old(n)
    <2> DEFINE rest == [wallet EXCEPT !.pending = @ \ {m}]
    <2>0. rest \in Wallets /\ rest.debits = wallet.debits
      BY <1>0 DEF Wallets
    <2>1. n = m
      <3>1. wallet' \in {rest, DebitRepaired(rest, m, att[m], job)}
        BY <1>2 DEF ChargeDrain
      <3> HIDE DEF rest
      <3>2. wallet' \in {rest, Debit(rest, m)}
        BY <3>1 DEF DebitRepaired
      <3> QED  BY <2>0, <3>2 DEF Debit, Wallets
    <2> QED  BY <1>2, <2>1 DEF AtRest, ChargeDrain
  <1>3. CASE ReapedSent \/ RecSink
    BY <1>0, <1>3 DEF ReapedSent, RecSink, Enqueue, Wallets
  <1>4. CASE CheckCharge
    BY <1>0, <1>4 DEF CheckCharge, Correction, DebitRepaired, Adjust, Debit, Wallets
  <1> QED  BY <1>1, <1>2, <1>3, <1>4, WalletWriters

\* An adjustment is added by check B alone.
LEMMA AdjustMoves ==
    ASSUME Typed, [Next]_vars, NEW n \in wallet'.adjusted, n \notin wallet.adjusted
    PROVE  CheckCharge /\ ~check.sent /\ n = check.no /\ wallet'.debits = wallet.debits
  <1>0. wallet \in Wallets
    BY DEF Typed, TypeOK
  <1>1. ASSUME NEW w \in Workers, SettleAck(w)
        PROVE  FALSE
    BY <1>0, <1>1 DEF SettleAck, Debit, Wallets
  <1>2. ASSUME NEW m \in Nos, ChargeDrain(m)
        PROVE  FALSE
    BY <1>0, <1>2 DEF ChargeDrain, DebitRepaired, Debit, Wallets
  <1>3. CASE ReapedSent \/ RecSink
    BY <1>0, <1>3 DEF ReapedSent, RecSink, Enqueue, Wallets
  <1>4. CASE CheckCharge
    BY <1>0, <1>4 DEF CheckCharge, Correction, DebitRepaired, Adjust, Debit, Wallets
  <1> QED  BY <1>1, <1>2, <1>3, <1>4, WalletWriters

LEMMA WalletGrows ==
    ASSUME Typed, [Next]_vars
    PROVE  wallet'.adjusted \subseteq Nos /\ wallet'.debits \subseteq Nos
  BY NextTyped DEF Typed, TypeOK, Wallets

LEMMA ChargeStart == ASSUME Init PROVE ChargeInv
  BY DEF Init, ChargeInv, AtRest, Old, NoAttempt, Settled, ChargedOnce

LEMMA ChargeStep ==
    ASSUME Typed, Rows, ChargeInv, [Next]_vars, ~Outages
    PROVE  ChargeInv'
  <1>0. AtRest /\ ChargedOnce
    BY DEF ChargeInv
  <1>1. AtRest'
    BY <1>0, AtRestStep
  <1>2. ASSUME NEW n \in wallet'.adjusted PROVE Old(n)'
    <2>1. n \in Nos
      BY WalletGrows
    <2>2. Old(n)
      <3>1. CASE n \in wallet.adjusted
        BY <3>1 DEF ChargeInv
      <3>2. CASE n \notin wallet.adjusted
        BY <3>2, AdjustMoves DEF ChargeInv, CheckCharge
      <3> QED  BY <3>1, <3>2
    <2> QED  BY <1>0, <2>1, <2>2, OldStays
  <1>3. ASSUME check' # NoCheck
        PROVE  /\ Old(check.no)' /\ check'.no \notin wallet'.adjusted
               /\ ~check'.sent => check'.no \notin wallet'.debits
    <2>1. CASE check' = check
      <3>1. Old(check.no) /\ check.no \in Nos /\ check.no \notin wallet.adjusted
            /\ (~check.sent => check.no \notin wallet.debits)
        BY <1>3, <2>1 DEF ChargeInv, Typed, Numbered
      <3>2. ~CheckCharge
        BY <1>3, <2>1 DEF CheckCharge
      <3>3. check'.no \notin wallet'.adjusted
        BY <2>1, <3>1, <3>2, AdjustMoves
      <3>4. ~check.sent => check.no \notin wallet'.debits
        BY <1>0, <3>1, <3>2, DebitMoves
      <3>5. PICK m \in Nos : m = check.no
        BY <3>1
      <3>6. Old(m)'
        BY <1>0, <3>1, <3>5, OldStays
      <3>7. Old(check.no)'
        BY <2>1, <3>5, <3>6 DEF Old
      <3> QED  BY <2>1, <3>3, <3>4, <3>7
    <2>2. ASSUME NEW m \in Nos, CheckScan(m)
          PROVE  /\ Old(check.no)' /\ check'.no \notin wallet'.adjusted
                 /\ ~check'.sent => check'.no \notin wallet'.debits
      <3>1. /\ check'.no = m /\ Missing(m) /\ att' = att /\ wallet' = wallet
        BY <2>2 DEF CheckScan, store
      <3>2. Old(m) /\ m \notin wallet.debits \cup wallet.adjusted
        BY <3>1 DEF Missing, Chargeable, Old
      <3>3. Old(check.no)'
        BY <3>1, <3>2 DEF Old
      <3> QED  BY <3>1, <3>2, <3>3
    <2> QED  BY <1>3, <2>1, <2>2, SweepWriters
  <1>4. ChargedOnce'
    <2> SUFFICES ASSUME NEW n \in wallet'.debits, n \in wallet'.adjusted
                 PROVE  FALSE
      BY DEF ChargedOnce
    <2>1. CASE n \in wallet.adjusted
      <3>1. n \notin wallet.debits /\ Old(n)
        BY <1>0, <2>1 DEF ChargeInv, ChargedOnce
      <3>2. CheckCharge /\ n = check.no
        BY <1>0, <3>1, DebitMoves
      <3> QED  BY <2>1, <3>2 DEF ChargeInv, CheckCharge
    <2>2. CASE n \notin wallet.adjusted
      <3>1. CheckCharge /\ ~check.sent /\ n = check.no /\ n \in wallet.debits
        BY <2>2, AdjustMoves
      <3> QED  BY <3>1 DEF ChargeInv, CheckCharge
    <2> QED  BY <2>1, <2>2
  <1> QED  BY <1>1, <1>2, <1>3, <1>4 DEF ChargeInv

\* While the cron role is never down for ten minutes, no attempt is paid for both by a
\* debit and by an adjustment of check B (wallet-check-b.sql), though their guard rows are
\* of different kinds and so do not exclude each other.
THEOREM ChargesAreSingle == ASSUME ~Outages PROVE Spec => []ChargedOnce
  <1>1. ChargeInv => ChargedOnce
    BY DEF ChargeInv
  <1>2. Typed /\ Rows /\ ChargeInv /\ [Next]_vars => ChargeInv'
    BY ChargeStep
  <1> QED  BY <1>1, <1>2, InitTyped, NextTyped, RowsStart, RowsStep, ChargeStart, PTL DEF Spec
-----------------------------------------------------------------------------
(* What a loop has in hand. *)

\* A loop past its claim is at the row of its lease, and while the job has that lease, at
\* the last row.  An attempt that was not made has no lease; a job in processing has one.
RowsOfLoops ==
    /\ \A w \in Workers : loop[w].pc \notin {"idle", "claimed"} =>
         /\ att[loop[w].no].lease = loop[w].lease
         /\ loop[w].lease = job.lease => loop[w].no = job.attempts
    /\ \A n \in Nos : att[n].state = "none" => att[n].lease = NoLease
    /\ job.status = "processing" => job.lease \in Leases

\* So two loops past their claims are at different rows, and a loop with the job's lease is
\* the only one.
LEMMA LoopsApart ==
    ASSUME Typed, Rows, RowsOfLoops, NEW v \in Workers, NEW w \in Workers, v # w,
           loop[v].pc # "idle", loop[w].pc # "idle"
    PROVE  /\ loop[v].lease # loop[w].lease
           /\ loop[v].pc # "claimed" /\ loop[w].pc # "claimed" => loop[v].no # loop[w].no
  BY DEF Rows, RowsOfLoops

\* The row the job's lease stands for is one.
LEMMA RowOfLease ==
    ASSUME Rows, RowsOfLoops, job.status = "processing", NEW m \in Nos, NEW n \in Nos,
           att[m].lease = job.lease, att[n].lease = job.lease
    PROVE  m = n
  <1>1. att[m].state # "none" /\ att[n].state # "none"
    BY QueueAssumption DEF RowsOfLoops, NoLease
  <1> QED  BY <1>1 DEF Rows, OneAttemptPerLease

LEMMA RowsOfLoopsStart == ASSUME Init PROVE RowsOfLoops
  BY DEF Init, RowsOfLoops, Idle, NoAttempt

LEMMA RowsOfLoopsStep ==
    ASSUME Typed, Rows, RowsOfLoops, [Next]_vars
    PROVE  RowsOfLoops'
  <1>0. att \in [Nos -> Attempts] /\ job \in Jobs /\ loop \in [Workers -> Loops]
        /\ NoLease \notin Leases
    BY QueueAssumption DEF Typed, TypeOK, NoLease
  <1>1. ASSUME NEW v \in Workers, Claim(v) PROVE RowsOfLoops'
    <2>1. PICK l \in Forgotten :
            /\ job' = Claimed(job, l)
            /\ loop' = [loop EXCEPT ![v] = [Idle EXCEPT !.pc = "claimed",
                                  !.lease = l, !.no = job.attempts + 1]]
      BY <1>1 DEF Claim
    <2>2. /\ l \in Leases /\ \A w \in Workers : loop[w].lease # l
          /\ att' = att
      BY <1>1 DEF Forgotten, Claim
    <2>3. job'.lease = l
      BY <1>0, <2>1, <2>2, ClaimedJob
    <2>4. \A w \in Workers : loop'[w].pc \notin {"idle", "claimed"} => loop'[w] = loop[w]
      BY <1>0, <2>1 DEF Idle
    <2> QED  BY <2>2, <2>3, <2>4 DEF RowsOfLoops
  <1>2. ASSUME NEW v \in Workers, Prepare(v) PROVE RowsOfLoops'
    <2> DEFINE k == loop[v].no
    <2>1. /\ k \in Nos /\ att[k].state = "none" /\ job.lease = loop[v].lease
          /\ loop[v].pc = "claimed" /\ k = job.attempts + 1
      BY <1>2 DEF Prepare, Preparable, At, Rows
    <2>2. /\ att'[k].state = "prepared" /\ att'[k].lease = loop[v].lease
          /\ \A n \in Nos \ {k} : att'[n] = att[n]
      BY <1>0, <1>2, <2>1 DEF Prepare, NoAttempt
    <2>3. job'.attempts = job.attempts + 1 /\ job'.lease = job.lease /\ job'.status = job.status
      BY <1>0, <1>2 DEF Prepare, Jobs
    <2>4. /\ loop'[v].no = k /\ loop'[v].lease = loop[v].lease
          /\ \A w \in Workers \ {v} : loop'[w] = loop[w]
      BY <1>0, <1>2 DEF Prepare, MovesTo, Loops
    <2>5. ASSUME NEW w \in Workers \ {v}, loop'[w].pc \notin {"idle", "claimed"}
          PROVE  /\ att'[loop'[w].no].lease = loop'[w].lease
                 /\ loop'[w].lease # job'.lease
      <3>1. loop[w].no \in Nos /\ att[loop[w].no].state # "none" /\ loop[w].lease # loop[v].lease
            /\ loop'[w] = loop[w]
        BY <2>1, <2>4, <2>5, LoopsApart DEF Rows, Typed, Numbered
      <3> QED  BY <2>1, <2>2, <2>3, <2>5, <3>1 DEF RowsOfLoops
    <2> HIDE DEF k
    <2> QED  BY <2>1, <2>2, <2>3, <2>4, <2>5 DEF RowsOfLoops
  <1>3. CASE \A v \in Workers : ~Claim(v) /\ ~Prepare(v)
    <2>1. KeepsAttempts /\ KeepsJob /\ KeepsLoops
      BY <1>3, LoopKeeps, OtherStepsKeep DEF Keeps
    <2>2. ASSUME NEW w \in Workers, loop'[w].pc \notin {"idle", "claimed"}
          PROVE  /\ att'[loop'[w].no].lease = loop'[w].lease
                 /\ loop'[w].lease = job'.lease => loop'[w].no = job'.attempts
      <3>1. /\ loop'[w].no = loop[w].no /\ loop'[w].lease = loop[w].lease
            /\ loop[w].pc \notin {"idle", "claimed"}
        BY <2>1, <2>2 DEF KeepsLoops
      <3>2. loop[w].no \in Nos /\ loop[w].lease \in Leases
        BY <3>1 DEF Typed, Numbered, Rows
      <3> QED  BY <1>0, <2>1, <3>1, <3>2 DEF RowsOfLoops, KeepsAttempts, KeepsJob
    <2>3. job'.status = "processing" => job'.lease \in Leases
      BY <1>3, LeaseKept DEF RowsOfLoops
    <2> QED  BY <2>1, <2>2, <2>3 DEF RowsOfLoops, KeepsAttempts
  <1> QED  BY <1>1, <1>2, <1>3
-----------------------------------------------------------------------------
(* Loops that do not stall. *)

Dispatched(n) == att[n].state = "dispatched"
Deciding == recon.pc \in {"found", "ambiguous", "expired", "resolve"}

\* A loop that has not dispatched yet still has the job, and nobody is about to decide it.
UnsentHolds ==
    \A w \in Workers : loop[w].pc \in {"claimed", "prepared"} =>
        /\ loop[w].lease = job.lease /\ job.status \in {"processing", "needs_reconcile"}
        /\ ~Deciding /\ reaper.pc # "failed"
        /\ \A n \in Nos : ~Dispatched(n)

\* What is in doubt is in doubt for the job: a job that is queued has nothing dispatched,
\* and one in processing what its own lease dispatched.
InDoubt ==
    /\ OneDispatched
    /\ \A n \in Nos : Dispatched(n) =>
         /\ job.status # "queued"
         /\ job.status = "processing" => att[n].lease = job.lease
    /\ \A w \in Workers : loop[w].pc \in {"charging", "settling"} => ~Dispatched(loop[w].no)
    /\ reaper.pc = "failed" => job.status = "needs_reconcile" /\ \A n \in Nos : ~Dispatched(n)
    /\ Deciding => job.status = "needs_reconcile" /\ reaper.pc # "failed"
    /\ job.expired => \A w \in Workers : loop[w].pc # "idle" => loop[w].lease # job.lease

Careful == UnsentHolds /\ InDoubt

\* Loops that only go on, and attempts that only come out of doubt.
LoopsGoOn ==
    \A w \in Workers : loop'[w].pc # "idle" =>
        /\ loop[w].pc # "idle"
        /\ loop'[w].lease = loop[w].lease /\ loop'[w].no = loop[w].no
        /\ loop'[w].pc \in {"claimed", "prepared"} => loop[w].pc \in {"claimed", "prepared"}
        /\ loop'[w].pc \in {"charging", "settling"} =>
             loop[w].pc \in {"charging", "settling"} \/ att'[loop[w].no].state # "dispatched"
DoubtsGoOn ==
    \A n \in Nos : att'[n].state = "dispatched" =>
        Dispatched(n) /\ att'[n].lease = att[n].lease
SweepsGoOn ==
    /\ recon'.pc \in {"found", "ambiguous", "expired", "resolve"} => Deciding
    /\ reaper'.pc = "failed" => reaper.pc = "failed"

\* Steps that leave the job where it is.
LEMMA CarefulAway ==
    ASSUME Typed, Careful, LoopsGoOn, DoubtsGoOn, SweepsGoOn,
           job'.status = job.status, job'.lease = job.lease, job'.expired => job.expired
    PROVE  Careful'
  <1>1. UnsentHolds'
    BY DEF Careful, UnsentHolds, LoopsGoOn, DoubtsGoOn, SweepsGoOn, Dispatched, Deciding
  <1>2. /\ OneDispatched'
        /\ \A n \in Nos : att'[n].state = "dispatched" =>
             /\ job'.status # "queued"
             /\ job'.status = "processing" => att'[n].lease = job'.lease
    BY DEF Careful, InDoubt, DoubtsGoOn, Dispatched, OneDispatched
  <1>3. \A w \in Workers : loop'[w].pc \in {"charging", "settling"} =>
          att'[loop'[w].no].state # "dispatched"
    BY DEF Careful, InDoubt, LoopsGoOn, DoubtsGoOn, Dispatched, Typed, Numbered
  <1>4. /\ reaper'.pc = "failed" => job'.status = "needs_reconcile"
                                    /\ \A n \in Nos : att'[n].state # "dispatched"
        /\ recon'.pc \in {"found", "ambiguous", "expired", "resolve"} =>
             job'.status = "needs_reconcile" /\ reaper'.pc # "failed"
        /\ job'.expired =>
             \A w \in Workers : loop'[w].pc # "idle" => loop'[w].lease # job'.lease
    BY DEF Careful, InDoubt, LoopsGoOn, DoubtsGoOn, SweepsGoOn, Dispatched, Deciding
  <1> QED  BY <1>1, <1>2, <1>3, <1>4 DEF Careful, InDoubt, Dispatched, Deciding

\* Steps that take the job out of processing, when nobody is about to dispatch.
LEMMA CarefulOut ==
    ASSUME Typed, Careful, LoopsGoOn, DoubtsGoOn,
           \A w \in Workers : loop'[w].pc \notin {"claimed", "prepared"},
           job'.status # "processing",
           job'.status = "queued" => \A n \in Nos : att'[n].state # "dispatched",
           recon'.pc \notin {"found", "ambiguous", "expired", "resolve"},
           reaper'.pc = "failed" => /\ job'.status = "needs_reconcile"
                                    /\ \A n \in Nos : att'[n].state # "dispatched",
           job'.expired => job.expired /\ job'.lease = job.lease
    PROVE  Careful'
  <1>1. UnsentHolds'
    BY DEF UnsentHolds
  <1>2. OneDispatched'
    BY DEF Careful, InDoubt, DoubtsGoOn, Dispatched, OneDispatched
  <1>3. \A w \in Workers : loop'[w].pc \in {"charging", "settling"} =>
          att'[loop'[w].no].state # "dispatched"
    BY DEF Careful, InDoubt, LoopsGoOn, DoubtsGoOn, Dispatched, Typed, Numbered
  <1>4. job'.expired =>
          \A w \in Workers : loop'[w].pc # "idle" => loop'[w].lease # job'.lease
    BY DEF Careful, InDoubt, LoopsGoOn
  <1> QED  BY <1>1, <1>2, <1>3, <1>4 DEF Careful, InDoubt, Dispatched, Deciding

\* What the iteration of one loop may do to the others' rows and to its own.
LEMMA LoopGoesOn ==
    ASSUME Typed, NEW w \in Workers, Loop(w), ~Claim(w)
    PROVE  /\ LoopsGoOn \/ Prepare(w)
           /\ DoubtsGoOn \/ Dispatch(w)
           /\ SweepsGoOn /\ UNCHANGED <<reaper, recon>>
  <1>0. /\ att \in [Nos -> Attempts] /\ loop \in [Workers -> Loops]
        /\ loop[w].pc \notin {"idle", "claimed"} => loop[w].no \in Nos
    BY DEF Typed, TypeOK, Numbered
  <1>1. SweepsGoOn /\ UNCHANGED <<reaper, recon>>
    BY DEF Loop, Claim, MediaDefers, OptOut, Prepare, PrepareFails, Dispatch, Extend, Acked,
           Refused, TimesOut, RecordAck, SettleAck, RecordFailure, SettleFailure, Abandon,
           OthersUnchanged, cron, SweepsGoOn, Deciding
  <1>2. ASSUME att' = att PROVE DoubtsGoOn
    BY <1>2 DEF DoubtsGoOn, Dispatched
  <1>3. ASSUME loop' = loop \/ Ends(w) PROVE LoopsGoOn
    BY <1>0, <1>3 DEF LoopsGoOn, Ends, Idle
  <1>4. ASSUME NEW pc \in {"sending", "acking", "failing"}, loop[w].pc # "idle",
               MovesTo(w, pc) \/ \E c \in Classes : FailsAs(w, c) /\ pc = "failing"
        PROVE  LoopsGoOn
    <2>1. /\ loop'[w].pc = pc /\ loop'[w].no = loop[w].no /\ loop'[w].lease = loop[w].lease
          /\ \A v \in Workers \ {w} : loop'[v] = loop[v]
      BY <1>0, <1>4 DEF MovesTo, FailsAs, Loops
    <2> QED  BY <1>4, <2>1 DEF LoopsGoOn
  <1>5. CASE RecordAck(w) \/ RecordFailure(w)
    <2>1. PICK pc \in {"charging", "settling"} : MovesTo(w, pc)
      BY <1>5 DEF RecordAck, RecordFailure
    <2>2. loop[w].pc # "idle" /\ loop[w].no \in Nos
      BY <1>0, <1>5 DEF RecordAck, RecordFailure, At
    <2>3. /\ loop'[w].pc = pc /\ loop'[w].no = loop[w].no /\ loop'[w].lease = loop[w].lease
          /\ \A v \in Workers \ {w} : loop'[v] = loop[v]
      BY <1>0, <2>1 DEF MovesTo, Loops
    <2>4. /\ att'[loop[w].no].state # "dispatched"
          /\ \A n \in Nos \ {loop[w].no} : att'[n] = att[n]
      <3>1. CASE RecordAck(w)
        BY <1>0, <2>2, <3>1, StatedAttempt DEF RecordAck
      <3>2. CASE RecordFailure(w)
        <4> DEFINE a == Stated(att[loop[w].no], "failed")
        <4>1. a \in Attempts /\ a.state = "failed"
          BY <1>0, <2>2, StatedAttempt
        <4>2. att' = [att EXCEPT ![loop[w].no] = [a EXCEPT !.class = loop[w].class]]
          BY <3>2 DEF RecordFailure
        <4> HIDE DEF a
        <4>3. [a EXCEPT !.class = loop[w].class].state = "failed"
          BY <4>1 DEF Attempts
        <4> QED  BY <1>0, <2>2, <4>2, <4>3
      <3> QED  BY <1>5, <3>1, <3>2
    <2> QED  BY <1>1, <2>2, <2>3, <2>4 DEF LoopsGoOn, DoubtsGoOn, Dispatched
  <1>6. CASE Prepare(w)
    <2>1. /\ loop[w].no \in Nos
          /\ att' = [att EXCEPT ![loop[w].no] =
                       [NoAttempt EXCEPT !.state = "prepared", !.lease = loop[w].lease]]
      BY <1>6 DEF Prepare, Preparable
    <2>2. att'[loop[w].no].state = "prepared" /\ \A n \in Nos \ {loop[w].no} : att'[n] = att[n]
      BY <1>0, <2>1 DEF NoAttempt
    <2> QED  BY <1>1, <1>6, <2>2 DEF DoubtsGoOn, Dispatched
  <1>7. CASE Dispatch(w)
    BY <1>1, <1>4, <1>7 DEF Dispatch, At
  <1>8. CASE Acked(w) \/ TimesOut(w) \/ Refused(w)
    <2>1. {"transient", "permanent", "unknown"} \subseteq Classes
      BY DEF Classes
    <2>2. att' = att /\ LoopsGoOn
      BY <1>4, <1>8, <2>1 DEF Acked, TimesOut, Refused, At, store
    <2> QED  BY <1>1, <1>2, <2>2
  <1>9. CASE \/ MediaDefers(w) \/ OptOut(w) \/ PrepareFails(w) \/ Extend(w)
             \/ SettleAck(w) \/ SettleFailure(w) \/ Abandon(w)
    <2>1. att' = att /\ (loop' = loop \/ Ends(w))
      BY <1>9 DEF MediaDefers, OptOut, PrepareFails, Extend, SettleAck, SettleFailure, Abandon,
                  store
    <2> QED  BY <1>1, <1>2, <1>3, <2>1
  <1> QED  BY <1>5, <1>6, <1>7, <1>8, <1>9 DEF Loop

\* The loop with the job's lease is the only one that may still dispatch.
LEMMA HolderIsAlone ==
    ASSUME Typed, Rows, RowsOfLoops, Careful, NEW w \in Workers, loop[w].pc # "idle",
           loop[w].lease = job.lease
    PROVE  \A v \in Workers \ {w} : loop[v].pc \notin {"claimed", "prepared"}
  BY LoopsApart DEF Careful, UnsentHolds

LEMMA ClaimCareful ==
    ASSUME Typed, Careful, NEW w \in Workers, Claim(w) PROVE Careful'
  <1>1. PICK l \in Forgotten :
          /\ job' = Claimed(job, l)
          /\ loop' = [loop EXCEPT ![w] = [Idle EXCEPT !.pc = "claimed",
                                !.lease = l, !.no = job.attempts + 1]]
    BY DEF Claim
  <1>2. /\ job.status = "queued" /\ UNCHANGED <<att, recon, reaper>> /\ l \in Leases
    BY DEF Claim, OthersUnchanged, cron, Forgotten
  <1>3. job'.status = "processing" /\ job'.lease = l /\ ~job'.expired
    BY <1>1, <1>2 DEF Claimed, Jobs, Typed, TypeOK
  <1>4. /\ \A n \in Nos : ~Dispatched(n)
        /\ ~Deciding /\ reaper.pc # "failed"
        /\ \A v \in Workers : loop[v].pc \notin {"claimed", "prepared"}
    BY <1>2 DEF Careful, InDoubt, UnsentHolds
  <1>5. /\ loop'[w].pc = "claimed" /\ loop'[w].lease = l
        /\ \A v \in Workers \ {w} : loop'[v] = loop[v]
    BY <1>1 DEF Idle, Typed, TypeOK
  <1>6. UnsentHolds'
    BY <1>2, <1>3, <1>4, <1>5 DEF UnsentHolds, Dispatched, Deciding
  <1>7. InDoubt'
    <2>1. \A n \in Nos : att'[n].state # "dispatched"
      BY <1>2, <1>4 DEF Dispatched
    <2>2. \A v \in Workers : loop'[v].pc \in {"charging", "settling"} =>
            att'[loop'[v].no].state # "dispatched"
      BY <1>2, <1>5 DEF Careful, InDoubt, Dispatched
    <2> QED  BY <1>2, <1>3, <1>4, <2>1, <2>2 DEF InDoubt, OneDispatched, Dispatched, Deciding
  <1> QED  BY <1>6, <1>7 DEF Careful

\* The prechecks give the job back or cancel it, while nothing of it is in doubt.
LEMMA PrecheckCareful ==
    ASSUME Typed, Rows, RowsOfLoops, Careful, NEW w \in Workers, MediaDefers(w) \/ OptOut(w)
    PROVE  Careful'
  <1>0. job \in Jobs /\ loop \in [Workers -> Loops]
    BY DEF Typed, TypeOK
  <1>1. /\ LoopsGoOn /\ DoubtsGoOn /\ SweepsGoOn /\ UNCHANGED <<reaper, recon>>
        /\ att' = att
    <2>1. ~Claim(w) /\ ~Prepare(w) /\ ~Dispatch(w)
      <3>1. loop[w].pc = "claimed" /\ loop'[w].pc = "idle"
        BY DEF MediaDefers, OptOut, At, Ends, Idle, Typed, TypeOK
      <3>2. \A pc \in {"prepared", "sending"} : MovesTo(w, pc) => loop'[w].pc = pc
        BY <1>0 DEF MovesTo, Loops
      <3>3. ~Claim(w)
        BY <3>1 DEF Claim, At
      <3> QED  BY <3>1, <3>2, <3>3 DEF Prepare, Dispatch
    <2>2. Loop(w) /\ att' = att
      BY DEF Loop, MediaDefers, OptOut
    <2> QED  BY <2>1, <2>2, LoopGoesOn
  <1>2. loop[w].pc = "claimed" /\ Ends(w)
    BY DEF MediaDefers, OptOut, At
  <1>3. CASE job' = job
    BY <1>1, <1>3, CarefulAway
  <1>4. CASE /\ Holds(job, loop[w].lease)
             /\ \E s \in {"queued", "cancelled"} : job' = Unleased(job, s)
    <2>1. PICK s \in {"queued", "cancelled"} : job' = Unleased(job, s)
      BY <1>4
    <2>2. job'.status = s /\ ~job'.expired
      BY <1>0, <2>1 DEF Unleased, Jobs
    <2>3. \A v \in Workers : loop'[v].pc \notin {"claimed", "prepared"}
      BY <1>0, <1>2, <1>4, HolderIsAlone DEF Holds, Ends, Idle
    <2>4. ~Deciding /\ reaper.pc # "failed" /\ \A n \in Nos : ~Dispatched(n)
      BY <1>2 DEF Careful, UnsentHolds
    <2> QED  BY <1>1, <2>2, <2>3, <2>4, CarefulOut DEF Dispatched, Deciding
  <1> QED  BY <1>3, <1>4 DEF MediaDefers, OptOut

LEMMA PrepareCareful ==
    ASSUME Typed, Rows, RowsOfLoops, Careful, NEW w \in Workers, Prepare(w)
    PROVE  Careful'
  <1>0. /\ job \in Jobs /\ loop \in [Workers -> Loops] /\ att \in [Nos -> Attempts]
    BY DEF Typed, TypeOK
  <1>1. /\ loop[w].pc = "claimed" /\ loop[w].lease = job.lease /\ loop[w].no \in Nos
        /\ att' = [att EXCEPT ![loop[w].no] =
                     [NoAttempt EXCEPT !.state = "prepared", !.lease = loop[w].lease]]
        /\ UNCHANGED <<reaper, recon>>
    BY DEF Prepare, Preparable, At, OthersUnchanged, cron
  <1>2. job'.status = job.status /\ job'.lease = job.lease /\ job'.expired = job.expired
    BY <1>0 DEF Prepare, Jobs
  <1>3. \A n \in Nos : att'[n].state # "dispatched"
    <2>1. \A n \in Nos : att[n].state # "dispatched"
      BY <1>1 DEF Careful, UnsentHolds, Dispatched
    <2> QED  BY <1>0, <1>1, <2>1 DEF NoAttempt
  <1>4. /\ loop'[w].pc = "prepared" /\ loop'[w].lease = loop[w].lease
        /\ \A v \in Workers \ {w} : loop'[v] = loop[v]
    BY <1>0 DEF Prepare, MovesTo, Loops
  <1>5. UnsentHolds'
    BY <1>1, <1>2, <1>3, <1>4 DEF Careful, UnsentHolds, Dispatched, Deciding
  <1>6. \A v \in Workers : loop'[v].pc \in {"charging", "settling"} => loop'[v].no \in Nos
    BY <1>4 DEF Typed, Numbered
  <1>7. job'.expired =>
          \A v \in Workers : loop'[v].pc # "idle" => loop'[v].lease # job'.lease
    BY <1>1, <1>2, <1>4 DEF Careful, InDoubt
  <1>8. /\ reaper'.pc # "failed"
        /\ recon'.pc \notin {"found", "ambiguous", "expired", "resolve"}
    BY <1>1 DEF Careful, UnsentHolds, Deciding
  <1>9. InDoubt'
    BY <1>3, <1>6, <1>7, <1>8 DEF InDoubt, OneDispatched, Dispatched, Deciding
  <1> QED  BY <1>5, <1>9 DEF Careful

LEMMA DispatchCareful ==
    ASSUME Typed, Rows, RowsOfLoops, Careful, NEW w \in Workers, Dispatch(w)
    PROVE  Careful'
  <1>0. /\ loop \in [Workers -> Loops] /\ att \in [Nos -> Attempts]
    BY DEF Typed, TypeOK
  <1> DEFINE k == loop[w].no
  <1>1. /\ loop[w].pc = "prepared" /\ k \in Nos
        /\ UNCHANGED <<job, reaper, recon>>
    BY DEF Dispatch, At, OthersUnchanged, cron, Typed, Numbered
  <1>2. /\ loop[w].lease = job.lease /\ job.status \in {"processing", "needs_reconcile"}
        /\ ~Deciding /\ reaper.pc # "failed"
        /\ \A n \in Nos : ~Dispatched(n)
    BY <1>1 DEF Careful, UnsentHolds
  <1>3. /\ att'[k].state = "dispatched" /\ att'[k].lease = job.lease
        /\ \A n \in Nos \ {k} : att'[n] = att[n]
    <2>1. att[k].lease = job.lease
      BY <1>1, <1>2 DEF RowsOfLoops
    <2> QED  BY <1>0, <1>1, <2>1, StatedAttempt DEF Dispatch
  <1>4. /\ loop'[w].pc = "sending" /\ loop'[w].lease = loop[w].lease
        /\ \A v \in Workers \ {w} : loop'[v] = loop[v]
    BY <1>0 DEF Dispatch, MovesTo, Loops
  <1>5. \A v \in Workers : loop'[v].pc \notin {"claimed", "prepared"}
    BY <1>1, <1>2, <1>4, HolderIsAlone
  <1>6. \A v \in Workers : loop'[v].pc \in {"charging", "settling"} =>
          att'[loop'[v].no].state # "dispatched"
    <2> SUFFICES ASSUME NEW v \in Workers, loop'[v].pc \in {"charging", "settling"}
                 PROVE  att'[loop'[v].no].state # "dispatched"
      OBVIOUS
    <2>1. v # w /\ loop'[v] = loop[v]
      BY <1>4
    <2>2. loop[v].no \in Nos /\ loop[v].no # k
      BY <1>1, <2>1, LoopsApart DEF Typed, Numbered
    <2> QED  BY <1>2, <1>3, <2>1, <2>2 DEF Dispatched
  <1>7. \A n \in Nos : att'[n].state = "dispatched" => n = k
    BY <1>2, <1>3 DEF Dispatched
  <1>8. job'.expired =>
          \A v \in Workers : loop'[v].pc # "idle" => loop'[v].lease # job'.lease
    BY <1>1, <1>4 DEF Careful, InDoubt
  <1> HIDE DEF k
  <1>9. UnsentHolds' /\ InDoubt'
    BY <1>1, <1>2, <1>3, <1>5, <1>6, <1>7, <1>8
       DEF UnsentHolds, InDoubt, OneDispatched, Dispatched, Deciding
  <1> QED  BY <1>9 DEF Careful

\* A settlement, under the lease and in processing: nothing but its own row was in doubt.
LEMMA SettleCareful ==
    ASSUME Typed, Rows, RowsOfLoops, Careful, NEW w \in Workers,
           SettleAck(w) \/ SettleFailure(w)
    PROVE  Careful'
  <1>0. job \in Jobs /\ loop \in [Workers -> Loops]
    BY DEF Typed, TypeOK
  <1>1. /\ LoopsGoOn /\ DoubtsGoOn /\ SweepsGoOn /\ UNCHANGED <<reaper, recon>>
        /\ att' = att
    BY LoopGoesOn DEF Loop, SettleAck, SettleFailure, Claim, Prepare, Dispatch, At
  <1>2. loop[w].pc \in {"charging", "settling"} /\ Ends(w)
    BY DEF SettleAck, SettleFailure, At
  <1>3. CASE job' = job
    BY <1>1, <1>3, CarefulAway
  <1>4. CASE /\ Holds(job, loop[w].lease)
             /\ \E s \in Statuses \ {"processing"} : job' = Become(job, s)
    <2>1. PICK s \in Statuses \ {"processing"} : job' = Become(job, s)
      BY <1>4
    <2>2. job'.status = s /\ job'.lease = job.lease /\ job'.expired = job.expired
      BY <1>0, <2>1 DEF Become, Jobs
    <2>3. \A v \in Workers : loop'[v].pc \notin {"claimed", "prepared"}
      BY <1>0, <1>2, <1>4, HolderIsAlone DEF Holds, Ends, Idle
    <2>4. ~Deciding /\ reaper.pc # "failed"
      BY <1>4 DEF Holds, Careful, InDoubt
    <2>5. ASSUME NEW n \in Nos PROVE ~Dispatched(n)
      <3>1. loop[w].no \in Nos /\ att[loop[w].no].lease = job.lease /\ ~Dispatched(loop[w].no)
        BY <1>2, <1>4 DEF Typed, Numbered, RowsOfLoops, Holds, Careful, InDoubt
      <3>2. Dispatched(n) => att[n].lease = job.lease
        BY <1>4 DEF Holds, Careful, InDoubt
      <3> QED  BY <1>4, <3>1, <3>2, RowOfLease DEF Holds
    <2> QED  BY <1>1, <2>1, <2>2, <2>3, <2>4, <2>5, CarefulOut DEF Dispatched, Deciding
  <1>5. "sent" \in Statuses \ {"processing"}
        /\ \A c, n : AfterFailure(c, n) \in Statuses \ {"processing"}
    BY DEF AfterFailure, Statuses, Final
  <1> QED  BY <1>3, <1>4, <1>5 DEF SettleAck, SettleFailure

LEMMA LoopCareful ==
    ASSUME Typed, Rows, RowsOfLoops, Careful, NEW w \in Workers, Loop(w)
    PROVE  Careful'
  <1>1. CASE Claim(w)
    BY <1>1, ClaimCareful
  <1>2. CASE MediaDefers(w) \/ OptOut(w)
    BY <1>2, PrecheckCareful
  <1>3. CASE Prepare(w)
    BY <1>3, PrepareCareful
  <1>4. CASE Dispatch(w)
    BY <1>4, DispatchCareful
  <1>5. CASE SettleAck(w) \/ SettleFailure(w)
    BY <1>5, SettleCareful
  <1>6. CASE Extend(w)
    <2>1. job.expired /\ loop[w].pc # "idle" /\ loop[w].lease = job.lease
      BY <1>6 DEF Extend, At, Holds
    <2> QED  BY <2>1 DEF Careful, InDoubt
  <1>7. CASE \/ PrepareFails(w) \/ Acked(w) \/ Refused(w) \/ TimesOut(w)
             \/ RecordAck(w) \/ RecordFailure(w) \/ Abandon(w)
    <2>1. job' = job /\ loop[w].pc # "idle"
      BY <1>7 DEF PrepareFails, Acked, Refused, TimesOut, RecordAck, RecordFailure, Abandon,
                  store, At
    <2>2. ~Claim(w)
      BY <2>1 DEF Claim, At
    <2> QED  BY <1>3, <1>4, <2>1, <2>2, LoopGoesOn, CarefulAway
  <1> QED  BY <1>1, <1>2, <1>3, <1>4, <1>5, <1>6, <1>7 DEF Loop

\* The reaper finds the lease expired, so no loop has it any more.
LEMMA ReapCareful ==
    ASSUME Typed, Rows, RowsOfLoops, Careful, Reap PROVE Careful'
  <1>0. job \in Jobs
    BY DEF Typed, TypeOK
  <1>1. PICK n \in Counts :
          /\ Matches(n) /\ StateOf(n) \notin Decided
          /\ job' = Reaped(job, StateOf(n))
          /\ reaper' = CASE StateOf(n) = "acked" -> [NoReap EXCEPT !.pc = "sent", !.no = n]
                         [] StateOf(n) = "failed" ->
                              [pc |-> "failed", no |-> n, class |-> att[n].class]
                         [] OTHER -> NoReap
    BY DEF Reap
  <1>2. /\ job.status = "processing" /\ job.expired /\ UNCHANGED <<att, loop, recon>>
    BY DEF Reap
  <1> DEFINE st == StateOf(n)
             s == CASE st = "none"     -> "queued"
                    [] st = "prepared" -> IF Exhausted(job.attempts) THEN "failed" ELSE "queued"
                    [] st = "acked"    -> "sent"
                    [] OTHER           -> "needs_reconcile"
  <1>3. /\ s \in Statuses \ {"processing"}
        /\ s = "queued" => st \in {"none", "prepared"}
        /\ st = "failed" => s = "needs_reconcile"
    BY DEF Statuses, Final
  <1>4. job' = Unleased(job, s)
    BY <1>1 DEF Reaped
  <1>5. reaper'.pc = "failed" => st = "failed"
    BY <1>1 DEF NoReap
  <1> HIDE DEF s
  <1>6. job'.status = s /\ ~job'.expired
    BY <1>0, <1>3, <1>4 DEF Unleased, Jobs
  <1>7. \A w \in Workers : loop[w].pc \notin {"claimed", "prepared"}
    BY <1>2 DEF Careful, InDoubt, UnsentHolds
  <1>8. ~Deciding
    BY <1>2 DEF Careful, InDoubt
  <1>9. ASSUME st \in {"none", "prepared", "failed"}, NEW m \in Nos, Dispatched(m)
        PROVE  FALSE
    <2>1. att[m].lease = job.lease
      BY <1>2, <1>9 DEF Careful, InDoubt
    <2>2. n # 0 /\ att[n].lease = job.lease /\ st = att[n].state
      BY <1>1, <1>9, <2>1 DEF Matches, StateOf
    <2>3. n \in Nos
      BY <2>2 DEF Nos
    <2> QED  BY <1>2, <1>9, <2>1, <2>2, <2>3, RowOfLease DEF Dispatched
  <1> HIDE DEF st
  <1>10. LoopsGoOn /\ DoubtsGoOn
    BY <1>2 DEF LoopsGoOn, DoubtsGoOn, Dispatched
  <1> QED
    BY <1>2, <1>3, <1>5, <1>6, <1>7, <1>8, <1>9, <1>10, CarefulOut DEF Dispatched, Deciding

\* What the sweeps write later they write to a job that is still unresolved, or not at all.
LEMMA SweepCareful ==
    ASSUME Typed, Careful, ReapedFailed \/ RecAmbiguous \/ RecExpired \/ RecResolve
    PROVE  Careful'
  <1>0. job \in Jobs /\ att \in [Nos -> Attempts]
    BY DEF Typed, TypeOK
  <1>1. reaper.pc = "failed" \/ Deciding
    BY DEF ReapedFailed, RecAmbiguous, RecExpired, RecResolve, Deciding
  <1>2. job.status = "needs_reconcile" /\ ~(reaper.pc = "failed" /\ Deciding)
    BY <1>1 DEF Careful, InDoubt
  <1>3. \A w \in Workers : loop[w].pc \notin {"claimed", "prepared"}
    BY <1>1 DEF Careful, UnsentHolds
  <1>4. loop' = loop
    BY DEF ReapedFailed, RecAmbiguous, RecExpired, RecResolve
  <1>5. PICK s \in Statuses \ {"processing"} :
          job' = Become(job, s) /\ (s = "queued" => ReapedFailed)
    <2>1. /\ {"sent", "blocked_needs_review"} \subseteq Statuses \ {"processing", "queued"}
          /\ \A c, n : AfterFailure(c, n) \in Statuses \ {"processing"}
      BY DEF AfterFailure, Statuses, Final
    <2>2. \A t : IfUnresolved(job, t) = Become(job, t)
      BY <1>2 DEF IfUnresolved
    <2> QED  BY <2>1, <2>2 DEF ReapedFailed, RecAmbiguous, RecExpired, RecResolve
  <1>6. job'.status = s /\ job'.lease = job.lease /\ job'.expired = job.expired
    BY <1>0, <1>5 DEF Become, Jobs
  <1>7. \A n \in Nos : att'[n].state = "dispatched" => att'[n] = att[n]
    <2>1. \/ att' = att
          \/ /\ recon.no \in Nos
             /\ \E t \in Decided : att' = [att EXCEPT ![recon.no] = Stated(att[recon.no], t)]
      BY DEF ReapedFailed, RecAmbiguous, RecExpired, RecResolve, Typed, Numbered, Decided
    <2>2. CASE att' = att
      BY <2>2
    <2>3. ASSUME recon.no \in Nos, NEW t \in Decided,
                 att' = [att EXCEPT ![recon.no] = Stated(att[recon.no], t)]
          PROVE  \A n \in Nos : att'[n].state = "dispatched" => att'[n] = att[n]
      <3>1. Stated(att[recon.no], t).state # "dispatched"
        BY <1>0, <2>3, StatedAttempt DEF Decided
      <3> QED  BY <1>0, <2>3, <3>1
    <2> QED  BY <2>1, <2>2, <2>3
  <1>8. LoopsGoOn /\ DoubtsGoOn
    BY <1>4, <1>7 DEF LoopsGoOn, DoubtsGoOn, Dispatched
  <1>9. CASE ReapedFailed
    <2>1. /\ reaper'.pc # "failed" /\ UNCHANGED <<recon, att>>
          /\ reaper.pc = "failed"
      BY <1>9 DEF ReapedFailed, NoReap
    <2>2. ~Deciding /\ \A n \in Nos : ~Dispatched(n)
      BY <2>1 DEF Careful, InDoubt
    <2> QED  BY <1>3, <1>4, <1>5, <1>6, <1>8, <2>1, <2>2, CarefulOut DEF Dispatched, Deciding
  <1>10. CASE RecAmbiguous \/ RecExpired \/ RecResolve
    <2>1. Deciding /\ reaper' = reaper
      BY <1>10 DEF RecAmbiguous, RecExpired, RecResolve, Deciding
    <2>2. recon'.pc \notin {"found", "ambiguous", "expired", "resolve"}
      BY <1>10 DEF RecAmbiguous, RecExpired, RecResolve, NoRecon, Typed, TypeOK, Recons
    <2>3. s # "queued"
      <3>1. RecAmbiguous \/ RecExpired \/ RecResolve => job'.status # "queued"
        <4>1. /\ "sent" \in Statuses /\ "blocked_needs_review" \in Statuses
          BY DEF Statuses, Final
        <4>2. \A t \in Statuses : IfUnresolved(job, t).status = t
          BY <1>0, <1>2, BecomeJob DEF IfUnresolved
        <4>3. /\ IfUnresolved(job, "sent").status = "sent"
              /\ IfUnresolved(job, "blocked_needs_review").status = "blocked_needs_review"
          BY <4>1, <4>2
        <4> QED  BY <4>3 DEF RecAmbiguous, RecExpired, RecResolve
      <3> QED  BY <1>6, <1>10, <3>1
    <2> QED  BY <1>2, <1>3, <1>4, <1>5, <1>6, <1>8, <2>1, <2>2, <2>3, CarefulOut
  <1> QED  BY <1>9, <1>10

\* A scan takes up a job whose attempt is in doubt, so nobody is about to dispatch.
LEMMA ScanCareful ==
    ASSUME Typed, Careful, NEW n \in Nos, RecScan(n) PROVE Careful'
  <1>1. /\ Dispatched(n) /\ job.status = "needs_reconcile"
        /\ UNCHANGED <<job, att, loop, reaper>>
    BY DEF RecScan, InScan, Dispatched, store
  <1>2. /\ \A w \in Workers : loop[w].pc \notin {"claimed", "prepared"}
        /\ reaper.pc # "failed"
    BY <1>1 DEF Careful, UnsentHolds, InDoubt
  <1>3. UnsentHolds'
    BY <1>1, <1>2 DEF UnsentHolds
  <1>4. InDoubt'
    BY <1>1, <1>2 DEF Careful, InDoubt, OneDispatched, Dispatched, Deciding
  <1> QED  BY <1>3, <1>4 DEF Careful

\* A human gives up what is in doubt before the job is sent again.
LEMMA PeopleCareful ==
    ASSUME Typed, Careful, RetryUnresolved \/ Discard \/ DrainMark PROVE Careful'
  <1>0. job \in Jobs /\ att \in [Nos -> Attempts]
    BY DEF Typed, TypeOK
  <1>1. UNCHANGED <<loop, reaper, recon>>
    BY DEF RetryUnresolved, Discard, DrainMark, OthersUnchanged, cron
  <1>2. reaper.pc # "failed" /\ ~Deciding
    BY DEF RetryUnresolved, Discard, DrainMark, Careful, InDoubt
  <1>3. CASE RetryUnresolved
    <2>1. \A w \in Workers : loop[w].pc \notin {"claimed", "prepared"}
      BY <1>3 DEF RetryUnresolved, Careful, UnsentHolds
    <2>2. job'.status = "queued" /\ job'.lease = job.lease /\ job'.expired = job.expired
      BY <1>0, <1>3 DEF RetryUnresolved, Become, Jobs
    <2>3. ASSUME NEW n \in Nos PROVE att'[n].state # "dispatched"
      <3>1. CASE att[n].state = "dispatched"
        <4>1. \A m \in Nos : att[m].state = "dispatched" => m <= n
          <5>1. n <= n
            BY Numbers
          <5> QED  BY <3>1, <5>1 DEF Careful, InDoubt, OneDispatched
        <4>2. att'[n] = Stated(att[n], "reconciled_lost")
          BY <1>3, <3>1, <4>1 DEF RetryUnresolved
        <4> QED  BY <1>0, <4>2, StatedAttempt DEF Decided
      <3>2. CASE att[n].state # "dispatched"
        <4>1. att'[n] = att[n]
          BY <1>3, <3>2 DEF RetryUnresolved
        <4> QED  BY <3>2, <4>1
      <3> QED  BY <3>1, <3>2
    <2>4. LoopsGoOn /\ DoubtsGoOn
      BY <1>1, <2>3 DEF LoopsGoOn, DoubtsGoOn
    <2> QED  BY <1>1, <1>2, <2>1, <2>2, <2>3, <2>4, CarefulOut DEF Deciding
  <1>4. CASE Discard
    <2>1. \A w \in Workers : loop[w].pc \notin {"claimed", "prepared"}
      BY <1>4 DEF Discard, Careful, UnsentHolds
    <2>2. job'.status = "cancelled" /\ job'.lease = job.lease /\ job'.expired = job.expired
      BY <1>0, <1>4 DEF Discard, Become, Jobs
    <2>3. LoopsGoOn /\ DoubtsGoOn
      BY <1>1, <1>4 DEF LoopsGoOn, DoubtsGoOn, Discard, Dispatched
    <2> QED  BY <1>1, <1>2, <2>1, <2>2, <2>3, CarefulOut DEF Deciding
  <1>5. CASE DrainMark
    <2>1. /\ job'.status = "needs_reconcile" /\ job'.lease = job.lease
          /\ job'.expired = job.expired /\ att' = att
      BY <1>0, <1>5 DEF DrainMark, Become, Jobs
    <2>2. UnsentHolds'
      BY <1>1, <1>5, <2>1 DEF DrainMark, Careful, UnsentHolds, Dispatched, Deciding
    <2>3. InDoubt'
      BY <1>1, <1>2, <2>1 DEF Careful, InDoubt, OneDispatched, Dispatched, Deciding
    <2> QED  BY <2>2, <2>3 DEF Careful
  <1> QED  BY <1>3, <1>4, <1>5

\* A lease nobody heeds runs out.
LEMMA ExpireCareful ==
    ASSUME Typed, Rows, Careful, ~Stalls, Expire PROVE Careful'
  <1>1. /\ job'.status = job.status /\ job'.lease = job.lease
        /\ UNCHANGED <<att, loop, reaper, recon>>
    BY DEF Expire, OthersUnchanged, cron, Jobs, Typed, TypeOK
  <1>2. \A w \in Workers : loop[w].pc # "idle" => loop[w].lease # job.lease
    BY QueueAssumption DEF Expire, Tended, Rows, NoLease
  <1>3. UnsentHolds'
    BY <1>1 DEF Careful, UnsentHolds, Dispatched, Deciding
  <1>4. InDoubt'
    BY <1>1, <1>2 DEF Careful, InDoubt, OneDispatched, Dispatched, Deciding
  <1> QED  BY <1>3, <1>4 DEF Careful

\* Whatever else happens, the job is left alone.
LEMMA QuietCareful ==
    ASSUME Typed, Careful,
           \/ \E n \in Nos : Deliver(n) \/ EchoCaptured(n) \/ ChargeDrain(n) \/ CheckScan(n)
           \/ ReapedSent \/ RecDecide \/ RecSink \/ CheckCharge \/ SweepDies
           \/ Resume \/ TenMinutes \/ UNCHANGED vars
    PROVE  Careful'
  <1>0. att \in [Nos -> Attempts] /\ recon \in Recons
    BY DEF Typed, TypeOK
  <1>1. job' = job /\ loop' = loop
    BY DEF Deliver, EchoCaptured, ChargeDrain, CheckScan, ReapedSent, RecDecide, RecSink,
           CheckCharge, SweepDies, Resume, TenMinutes, vars, store
  <1>2. DoubtsGoOn
    <2>1. CASE att' = att
      BY <2>1 DEF DoubtsGoOn, Dispatched
    <2>2. CASE TenMinutes
      <3>1. \A n \in Nos : att'[n] = Older(att[n])
        BY <2>2 DEF TenMinutes
      <3> QED  BY <1>0, <3>1, OlderAttempt DEF DoubtsGoOn, Dispatched
    <2> QED
      BY <2>1, <2>2 DEF Deliver, EchoCaptured, ChargeDrain, CheckScan, ReapedSent, RecDecide,
                        RecSink, CheckCharge, SweepDies, Resume, vars, store
  <1>3. SweepsGoOn
    <2>1. CASE RecDecide
      BY <1>0, <2>1 DEF RecDecide, SweepsGoOn, Deciding
    <2>2. CASE ~RecDecide
      <3>1. reaper' \in {reaper, NoReap} /\ recon' \in {recon, NoRecon}
        BY <2>2 DEF Deliver, EchoCaptured, ChargeDrain, CheckScan, ReapedSent, RecSink,
                    CheckCharge, SweepDies, Resume, TenMinutes, vars, OthersUnchanged, cron
      <3> QED  BY <3>1 DEF SweepsGoOn, Deciding, NoReap, NoRecon
    <2> QED  BY <2>1, <2>2
  <1>4. LoopsGoOn
    BY <1>1 DEF LoopsGoOn
  <1> QED  BY <1>1, <1>2, <1>3, <1>4, CarefulAway

LEMMA CarefulStart == ASSUME Init PROVE Careful
  BY DEF Init, Careful, UnsentHolds, InDoubt, OneDispatched, Dispatched, Deciding, Idle,
         NoAttempt, NoReap, NoRecon

LEMMA CarefulStep ==
    ASSUME Typed, Rows, RowsOfLoops, Careful, [Next]_vars, ~Stalls
    PROVE  Careful'
  <1>1. CASE \E w \in Workers : Loop(w)
    BY <1>1, LoopCareful
  <1>2. CASE Reap
    BY <1>2, ReapCareful
  <1>3. CASE ReapedFailed \/ RecAmbiguous \/ RecExpired \/ RecResolve
    BY <1>3, SweepCareful
  <1>4. CASE \E n \in Nos : RecScan(n)
    BY <1>4, ScanCareful
  <1>5. CASE RetryUnresolved \/ Discard \/ DrainMark
    BY <1>5, PeopleCareful
  <1>6. CASE Expire
    BY <1>6, ExpireCareful
  <1>7. CASE \/ \E n \in Nos : Deliver(n) \/ EchoCaptured(n) \/ ChargeDrain(n) \/ CheckScan(n)
             \/ ReapedSent \/ RecDecide \/ RecSink \/ CheckCharge \/ SweepDies
             \/ Resume \/ TenMinutes \/ UNCHANGED vars
    BY <1>7, QuietCareful
  <1> QED  BY <1>1, <1>2, <1>3, <1>4, <1>5, <1>6, <1>7 DEF Next, Cron

\* While no loop stalls for longer than its lease and the grace, the echo reconciler never
\* meets a second dispatched attempt of its job (0029:494-498).
THEOREM OneInDoubt == ASSUME ~Stalls PROVE Spec => []OneDispatched
  <1>1. Careful => OneDispatched
    BY DEF Careful, InDoubt
  <1>2. Typed /\ Rows /\ RowsOfLoops /\ Careful /\ [Next]_vars => Careful'
    BY CarefulStep
  <1> QED
    BY <1>1, <1>2, InitTyped, NextTyped, RowsStart, RowsStep, RowsOfLoopsStart,
       RowsOfLoopsStep, CarefulStart, PTL DEF Spec
-----------------------------------------------------------------------------
(* What is known of a message that was sent. *)

Sent == wire.flying \cup wire.delivered
Refusals == {"transient", "permanent"}

\* A class is recorded once, and a class of refusals of no message that may arrive; an ack
\* only of a message that did.
AttemptClassed(n) ==
    /\ att[n].state \in {"none", "prepared"} => n \notin Sent
    /\ att[n].class \in Refusals => n \notin Sent
    /\ att[n].state = "failed" => att[n].class # "none"
    /\ att[n].state = "acked" => att[n].class = "none" /\ n \in wire.delivered
LoopClassed(w) ==
    /\ loop[w].pc = "prepared" => att[loop[w].no].state = "prepared"
    /\ loop[w].pc \in {"prepared", "sending", "acking", "charging", "failing"} =>
         att[loop[w].no].class = "none"
    /\ loop[w].pc \in {"prepared", "sending", "acking", "failing"} =>
         att[loop[w].no].state # "acked"
    /\ loop[w].pc \in {"failing", "settling"} =>
         /\ loop[w].class # "none"
         /\ loop[w].class \in Refusals => loop[w].no \notin Sent
    /\ loop[w].pc = "settling" => att[loop[w].no].class = loop[w].class
Classed ==
    /\ wire.flying \cap wire.delivered = {}
    /\ \A n \in Nos : AttemptClassed(n)
    /\ \A w \in Workers : LoopClassed(w)

\* An attempt that is written, by one loop, of which all others are apart.
LEMMA OthersClassed ==
    ASSUME Typed, Rows, RowsOfLoops, Classed, NEW w \in Workers,
           loop[w].pc \notin {"idle", "claimed"},
           \A n \in Nos \ {loop[w].no} : att'[n] = att[n] /\ (n \in Sent' => n \in Sent),
           \A v \in Workers \ {w} : loop'[v] = loop[v]
    PROVE  \A v \in Workers \ {w} : LoopClassed(v)'
  <1> SUFFICES ASSUME NEW v \in Workers \ {w} PROVE LoopClassed(v)'
    OBVIOUS
  <1>1. loop'[v] = loop[v] /\ LoopClassed(v)
    BY DEF Classed
  <1>2. CASE loop[v].pc \in {"idle", "claimed"}
    BY <1>1, <1>2 DEF LoopClassed
  <1>3. CASE loop[v].pc \notin {"idle", "claimed"}
    <2>1. loop[v].no \in Nos \ {loop[w].no}
      BY <1>3, LoopsApart DEF Typed, Numbered
    <2> QED  BY <1>1, <2>1 DEF LoopClassed
  <1> QED  BY <1>2, <1>3

\* The steps that write an attempt and go on.
LEMMA PrepareClassed ==
    ASSUME Typed, Rows, Classed, NEW w \in Workers, Prepare(w) PROVE Classed'
  <1>0. /\ loop \in [Workers -> Loops] /\ att \in [Nos -> Attempts]
    BY DEF Typed, TypeOK
  <1> DEFINE k == loop[w].no
  <1>1. /\ k \in Nos /\ att[k].state = "none" /\ wire' = wire
        /\ att' = [att EXCEPT ![k] =
                     [NoAttempt EXCEPT !.state = "prepared", !.lease = loop[w].lease]]
    BY DEF Prepare, Preparable
  <1>2. /\ att'[k].state = "prepared" /\ att'[k].class = "none"
        /\ \A n \in Nos \ {k} : att'[n] = att[n]
    BY <1>0, <1>1 DEF NoAttempt
  <1>3. /\ loop'[w].pc = "prepared" /\ loop'[w].no = k
        /\ \A v \in Workers \ {w} : loop'[v] = loop[v]
    BY <1>0 DEF Prepare, MovesTo, Loops
  <1> HIDE DEF k
  <1>4. k \notin Sent /\ Sent' = Sent
    BY <1>1 DEF Classed, AttemptClassed, Sent
  <1>5. \A n \in Nos : AttemptClassed(n)'
    <2> SUFFICES ASSUME NEW n \in Nos PROVE AttemptClassed(n)'
      OBVIOUS
    <2>1. AttemptClassed(n)
      BY DEF Classed
    <2> QED  BY <1>1, <1>2, <1>4, <2>1 DEF AttemptClassed, Refusals
  <1>6. LoopClassed(w)'
    BY <1>2, <1>3 DEF LoopClassed
  <1>7. ASSUME NEW v \in Workers \ {w} PROVE LoopClassed(v)'
    <2>1. loop'[v] = loop[v] /\ LoopClassed(v)
      BY <1>3 DEF Classed
    <2>2. loop[v].pc \notin {"idle", "claimed"} => loop[v].no \in Nos \ {k}
      BY <1>1 DEF Rows, Typed, Numbered
    <2>3. loop[v].pc \notin {"idle", "claimed"} => att'[loop[v].no] = att[loop[v].no]
      BY <1>2, <2>2
    <2> QED  BY <1>4, <2>1, <2>3 DEF LoopClassed
  <1>8. wire'.flying \cap wire'.delivered = {}
    BY <1>1 DEF Classed
  <1> QED  BY <1>5, <1>6, <1>7, <1>8 DEF Classed

LEMMA DispatchClassed ==
    ASSUME Typed, Rows, RowsOfLoops, Classed, NEW w \in Workers, Dispatch(w) PROVE Classed'
  <1>0. /\ loop \in [Workers -> Loops] /\ att \in [Nos -> Attempts] /\ wire \in Wires
    BY DEF Typed, TypeOK
  <1> DEFINE k == loop[w].no
  <1>1. /\ loop[w].pc = "prepared" /\ k \in Nos /\ att' = [att EXCEPT ![k] = Stated(@, "dispatched")]
        /\ wire' = [wire EXCEPT !.flying = @ \cup {k}]
    BY DEF Dispatch, At, Typed, Numbered
  <1>2. /\ att'[k].state = "dispatched" /\ att'[k].class = att[k].class
        /\ \A n \in Nos \ {k} : att'[n] = att[n]
    BY <1>0, <1>1, StatedAttempt
  <1>3. /\ loop'[w].pc = "sending" /\ loop'[w].no = k
        /\ \A v \in Workers \ {w} : loop'[v] = loop[v]
    BY <1>0 DEF Dispatch, MovesTo, Loops
  <1>4. /\ wire'.flying = wire.flying \cup {k} /\ wire'.delivered = wire.delivered
    BY <1>0, <1>1 DEF Wires
  <1>5. att[k].class = "none" /\ att[k].state = "prepared" /\ k \notin Sent
    BY <1>1 DEF Classed, LoopClassed, AttemptClassed
  <1>6. \A v \in Workers \ {w} : LoopClassed(v)'
    BY <1>1, <1>2, <1>3, <1>4, OthersClassed DEF Sent
  <1> HIDE DEF k
  <1>7. LoopClassed(w)'
    BY <1>2, <1>3, <1>5 DEF LoopClassed
  <1>8. \A n \in Nos : AttemptClassed(n)'
    <2> SUFFICES ASSUME NEW n \in Nos PROVE AttemptClassed(n)'
      OBVIOUS
    <2>1. AttemptClassed(n)
      BY DEF Classed
    <2>2. n \in Sent' => n \in Sent \/ n = k
      BY <1>4 DEF Sent
    <2> QED  BY <1>2, <1>4, <1>5, <2>1, <2>2 DEF AttemptClassed, Refusals
  <1>9. wire'.flying \cap wire'.delivered = {}
    BY <1>4, <1>5 DEF Classed, Sent
  <1> QED  BY <1>6, <1>7, <1>8, <1>9 DEF Classed

LEMMA RecordClassed ==
    ASSUME Typed, Rows, RowsOfLoops, Evidence, Classed, NEW w \in Workers,
           RecordAck(w) \/ RecordFailure(w)
    PROVE  Classed'
  <1>0. /\ loop \in [Workers -> Loops] /\ att \in [Nos -> Attempts]
    BY DEF Typed, TypeOK
  <1> DEFINE k == loop[w].no
  <1>1. /\ loop[w].pc \in {"acking", "failing"} /\ k \in Nos /\ wire' = wire
    BY DEF RecordAck, RecordFailure, At, Typed, Numbered
  <1>2. /\ LoopClassed(w) /\ AttemptClassed(k) /\ Sent' = Sent
    BY <1>1 DEF Classed, Sent
  <1>3. CASE RecordAck(w)
    <2>1. /\ att'[k].state = "acked" /\ att'[k].class = att[k].class
          /\ \A n \in Nos \ {k} : att'[n] = att[n]
      BY <1>0, <1>1, <1>3, StatedAttempt DEF RecordAck
    <2>2. /\ loop'[w].pc = "charging" /\ loop'[w].no = k
          /\ \A v \in Workers \ {w} : loop'[v] = loop[v]
      BY <1>0, <1>3 DEF RecordAck, MovesTo, Loops
    <2>3. k \in wire.delivered /\ att[k].class = "none"
      BY <1>2, <1>3 DEF RecordAck, At, LoopClassed, Evidence
    <2>4. \A v \in Workers \ {w} : LoopClassed(v)'
      BY <1>1, <1>2, <2>1, <2>2, OthersClassed
    <2> HIDE DEF k
    <2>5. LoopClassed(w)'
      BY <2>1, <2>2, <2>3 DEF LoopClassed
    <2>6. \A n \in Nos : AttemptClassed(n)'
      BY <1>1, <1>2, <2>1, <2>3 DEF Classed, AttemptClassed, Refusals
    <2> QED  BY <1>1, <2>4, <2>5, <2>6 DEF Classed
  <1>4. CASE RecordFailure(w)
    <2>1. /\ att'[k].state = "failed" /\ att'[k].class = loop[w].class
          /\ \A n \in Nos \ {k} : att'[n] = att[n]
      <3> DEFINE a == Stated(att[k], "failed")
      <3>1. a \in Attempts /\ a.state = "failed"
        BY <1>0, <1>1, StatedAttempt
      <3>2. att' = [att EXCEPT ![k] = [a EXCEPT !.class = loop[w].class]]
        BY <1>4 DEF RecordFailure
      <3> HIDE DEF a, k
      <3>3. /\ [a EXCEPT !.class = loop[w].class].state = "failed"
            /\ [a EXCEPT !.class = loop[w].class].class = loop[w].class
        BY <3>1 DEF Attempts
      <3> QED  BY <1>0, <1>1, <3>2, <3>3
    <2>2. /\ loop'[w].pc = "settling" /\ loop'[w].no = k /\ loop'[w].class = loop[w].class
          /\ \A v \in Workers \ {w} : loop'[v] = loop[v]
      BY <1>0, <1>4 DEF RecordFailure, MovesTo, Loops
    <2>3. loop[w].class # "none" /\ (loop[w].class \in Refusals => k \notin Sent)
      BY <1>2, <1>4 DEF RecordFailure, At, LoopClassed
    <2>4. \A v \in Workers \ {w} : LoopClassed(v)'
      BY <1>1, <1>2, <2>1, <2>2, OthersClassed
    <2> HIDE DEF k
    <2>5. LoopClassed(w)'
      BY <1>2, <2>1, <2>2, <2>3 DEF LoopClassed
    <2>6. \A n \in Nos : AttemptClassed(n)'
      BY <1>1, <1>2, <2>1, <2>3 DEF Classed, AttemptClassed
    <2> QED  BY <1>1, <2>4, <2>5, <2>6 DEF Classed
  <1> QED  BY <1>3, <1>4

\* The other steps record no class, and settle an attempt at most as decided; a loop goes
\* from sending to acking or failing, or ends.
LEMMA ClassedKept ==
    ASSUME Typed, Classed,
           Sent' \subseteq Sent, wire'.flying \cap wire'.delivered = {},
           wire.delivered \subseteq wire'.delivered,
           \A n \in Nos : /\ att'[n].class = att[n].class
                          /\ \/ att'[n].state = att[n].state
                             \/ att'[n].state \in Decided /\ att[n].state # "none",
           \A w \in Workers :
              loop[w].pc = "prepared" => att'[loop[w].no].state = att[loop[w].no].state,
           \A w \in Workers :
              \/ loop'[w] = loop[w]
              \/ loop'[w].pc \in {"idle", "claimed"}
              \/ /\ loop[w].pc = "sending" /\ loop'[w].no = loop[w].no
                 /\ loop'[w].pc \in {"acking", "failing"}
                 /\ loop'[w].pc = "failing" =>
                      /\ loop'[w].class # "none"
                      /\ loop'[w].class \in Refusals => loop[w].no \notin Sent'
    PROVE  Classed'
  <1>1. ASSUME NEW n \in Nos PROVE AttemptClassed(n)'
    <2>1. AttemptClassed(n)
      BY DEF Classed
    <2> QED  BY <2>1 DEF AttemptClassed, Decided
  <1>2. ASSUME NEW w \in Workers PROVE LoopClassed(w)'
    <2>1. LoopClassed(w)
      BY DEF Classed
    <2>2. CASE loop[w].pc \in {"idle", "claimed"} \/ loop'[w].pc \in {"idle", "claimed"}
      BY <2>2 DEF LoopClassed
    <2>3. CASE loop[w].pc \notin {"idle", "claimed"} /\ loop'[w].pc \notin {"idle", "claimed"}
      <3>1. loop[w].no \in Nos
        BY <2>3 DEF Typed, Numbered
      <3>2. /\ att'[loop[w].no].class = att[loop[w].no].class
            /\ att'[loop[w].no].state = "acked" => att[loop[w].no].state = "acked"
        BY <3>1 DEF Decided
      <3>3. CASE loop'[w] = loop[w]
        BY <2>1, <3>2, <3>3 DEF LoopClassed
      <3>4. CASE loop[w].pc = "sending" /\ loop'[w].no = loop[w].no
                 /\ loop'[w].pc \in {"acking", "failing"}
        BY <2>1, <2>3, <3>2, <3>4 DEF LoopClassed
      <3> QED  BY <2>3, <3>3, <3>4
    <2> QED  BY <2>2, <2>3
  <1> QED  BY <1>1, <1>2 DEF Classed

LEMMA ClassedStart == ASSUME Init PROVE Classed
  BY DEF Init, Classed, AttemptClassed, LoopClassed, Idle, NoAttempt, Sent, Refusals

LEMMA ClassedStep ==
    ASSUME Typed, Rows, RowsOfLoops, Evidence, Careful, Classed, [Next]_vars
    PROVE  Classed'
  <1>0. /\ loop \in [Workers -> Loops] /\ att \in [Nos -> Attempts] /\ wire \in Wires
    BY DEF Typed, TypeOK
  <1>1. CASE \E w \in Workers : Prepare(w)
    BY <1>1, PrepareClassed
  <1>2. CASE \E w \in Workers : Dispatch(w)
    BY <1>2, DispatchClassed
  <1>3. CASE \E w \in Workers : RecordAck(w) \/ RecordFailure(w)
    BY <1>3, RecordClassed
  <1>4. CASE ~ \E w \in Workers : Prepare(w) \/ Dispatch(w) \/ RecordAck(w) \/ RecordFailure(w)
    <2>1. /\ Sent' \subseteq Sent /\ wire'.flying \cap wire'.delivered = {}
          /\ wire.delivered \subseteq wire'.delivered
      <3>0. wire.flying \cap wire.delivered = {}
        BY DEF Classed
      <3>1. CASE wire' = wire
        BY <3>0, <3>1 DEF Sent
      <3>2. ASSUME NEW w \in Workers, Refused(w)
            PROVE  /\ Sent' \subseteq Sent /\ wire'.flying \cap wire'.delivered = {}
                   /\ wire.delivered \subseteq wire'.delivered
        BY <1>0, <3>0, <3>2 DEF Refused, Wires, Sent
      <3>3. ASSUME NEW n, wire' = Own(wire, n)
            PROVE  /\ Sent' \subseteq Sent /\ wire'.flying \cap wire'.delivered = {}
                   /\ wire.delivered \subseteq wire'.delivered
        BY <1>0, <3>0, <3>3 DEF Own, Wires, Sent
      <3>4. ASSUME NEW n \in Nos, Deliver(n) \/ EchoCaptured(n)
            PROVE  /\ Sent' \subseteq Sent /\ wire'.flying \cap wire'.delivered = {}
                   /\ wire.delivered \subseteq wire'.delivered
        BY <1>0, <3>0, <3>4 DEF Deliver, EchoCaptured, Wires, Sent
      <3>5. CASE RecResolve \/ \E w \in Workers : SettleAck(w)
        BY <3>1, <3>3, <3>5 DEF RecResolve, SettleAck
      <3> QED  BY <1>4, <3>1, <3>2, <3>4, <3>5, WireWriters
    <2>2. /\ \A n \in Nos : /\ att'[n].class = att[n].class
                            /\ \/ att'[n].state = att[n].state
                               \/ att'[n].state \in Decided /\ att[n].state # "none"
          /\ \A w \in Workers :
               loop[w].pc = "prepared" => att'[loop[w].no].state = att[loop[w].no].state
      <3>0. \A w \in Workers : loop[w].pc = "prepared" =>
              loop[w].no \in Nos /\ att[loop[w].no].state = "prepared"
        BY DEF Classed, LoopClassed, Typed, Numbered
      <3>1. CASE att' = att
        BY <3>1
      <3>2. CASE RecExpired \/ RecResolve
        <4>1. recon.no \in Nos /\ att[recon.no].state # "none" /\ Deciding
          BY <3>2 DEF RecExpired, RecResolve, Typed, Numbered, Rows, Deciding
        <4>2. \A w \in Workers : loop[w].pc # "prepared"
          BY <4>1 DEF Careful, UnsentHolds
        <4>3. \/ att' = att
              \/ \E t \in Decided : att' = [att EXCEPT ![recon.no] = Stated(att[recon.no], t)]
          BY <3>2 DEF RecExpired, RecResolve, Decided
        <4>4. ASSUME NEW t \in Decided, att' = [att EXCEPT ![recon.no] = Stated(att[recon.no], t)]
              PROVE  \A n \in Nos : /\ att'[n].class = att[n].class
                                    /\ \/ att'[n].state = att[n].state
                                       \/ att'[n].state \in Decided /\ att[n].state # "none"
          <5>1. /\ att'[recon.no].state = t /\ att'[recon.no].class = att[recon.no].class
                /\ \A n \in Nos \ {recon.no} : att'[n] = att[n]
            BY <1>0, <4>1, <4>4, StatedAttempt
          <5> QED  BY <4>1, <5>1
        <4> QED  BY <3>1, <4>2, <4>3, <4>4
      <3>3. CASE RetryUnresolved
        <4>1. \A n \in Nos : \/ att'[n] = att[n]
                             \/ /\ att[n].state = "dispatched"
                                /\ att'[n] = Stated(att[n], "reconciled_lost")
          BY <3>3 DEF RetryUnresolved
        <4>2. \A n \in Nos : Stated(att[n], "reconciled_lost").state = "reconciled_lost"
                             /\ Stated(att[n], "reconciled_lost").class = att[n].class
          BY <1>0, StatedAttempt DEF Decided
        <4> QED  BY <3>0, <4>1, <4>2 DEF Decided
      <3>4. CASE TenMinutes
        <4>1. \A n \in Nos : att'[n] = Older(att[n]) /\ att[n] \in Attempts
          BY <1>0, <3>4 DEF TenMinutes
        <4>2. \A n \in Nos : att'[n].class = att[n].class /\ att'[n].state = att[n].state
          BY <4>1 DEF Older, Attempts
        <4> QED  BY <3>0, <4>2
      <3> QED  BY <1>4, <3>1, <3>2, <3>3, <3>4, AttemptWriters
    <2>3. ASSUME NEW w \in Workers
          PROVE  \/ loop'[w] = loop[w]
                 \/ loop'[w].pc \in {"idle", "claimed"}
                 \/ /\ loop[w].pc = "sending" /\ loop'[w].no = loop[w].no
                    /\ loop'[w].pc \in {"acking", "failing"}
                    /\ loop'[w].pc = "failing" =>
                         /\ loop'[w].class # "none"
                         /\ loop'[w].class \in Refusals => loop[w].no \notin Sent'
      <3>1. ASSUME NEW v \in Workers, Loop(v), loop'[w] # loop[w]
            PROVE  /\ \/ Claim(v) \/ Ends(v) \/ Acked(v) \/ Refused(v) \/ TimesOut(v)
                   /\ v = w
        <4>1. \/ Claim(v) \/ Ends(v) \/ Acked(v) \/ Refused(v) \/ TimesOut(v)
          BY <1>4, <3>1 DEF Loop, MediaDefers, OptOut, PrepareFails, Extend, SettleAck,
                            SettleFailure, Abandon
        <4>2. loop' = [loop EXCEPT ![v] = loop'[v]]
          BY <1>0, <4>1 DEF Claim, Ends, Acked, Refused, TimesOut, MovesTo, FailsAs
        <4> QED  BY <1>0, <3>1, <4>1, <4>2
      <3>2. ASSUME \A v \in Workers : ~Loop(v) PROVE loop' = loop
        <4>1. \/ \E n \in Nos : Deliver(n) \/ EchoCaptured(n)
              \/ Cron
              \/ RetryUnresolved \/ Discard \/ Resume \/ DrainMark
              \/ Expire \/ TenMinutes \/ UNCHANGED vars
          BY <3>2, Zenon DEF Next
        <4>2. Cron => loop' = loop
          BY DEF Cron, Reap, ReapedSent, ReapedFailed, RecDecide, RecAmbiguous, RecExpired,
                 RecResolve, RecSink, CheckCharge, SweepDies, RecScan, ChargeDrain, CheckScan
        <4> QED
          BY <4>1, <4>2 DEF Deliver, EchoCaptured, RetryUnresolved, Discard, Resume, DrainMark,
                            Expire, TenMinutes, vars
      <3>3. CASE Claim(w) \/ Ends(w)
        <4>1. ASSUME Claim(w) PROVE loop'[w].pc = "claimed"
          <5>1. PICK l \in Forgotten :
                  loop' = [loop EXCEPT ![w] = [Idle EXCEPT !.pc = "claimed",
                                  !.lease = l, !.no = job.attempts + 1]]
            BY <4>1 DEF Claim
          <5> QED  BY <1>0, <5>1 DEF Idle
        <4>2. ASSUME Ends(w) PROVE loop'[w].pc = "idle"
          BY <1>0, <4>2 DEF Ends, Idle
        <4> QED  BY <3>3, <4>1, <4>2
      <3>4. CASE Acked(w)
        BY <1>0, <3>4 DEF Acked, At, MovesTo, Loops
      <3>5. CASE TimesOut(w)
        BY <1>0, <3>5 DEF TimesOut, At, FailsAs, Loops, Refusals
      <3>6. CASE Refused(w)
        <4>1. /\ loop[w].pc = "sending" /\ loop'[w].no = loop[w].no /\ loop'[w].pc = "failing"
              /\ loop'[w].class # "none"
          BY <1>0, <3>6 DEF Refused, At, FailsAs, Loops
        <4>2. loop[w].no \notin Sent'
          <5>1. loop[w].no \in wire.flying /\ wire' = [wire EXCEPT !.flying = @ \ {loop[w].no}]
            BY <3>6 DEF Refused
          <5>2. loop[w].no \notin wire.delivered
            BY <5>1 DEF Classed
          <5> QED  BY <1>0, <5>1, <5>2 DEF Wires, Sent
        <4> QED  BY <4>1, <4>2
      <3> QED  BY <3>1, <3>2, <3>3, <3>4, <3>5, <3>6
    <2> QED  BY <2>1, <2>2, <2>3, ClassedKept
  <1> QED  BY <1>1, <1>2, <1>3, <1>4
-----------------------------------------------------------------------------
(* What a step does to an attempt, to the count and to what was sent. *)

LEMMA AttemptMoves ==
    ASSUME Typed, [Next]_vars, NEW n \in Nos
    PROVE  \/ /\ \E w \in Workers : Prepare(w) /\ loop[w].no = n
              /\ att[n].state = "none" /\ att'[n].state = "prepared"
           \/ /\ att'[n].lease = att[n].lease
              /\ \/ att'[n].state = att[n].state /\ att'[n].class = att[n].class
                 \/ \E w \in Workers :
                      /\ loop[w].no = n
                      /\ \/ /\ \/ Dispatch(w) /\ att'[n].state = "dispatched"
                               \/ RecordAck(w) /\ att'[n].state = "acked"
                            /\ att'[n].class = att[n].class
                         \/ /\ RecordFailure(w) /\ att'[n].state = "failed"
                            /\ att'[n].class = loop[w].class
                 \/ /\ att'[n].class = att[n].class
                    /\ \/ att'[n].state \in {"abandoned", "reconciled_lost"}
                       \/ /\ att'[n].state = "reconciled_sent" /\ RecResolve /\ recon.no = n
                          /\ job' = IfUnresolved(job, "sent")
  <1>0. /\ att \in [Nos -> Attempts]
        /\ \A w \in Workers : loop[w].pc \notin {"idle", "claimed"} => loop[w].no \in Nos
        /\ {"abandoned", "reconciled_lost", "reconciled_sent"} \subseteq Decided
    BY DEF Typed, TypeOK, Numbered, Decided
  <1>1. CASE att'[n] = att[n]
    BY <1>1
  <1>2. ASSUME NEW w \in Workers, Prepare(w), att'[n] # att[n]
        PROVE  loop[w].no = n /\ att[n].state = "none" /\ att'[n].state = "prepared"
    <2>1. /\ loop[w].no \in Nos /\ att[loop[w].no].state = "none"
          /\ att' = [att EXCEPT ![loop[w].no] =
                       [NoAttempt EXCEPT !.state = "prepared", !.lease = loop[w].lease]]
      BY <1>2 DEF Prepare, Preparable
    <2> QED  BY <1>0, <1>2, <2>1 DEF NoAttempt
  <1>3. ASSUME NEW w \in Workers,
               NEW s \in {"dispatched", "acked"}, loop[w].no \in Nos, att'[n] # att[n],
               att' = [att EXCEPT ![loop[w].no] = Stated(att[loop[w].no], s)]
        PROVE  /\ loop[w].no = n /\ att'[n].lease = att[n].lease /\ att'[n].class = att[n].class
               /\ att'[n].state = s
    <2>1. loop[w].no = n
      BY <1>0, <1>3
    <2>2. att'[n] = Stated(att[n], s) /\ att[n] \in Attempts
      BY <1>0, <1>3, <2>1
    <2> QED  BY <2>1, <2>2, StatedAttempt
  <1>4. ASSUME NEW w \in Workers, RecordFailure(w), att'[n] # att[n]
        PROVE  /\ loop[w].no = n /\ att'[n].lease = att[n].lease
               /\ att'[n].state = "failed" /\ att'[n].class = loop[w].class
    <2> DEFINE a == Stated(att[loop[w].no], "failed")
    <2>1. loop[w].no \in Nos
      BY <1>0, <1>4 DEF RecordFailure, At
    <2>2. a \in Attempts /\ a.state = "failed" /\ a.lease = att[loop[w].no].lease
      BY <1>0, <2>1, StatedAttempt
    <2>3. att' = [att EXCEPT ![loop[w].no] = [a EXCEPT !.class = loop[w].class]]
      BY <1>4 DEF RecordFailure
    <2> HIDE DEF a
    <2>4. /\ [a EXCEPT !.class = loop[w].class].state = "failed"
          /\ [a EXCEPT !.class = loop[w].class].lease = a.lease
          /\ [a EXCEPT !.class = loop[w].class].class = loop[w].class
      BY <2>2 DEF Attempts
    <2> QED  BY <1>0, <1>4, <2>1, <2>2, <2>3, <2>4
  <1>5. ASSUME RecExpired, att'[n] # att[n]
        PROVE  /\ att'[n].lease = att[n].lease /\ att'[n].class = att[n].class
               /\ att'[n].state = "abandoned"
    BY <1>0, <1>5, StatedAttempt DEF RecExpired
  <1>6. ASSUME RecResolve, att'[n] # att[n]
        PROVE  /\ att'[n].lease = att[n].lease /\ att'[n].class = att[n].class
               /\ att'[n].state = "reconciled_sent"
               /\ recon.no = n /\ job' = IfUnresolved(job, "sent")
    <2>1. /\ att' = [att EXCEPT ![recon.no] = Stated(att[recon.no], "reconciled_sent")]
          /\ job' = IfUnresolved(job, "sent")
      BY <1>6 DEF RecResolve
    <2> QED  BY <1>0, <1>6, <2>1, StatedAttempt
  <1>7. ASSUME RetryUnresolved, att'[n] # att[n]
        PROVE  /\ att'[n].lease = att[n].lease /\ att'[n].class = att[n].class
               /\ att'[n].state = "reconciled_lost"
    <2>1. att'[n] = Stated(att[n], "reconciled_lost")
      BY <1>7 DEF RetryUnresolved
    <2> QED  BY <1>0, <2>1, StatedAttempt
  <1>8. ASSUME TenMinutes
        PROVE  /\ att'[n].lease = att[n].lease /\ att'[n].class = att[n].class
               /\ att'[n].state = att[n].state
    <2>1. att'[n] = Older(att[n]) /\ att[n] \in Attempts
      BY <1>0, <1>8 DEF TenMinutes
    <2> QED  BY <2>1 DEF Older, Attempts
  <1>9. ASSUME NEW w \in Workers, Dispatch(w), att'[n] # att[n]
        PROVE  /\ loop[w].no = n /\ att'[n].lease = att[n].lease /\ att'[n].class = att[n].class
               /\ att'[n].state = "dispatched"
    BY <1>0, <1>3, <1>9 DEF Dispatch, At
  <1>10. ASSUME NEW w \in Workers, RecordAck(w), att'[n] # att[n]
         PROVE  /\ loop[w].no = n /\ att'[n].lease = att[n].lease /\ att'[n].class = att[n].class
                /\ att'[n].state = "acked"
    BY <1>0, <1>3, <1>10 DEF RecordAck, At
  <1> QED
    BY <1>1, <1>2, <1>4, <1>5, <1>6, <1>7, <1>8, <1>9, <1>10, AttemptWriters

\* Only Prepare counts.
LEMMA CountMoves ==
    ASSUME Typed, Rows, [Next]_vars, \A w \in Workers : ~Prepare(w)
    PROVE  job'.attempts = job.attempts
  <1>1. ASSUME NEW w \in Workers, Claim(w) PROVE job'.attempts = job.attempts
    <2>1. PICK l \in Leases : job' = Claimed(job, l)
      BY <1>1 DEF Claim, Forgotten
    <2> QED  BY <2>1, ClaimedJob DEF Typed, TypeOK
  <1>2. CASE \A w \in Workers : ~Claim(w)
    <2>1. KeepsJob
      BY <1>2, LoopKeeps, OtherStepsKeep DEF Keeps
    <2> QED  BY <2>1 DEF KeepsJob
  <1> QED  BY <1>1, <1>2

\* Only Claim brings a loop to claimed.
LEMMA ClaimedMoves ==
    ASSUME Typed, Rows, [Next]_vars, NEW w \in Workers, loop'[w].pc = "claimed"
    PROVE  loop[w].pc = "claimed" \/ Claim(w)
  <1>0. loop \in [Workers -> Loops]
    BY DEF Typed, TypeOK
  <1>1. ASSUME NEW v \in Workers, v # w, Claim(v) PROVE loop'[w] = loop[w]
    BY <1>0, <1>1 DEF Claim
  <1>2. ASSUME NEW v \in Workers, Prepare(v) PROVE loop[w].pc = "claimed"
    BY <1>0, <1>2 DEF Prepare, MovesTo, Loops, At
  <1>3. CASE \A v \in Workers : ~Claim(v) /\ ~Prepare(v)
    <2>1. KeepsLoops
      BY <1>3, LoopKeeps, OtherStepsKeep DEF Keeps
    <2> QED  BY <2>1 DEF KeepsLoops
  <1> QED  BY <1>1, <1>2, <1>3

\* Only Dispatch sends.
LEMMA SentMoves ==
    ASSUME Typed, [Next]_vars, NEW n \in Sent', n \notin Sent
    PROVE  \E w \in Workers : Dispatch(w) /\ n = loop[w].no
  <1>0. wire \in Wires
    BY DEF Typed, TypeOK
  <1>1. ASSUME NEW w \in Workers, Dispatch(w) PROVE n = loop[w].no
    BY <1>0, <1>1 DEF Dispatch, Wires, Sent
  <1>2. ASSUME NEW w \in Workers, Refused(w) PROVE FALSE
    BY <1>0, <1>2 DEF Refused, Wires, Sent
  <1>3. ASSUME NEW m, wire' = Own(wire, m) PROVE FALSE
    BY <1>0, <1>3 DEF Own, Wires, Sent
  <1>4. ASSUME wire' = wire PROVE FALSE
    BY <1>4 DEF Sent
  <1>5. ASSUME NEW m \in Nos, Deliver(m) \/ EchoCaptured(m) PROVE FALSE
    BY <1>0, <1>5 DEF Deliver, EchoCaptured, Wires, Sent
  <1>6. CASE RecResolve \/ \E w \in Workers : SettleAck(w)
    BY <1>3, <1>4, <1>6 DEF RecResolve, SettleAck
  <1> QED  BY <1>1, <1>2, <1>4, <1>5, <1>6, WireWriters
-----------------------------------------------------------------------------
(* Until a human retries. *)

\* An attempt the job waits for: the last one, of a job that is not up to be claimed.
Current(n) ==
    /\ n = job.attempts /\ job.status # "queued"
    /\ job.status = "processing" => att[n].lease = job.lease
    /\ \A w \in Workers : loop[w].pc # "claimed"

\* What was sent and did not fail as unknown is waited for; so is what is in doubt, and
\* what was found to have arrived is the last.
Unretried ==
    /\ \A n \in Sent : att[n].class = "unknown" \/ Current(n)
    /\ reaper.pc = "failed" => \A n \in Sent : att[n].class = "unknown"
    /\ \A n \in Nos : Dispatched(n) => n = job.attempts
    /\ Deciding => recon.no = job.attempts
    /\ \A n \in Nos : att[n].state = "reconciled_sent" => job.status = "sent" /\ n = job.attempts

LEMMA SentNumbers == ASSUME Typed PROVE Sent \subseteq Nos
  BY DEF Typed, TypeOK, Wires, Sent

\* By itself the job is queued again only when all that was sent failed as unknown.
LEMMA QueuedAgain ==
    ASSUME Typed, Rows, RowsOfLoops, Careful, Classed, Unretried, [Next]_vars, ~RetryUnresolved,
           job'.status = "queued", NEW n \in Sent
    PROVE  att[n].class = "unknown"
  <1>0. job \in Jobs /\ n \in Nos /\ AttemptClassed(n)
        /\ {"sent", "cancelled", "needs_reconcile", "blocked_needs_review"}
             \subseteq Statuses \ {"queued"}
    BY SentNumbers DEF Typed, TypeOK, Statuses, Final, Classed
  <1> SUFFICES ASSUME Current(n) PROVE att[n].class = "unknown"
    BY DEF Unretried
  <1>1. /\ job.status # "queued" /\ \A w \in Workers : loop[w].pc # "claimed"
        /\ att[n].state \notin {"none", "prepared"}
    BY <1>0 DEF Current, AttemptClassed
  <1>2. ASSUME NEW s \in Statuses \ {"queued"}
        PROVE  Become(job, s).status # "queued" /\ Unleased(job, s).status # "queued"
               /\ IfUnresolved(job, s).status # "queued"
    BY <1>0, <1>1, BecomeJob, UnleasedJob DEF IfUnresolved
  <1>3. ASSUME NEW w \in Workers
        PROVE  /\ ~MediaDefers(w) /\ ~OptOut(w) /\ ~Prepare(w) /\ ~Claim(w)
               /\ ~SettleAck(w) /\ ~Extend(w)
    <2>1. ~MediaDefers(w) /\ ~OptOut(w) /\ ~Prepare(w) /\ ~Claim(w)
      BY <1>1 DEF MediaDefers, OptOut, Prepare, Claim, At
    <2>2. ~SettleAck(w)
      BY <1>0, <1>1, <1>2 DEF SettleAck
    <2>3. ~Extend(w)
      <3>1. [job EXCEPT !.expired = FALSE].status = job.status
        BY <1>0 DEF Jobs
      <3> QED  BY <1>1, <3>1 DEF Extend
    <2> QED  BY <2>1, <2>2, <2>3
  <1>4. ASSUME NEW w \in Workers, SettleFailure(w)
        PROVE  att[n].class = "unknown"
    <2>1. Holds(job, loop[w].lease) /\ loop[w].pc = "settling"
      BY <1>1, <1>4 DEF SettleFailure, At
    <2>2. loop[w].no \in Nos /\ att[loop[w].no].lease = job.lease
      BY <2>1 DEF Holds, Typed, Numbered, RowsOfLoops
    <2>3. n = loop[w].no
      BY <1>0, <2>1, <2>2, RowOfLease DEF Holds, Current
    <2>4. att[n].class = loop[w].class /\ loop[w].class # "none"
          /\ (loop[w].class \notin Refusals)
      BY <2>1, <2>3 DEF Classed, LoopClassed
    <2>5. loop[w].class \in Classes
      BY DEF Typed, TypeOK, Loops
    <2> QED  BY <2>4, <2>5 DEF Classes, Refusals
  <1>5. ~Reap
    <2> SUFFICES ASSUME Reap PROVE FALSE
      OBVIOUS
    <2>1. PICK m \in Counts : Matches(m) /\ job' = Reaped(job, StateOf(m))
      BY DEF Reap
    <2>2. job.status = "processing" /\ att[n].lease = job.lease
      BY DEF Reap, Current
    <2>3. m # 0 /\ att[m].lease = job.lease /\ m \in Nos
      BY <1>0, <2>1, <2>2 DEF Matches, Nos
    <2>4. StateOf(m) = att[n].state
      <3>1. m = n
        BY <1>0, <2>2, <2>3, RowOfLease
      <3> QED  BY <2>3, <3>1 DEF StateOf
    <2> DEFINE st == StateOf(m)
               s == CASE st = "none"     -> "queued"
                      [] st = "prepared" -> IF Exhausted(job.attempts)
                                            THEN "failed" ELSE "queued"
                      [] st = "acked"    -> "sent"
                      [] OTHER           -> "needs_reconcile"
    <2>5. job' = Unleased(job, s)
      BY <2>1 DEF Reaped
    <2>6. s \in Statuses \ {"queued"}
      BY <1>1, <2>4 DEF Statuses, Final
    <2> HIDE DEF s
    <2> QED  BY <1>2, <2>5, <2>6
  <1>6. ReapedFailed => att[n].class = "unknown"
    BY DEF ReapedFailed, Unretried
  <1>7. ~RecAmbiguous /\ ~RecExpired /\ ~RecResolve /\ ~Discard /\ ~DrainMark
    BY <1>0, <1>2 DEF RecAmbiguous, RecExpired, RecResolve, Discard, DrainMark
  <1>8. ~Expire
    <2>1. [job EXCEPT !.expired = TRUE].status = job.status
      BY <1>0 DEF Jobs
    <2> QED  BY <1>1, <2>1 DEF Expire
  <1>9. job' # job
    BY <1>1
  <1> QED  BY <1>3, <1>4, <1>5, <1>6, <1>7, <1>8, <1>9, JobWriters

\* Once unknown, always: a class is recorded by the loop of an attempt without one.
LEMMA UnknownStays ==
    ASSUME Typed, Classed, [Next]_vars, NEW n \in Sent, att[n].class = "unknown"
    PROVE  att'[n].class = "unknown"
  <1>1. n \in Nos /\ AttemptClassed(n)
    BY SentNumbers DEF Classed
  <1>2. ASSUME NEW w \in Workers, RecordFailure(w), loop[w].no = n PROVE FALSE
    BY <1>2 DEF RecordFailure, At, Classed, LoopClassed
  <1>3. att[n].state # "none"
    BY <1>1 DEF AttemptClassed
  <1> QED  BY <1>1, <1>2, <1>3, AttemptMoves

\* What a loop does between its claim and its send, it does while nothing is waited for.
LEMMA CurrentLoops ==
    ASSUME Typed, Careful, Unretried, NEW w \in Workers, Prepare(w) \/ Claim(w)
    PROVE  /\ \A n \in Sent : att[n].class = "unknown"
           /\ \A n \in Nos : ~Dispatched(n) /\ att[n].state # "reconciled_sent"
           /\ ~Deciding /\ reaper.pc # "failed"
  <1>1. CASE Prepare(w)
    <2>1. loop[w].pc = "claimed"
      BY <1>1 DEF Prepare, At
    <2> QED  BY <2>1 DEF Careful, UnsentHolds, Unretried, Current
  <1>2. CASE Claim(w)
    <2>1. job.status = "queued"
      BY <1>2 DEF Claim
    <2> QED  BY <2>1 DEF Careful, InDoubt, Unretried, Current
  <1> QED  BY <1>1, <1>2

\* What is waited for stays waited for, or everything has failed as unknown.
LEMMA CurrentStays ==
    ASSUME Typed, Rows, RowsOfLoops, Careful, Classed, Unretried, [Next]_vars, ~RetryUnresolved,
           \A w \in Workers : ~Prepare(w) /\ ~Claim(w), NEW n \in Sent, Current(n)
    PROVE  att[n].class = "unknown" \/ Current(n)'
  <1>1. n \in Nos /\ att[n].state # "none"
    BY SentNumbers DEF Classed, AttemptClassed
  <1>2. CASE job'.status = "queued"
    BY <1>2, QueuedAgain
  <1>3. CASE job'.status # "queued"
    <2>1. job'.attempts = job.attempts
      BY CountMoves
    <2>2. job'.status = "processing" => job.status = "processing" /\ job'.lease = job.lease
      BY LeaseKept
    <2>3. att'[n].lease = att[n].lease
      BY <1>1, AttemptMoves
    <2>4. \A w \in Workers : loop'[w].pc # "claimed"
      BY ClaimedMoves DEF Current
    <2> QED  BY <1>3, <2>1, <2>2, <2>3, <2>4 DEF Current
  <1> QED  BY <1>2, <1>3

LEMMA DispatchIsLast ==
    ASSUME Typed, Rows, RowsOfLoops, Careful, NEW w \in Workers, Dispatch(w)
    PROVE  /\ loop[w].no \in Nos /\ loop[w].no = job.attempts
           /\ job' = job /\ job.status \in {"processing", "needs_reconcile"}
           /\ att[loop[w].no].lease = job.lease
           /\ reaper.pc # "failed"
           /\ \A v \in Workers : loop[v].pc # "claimed"
  <1>1. loop[w].pc = "prepared" /\ loop[w].no \in Nos /\ job' = job
    BY DEF Dispatch, At, Typed, Numbered
  <1>2. /\ loop[w].lease = job.lease /\ job.status \in {"processing", "needs_reconcile"}
        /\ reaper.pc # "failed"
    BY <1>1 DEF Careful, UnsentHolds
  <1>3. loop[w].no = job.attempts /\ att[loop[w].no].lease = job.lease
    BY <1>1, <1>2 DEF RowsOfLoops
  <1>4. \A v \in Workers : loop[v].pc # "claimed"
    <2>1. \A v \in Workers \ {w} : loop[v].pc # "claimed"
      BY <1>1, <1>2, HolderIsAlone
    <2> QED  BY <1>1, <2>1
  <1> QED  BY <1>1, <1>2, <1>3, <1>4

\* A job in the reconciler's hands goes where the reconciler puts it.
LEMMA ResolvedJob ==
    ASSUME Typed, Careful, Unretried, RecResolve, job' = IfUnresolved(job, "sent")
    PROVE  /\ job'.status = "sent" /\ job'.attempts = job.attempts
           /\ recon.no = job.attempts
           /\ \A n \in Nos : att[n].state # "reconciled_sent"
  <1>1. Deciding
    BY DEF RecResolve, Deciding
  <1>2. job.status = "needs_reconcile" /\ recon.no = job.attempts
    BY <1>1 DEF Careful, InDoubt, Unretried
  <1>3. job' = Become(job, "sent") /\ "sent" \in Statuses /\ job \in Jobs
    BY <1>2 DEF IfUnresolved, Statuses, Final, Typed, TypeOK
  <1> QED  BY <1>2, <1>3, BecomeJob DEF Unretried

LEMMA SentUnretried ==
    ASSUME Typed, Rows, RowsOfLoops, Careful, Classed, Unretried, [Next]_vars, ~RetryUnresolved,
           NEW n \in Sent'
    PROVE  att'[n].class = "unknown" \/ Current(n)'
  <1>1. ASSUME NEW w \in Workers, Prepare(w) \/ Claim(w) PROVE att'[n].class = "unknown"
    <2>1. wire' = wire /\ n \in Sent
      BY <1>1 DEF Prepare, Claim, Sent
    <2> QED  BY <1>1, <2>1, CurrentLoops, UnknownStays
  <1>2. CASE n \notin Sent
    <2>1. PICK w \in Workers : Dispatch(w) /\ n = loop[w].no
      BY <1>2, SentMoves
    <2>2. \A v \in Workers : ~Prepare(v) /\ ~Claim(v)
      BY <2>1, DispatchIsLast DEF Prepare, Claim, At
    <2>3. att'[n].lease = att[n].lease
      BY <2>1, <2>2, DispatchIsLast, AttemptMoves
    <2>4. \A v \in Workers : loop'[v].pc # "claimed"
      BY <2>1, <2>2, DispatchIsLast, ClaimedMoves
    <2> QED  BY <2>1, <2>3, <2>4, DispatchIsLast DEF Current
  <1>3. CASE n \in Sent /\ \A w \in Workers : ~Prepare(w) /\ ~Claim(w)
    BY <1>3, CurrentStays, UnknownStays DEF Unretried
  <1> QED  BY <1>1, <1>2, <1>3

LEMMA FailedUnretried ==
    ASSUME Typed, Rows, RowsOfLoops, Careful, Classed, Unretried, [Next]_vars,
           reaper'.pc = "failed", NEW n \in Sent'
    PROVE  att'[n].class = "unknown"
  <1>1. CASE reaper' \in {reaper, NoReap}
    <2>1. reaper.pc = "failed"
      BY <1>1 DEF NoReap
    <2>2. \A w \in Workers : ~Dispatch(w)
      BY <2>1, DispatchIsLast
    <2>3. n \in Sent
      BY <2>2, SentMoves
    <2> QED  BY <2>1, <2>3, UnknownStays DEF Unretried
  <1>2. CASE Reap
    <2>1. PICK m \in Counts :
            /\ Matches(m)
            /\ reaper' = CASE StateOf(m) = "acked" -> [NoReap EXCEPT !.pc = "sent", !.no = m]
                           [] StateOf(m) = "failed" ->
                                [pc |-> "failed", no |-> m, class |-> att[m].class]
                           [] OTHER -> NoReap
      BY <1>2 DEF Reap
    <2>2. StateOf(m) = "failed"
      BY <2>1 DEF NoReap
    <2>3. m \in Nos /\ att[m].state = "failed" /\ att[m].lease = job.lease
      BY <2>1, <2>2 DEF StateOf, Matches, Nos
    <2>4. job.status = "processing" /\ att' = att /\ n \in Sent /\ n \in Nos
      BY <1>2, SentNumbers DEF Reap, Sent
    <2> SUFFICES ASSUME Current(n) PROVE att[n].class = "unknown"
      BY <2>4 DEF Unretried
    <2>5. m = n
      BY <2>3, <2>4, RowOfLease DEF Current
    <2>6. att[n].class # "none" /\ att[n].class \notin Refusals /\ att[n].class \in Classes
      <3>1. AttemptClassed(n) /\ att[n] \in Attempts
        BY <2>4 DEF Classed, Typed, TypeOK
      <3> QED  BY <2>3, <2>4, <2>5, <3>1 DEF AttemptClassed, Attempts
    <2> QED  BY <2>6 DEF Classes, Refusals
  <1> QED  BY <1>1, <1>2, SweepWriters

LEMMA UnretriedStart == ASSUME Init PROVE Unretried
  BY DEF Init, Unretried, Sent, NoAttempt, NoReap, NoRecon, Dispatched, Deciding

LEMMA UnretriedStep ==
    ASSUME Typed, Rows, RowsOfLoops, Careful, Classed, Unretried, [Next]_vars, ~RetryUnresolved
    PROVE  Unretried'
  <1>1. ASSUME NEW n \in Nos, att'[n].state = "dispatched" PROVE n = job'.attempts
    <2>1. CASE Dispatched(n)
      <3>1. \A w \in Workers : ~Prepare(w)
        BY <2>1, CurrentLoops
      <3> QED  BY <2>1, <3>1, CountMoves DEF Unretried
    <2>2. CASE ~Dispatched(n)
      <3>1. PICK w \in Workers : Dispatch(w) /\ loop[w].no = n
        BY <1>1, <2>2, AttemptMoves DEF Dispatched
      <3> QED  BY <3>1, DispatchIsLast
    <2> QED  BY <2>1, <2>2
  <1>2. ASSUME recon'.pc \in {"found", "ambiguous", "expired", "resolve"}
        PROVE  recon'.no = job'.attempts
    <2>1. recon.pc \in {"found", "ambiguous", "expired", "resolve"} \/ \E n \in Nos : RecScan(n)
      <3>1. CASE RecDecide \/ RecResolve
        BY <3>1 DEF RecDecide, RecResolve
      <3>2. CASE recon' \in {recon, NoRecon}
        BY <1>2, <3>2 DEF NoRecon
      <3> QED  BY <3>1, <3>2, SweepWriters
    <2>2. \A w \in Workers : ~Prepare(w)
      <3>1. CASE Deciding
        BY <3>1, CurrentLoops
      <3>2. ASSUME NEW n \in Nos, RecScan(n) PROVE \A w \in Workers : ~Prepare(w)
        BY <3>2, CurrentLoops DEF RecScan, InScan, Dispatched
      <3> QED  BY <2>1, <3>1, <3>2 DEF Deciding
    <2>3. job'.attempts = job.attempts
      BY <2>2, CountMoves
    <2>4. ASSUME NEW n \in Nos, RecScan(n) PROVE recon'.no = job.attempts
      BY <2>4 DEF RecScan, InScan, Unretried, Dispatched, NoRecon
    <2>5. CASE RecDecide
      <3>1. recon'.no = recon.no /\ Deciding
        BY <1>2, <2>5 DEF RecDecide, Typed, TypeOK, Recons, NoRecon, Deciding
      <3> QED  BY <2>3, <3>1 DEF Unretried
    <2>6. CASE RecResolve
      BY <1>2, <2>6 DEF RecResolve, NoRecon, Typed, TypeOK, Recons
    <2>7. CASE recon' \in {recon, NoRecon}
      BY <1>2, <2>3, <2>7 DEF Unretried, Deciding, NoRecon
    <2> QED  BY <2>3, <2>4, <2>5, <2>6, <2>7, SweepWriters
  <1>3. ASSUME NEW n \in Nos, att'[n].state = "reconciled_sent"
        PROVE  job'.status = "sent" /\ n = job'.attempts
    <2>1. CASE att[n].state = "reconciled_sent"
      <3>1. job.status = "sent" /\ n = job.attempts
        BY <2>1 DEF Unretried
      <3>2. job'.status = "sent"
        BY <3>1, LoopKeepsFinal, OtherStepsKeepFinal DEF Final
      <3>3. \A w \in Workers : ~Prepare(w)
        BY <2>1, CurrentLoops
      <3> QED  BY <3>1, <3>2, <3>3, CountMoves
    <2>2. CASE att[n].state # "reconciled_sent"
      <3>1. RecResolve /\ recon.no = n /\ job' = IfUnresolved(job, "sent")
        BY <1>3, <2>2, AttemptMoves
      <3> QED  BY <3>1, ResolvedJob
    <2> QED  BY <2>1, <2>2
  <1>4. \A n \in Sent' : att'[n].class = "unknown" \/ Current(n)'
    BY SentUnretried
  <1>5. reaper'.pc = "failed" => \A n \in Sent' : att'[n].class = "unknown"
    BY FailedUnretried
  <1> QED  BY <1>1, <1>2, <1>3, <1>4, <1>5 DEF Unretried, Dispatched, Deciding

LEMMA RetriesMove ==
    ASSUME Typed, [Next]_vars, retries' = 0
    PROVE  retries = 0 /\ ~RetryUnresolved
  <1>1. retries' = retries \/ RetryUnresolved
    BY DEF Next, Loop, Cron, Claim, MediaDefers, OptOut, Prepare, PrepareFails, Dispatch, Extend,
           Acked, Refused, TimesOut, RecordAck, SettleAck, RecordFailure, SettleFailure, Abandon,
           Reap, ReapedSent, ReapedFailed, RecDecide, RecAmbiguous, RecExpired, RecResolve,
           RecSink, CheckCharge, SweepDies, RecScan, ChargeDrain, CheckScan, Deliver,
           EchoCaptured, Discard, Resume, DrainMark, Expire, TenMinutes, vars, OthersUnchanged
  <1>2. retries \in Nat /\ (RetryUnresolved => retries' = retries + 1)
    BY LoopAssumption DEF Typed, TypeOK, RetryUnresolved
  <1> QED  BY <1>1, <1>2

\* Everything the loops, the sweeps and the transport know of the job, as one invariant.
CarefulInv == Typed /\ Rows /\ RowsOfLoops /\ Evidence /\ Careful /\ Classed

LEMMA CarefulInvStart == ASSUME Init PROVE CarefulInv
  BY InitTyped, RowsStart, RowsOfLoopsStart, EvidenceStart, CarefulStart, ClassedStart
     DEF CarefulInv

LEMMA CarefulInvStep == ASSUME CarefulInv, [Next]_vars, ~Stalls PROVE CarefulInv'
  BY NextTyped, RowsStep, RowsOfLoopsStep, EvidenceStep, CarefulStep, ClassedStep
     DEF CarefulInv

\* The last attempt is the only one that WhatsApp took and the queue knows nothing worse of.
LEMMA ResendsAreBlindToUnknown ==
    ASSUME CarefulInv, retries = 0 => Unretried
    PROVE  NoBlindResend
  <1> SUFFICES ASSUME NEW m \in wire.delivered, NEW n \in wire.delivered, m < n,
                      att[m].class # "unknown", ~(retries > 0)
               PROVE  FALSE
    BY DEF NoBlindResend
  <1>1. retries = 0
    BY LoopAssumption DEF CarefulInv, Typed, TypeOK
  <1>2. m \in Sent /\ n \in Sent /\ m \in Nos /\ n \in Nos
    BY SentNumbers DEF CarefulInv, Sent
  <1>3. m = job.attempts
    BY <1>1, <1>2 DEF Unretried, Current
  <1>4. att[n].state # "none"
    BY <1>2 DEF CarefulInv, Classed, AttemptClassed
  <1>5. n <= job.attempts
    BY <1>2, <1>4 DEF CarefulInv, Rows, AttemptsMatchRows
  <1>6. m \in Nat /\ n \in Nat /\ job.attempts \in Nat
    BY <1>2, <1>3, Numbers
  <1> QED  BY <1>3, <1>5, <1>6

\* While no loop stalls for longer than its lease and the grace, nothing but a human sends a
\* message again that WhatsApp took, unless its send failed as unknown: not the reaper, the
\* reconciler or a settlement that comes late.
THEOREM NothingIsResent == ASSUME ~Stalls PROVE Spec => []NoBlindResend
  <1> DEFINE I == CarefulInv /\ (retries = 0 => Unretried)
  <1>1. Init => I
    BY CarefulInvStart, UnretriedStart
  <1>2. I /\ [Next]_vars => I'
    <2> SUFFICES ASSUME I, [Next]_vars PROVE I'
      OBVIOUS
    <2>1. CarefulInv'
      BY CarefulInvStep
    <2>2. retries' = 0 => Unretried'
      BY RetriesMove, UnretriedStep DEF CarefulInv
    <2> QED  BY <2>1, <2>2
  <1>3. I => NoBlindResend
    BY ResendsAreBlindToUnknown
  <1> QED  BY <1>1, <1>2, <1>3, PTL DEF Spec
-----------------------------------------------------------------------------
(* What is paid for. *)

\* What is charged is the last attempt, of a job that is sent, or one that WhatsApp took and
\* nobody is about to say anything else of.
Charged == wallet.debits \cup wallet.adjusted
Unsettled == {"prepared", "sending", "acking", "failing"}
PaidFor(n) ==
    /\ n = job.attempts
    /\ \/ job.status = "sent"
       \/ /\ n \in wire.delivered /\ att[n].class = "none"
          /\ \A w \in Workers : loop[w].no = n => loop[w].pc \notin Unsettled
Paid == \A n \in Charged : PaidFor(n)

LEMMA ChargeMoves ==
    ASSUME Typed, [Next]_vars, NEW n \in Charged', n \notin Charged
    PROVE  \/ \E w \in Workers : /\ loop[w].pc = "charging" /\ n = loop[w].no
                                 /\ Holds(job, loop[w].lease) /\ job' = Become(job, "sent")
           \/ /\ n \in Nos /\ att[n].state \in Settled
              /\ UNCHANGED <<job, att, loop, wire>>
  <1>0. wallet \in Wallets
    BY DEF Typed, TypeOK
  <1>1. ASSUME NEW w \in Workers, SettleAck(w)
        PROVE  /\ loop[w].pc = "charging" /\ n = loop[w].no
               /\ Holds(job, loop[w].lease) /\ job' = Become(job, "sent")
    BY <1>0, <1>1 DEF SettleAck, At, Debit, Wallets, Charged
  <1>2. ASSUME NEW m \in Nos, ChargeDrain(m)
        PROVE  n \in Nos /\ att[n].state \in Settled /\ UNCHANGED <<job, att, loop, wire>>
    <2> DEFINE rest == [wallet EXCEPT !.pending = @ \ {m}]
    <2>0. rest \in Wallets /\ rest.debits = wallet.debits /\ rest.adjusted = wallet.adjusted
      BY <1>0 DEF Wallets
    <2>1. n = m /\ att[m].state \in Settled
      <3>1. wallet' \in {rest, DebitRepaired(rest, m, att[m], job)}
        BY <1>2 DEF ChargeDrain
      <3> HIDE DEF rest
      <3>2. wallet' = rest \/ (wallet' = Debit(rest, m) /\ att[m].state \in Settled)
        BY <3>1 DEF DebitRepaired, Chargeable
      <3> QED  BY <2>0, <3>2 DEF Debit, Wallets, Charged
    <2> QED  BY <1>2, <2>1 DEF ChargeDrain
  <1>3. CASE ReapedSent \/ RecSink
    <2>1. \A m : \A v \in Enqueue(wallet, m) :
            v.debits = wallet.debits /\ v.adjusted = wallet.adjusted
      BY <1>0 DEF Enqueue, Wallets
    <2> QED  BY <1>3, <2>1 DEF ReapedSent, RecSink, Charged
  <1>4. ASSUME CheckCharge
        PROVE  n \in Nos /\ att[n].state \in Settled /\ UNCHANGED <<job, att, loop, wire>>
    <2> DEFINE m == check.no
    <2>0. m \in Nos
      BY <1>4 DEF CheckCharge, Typed, Numbered
    <2>1. \/ wallet' = wallet
          \/ wallet' \in {Debit(wallet, m), [wallet EXCEPT !.adjusted = @ \cup {m}]}
             /\ att[m].state \in Settled
      BY <1>4 DEF CheckCharge, Correction, DebitRepaired, Adjust, Chargeable
    <2> HIDE DEF m
    <2>2. n = m /\ att[m].state \in Settled
      BY <1>0, <2>1 DEF Debit, Wallets, Charged
    <2> QED  BY <1>4, <2>0, <2>2 DEF CheckCharge
  <1>5. wallet' # wallet
    BY DEF Charged
  <1> QED  BY <1>1, <1>2, <1>3, <1>4, <1>5, WalletWriters

\* A loop about to settle can only do that, or end.
LEMMA SettlingEnds ==
    ASSUME Typed, Rows, [Next]_vars, NEW w \in Workers, loop'[w].pc \in Unsettled,
           \A v \in Workers : ~Prepare(v)
    PROVE  loop[w].pc \in Unsettled /\ loop'[w].no = loop[w].no
  <1>0. loop \in [Workers -> Loops]
    BY DEF Typed, TypeOK
  <1>1. /\ loop[w].pc \notin {"idle", "claimed"} /\ loop'[w].no = loop[w].no
    BY LoopMoves DEF Unsettled
  <1>2. loop[w].pc \in Unsettled \cup {"charging", "settling"}
    BY <1>0, <1>1 DEF Loops, Unsettled
  <1> SUFFICES ASSUME loop[w].pc \in {"charging", "settling"} PROVE FALSE
    BY <1>1, <1>2
  <1>3. PICK v \in Workers : Loop(v)
    <2>1. loop' # loop
      BY DEF Unsettled
    <2>2. Cron => loop' = loop
      BY DEF Cron, Reap, ReapedSent, ReapedFailed, RecDecide, RecAmbiguous, RecExpired,
             RecResolve, RecSink, CheckCharge, SweepDies, RecScan, ChargeDrain, CheckScan
    <2>3. \/ \E n \in Nos : Deliver(n) \/ EchoCaptured(n)
          \/ RetryUnresolved \/ Discard \/ Resume \/ DrainMark
          \/ Expire \/ TenMinutes \/ UNCHANGED vars
          => loop' = loop
      BY DEF Deliver, EchoCaptured, RetryUnresolved, Discard, Resume, DrainMark, Expire,
             TenMinutes, vars
    <2> QED  BY <2>1, <2>2, <2>3, Zenon DEF Next
  <1>4. CASE Claim(v)
    BY <1>0, <1>4 DEF Claim, At, Unsettled
  <1>5. CASE Ends(v) \/ loop' = loop
    BY <1>0, <1>5 DEF Ends, Idle, Unsettled
  <1>6. ASSUME NEW pc, MovesTo(v, pc), loop[v].pc \in {"prepared", "sending", "acking", "failing"}
        PROVE  FALSE
    BY <1>0, <1>6 DEF MovesTo, Unsettled
  <1>7. ASSUME NEW c, FailsAs(v, c), loop[v].pc = "sending"
        PROVE  FALSE
    BY <1>0, <1>7 DEF FailsAs, Unsettled
  <1>8. ~Prepare(v)
    OBVIOUS
  <1> QED
    BY <1>3, <1>4, <1>5, <1>6, <1>7, <1>8
       DEF Loop, MediaDefers, OptOut, PrepareFails, Dispatch, Extend, Acked, Refused,
           TimesOut, RecordAck, SettleAck, RecordFailure, SettleFailure, Abandon, At

LEMMA PaidStart == ASSUME Init PROVE Paid
  BY DEF Init, Paid, Charged

LEMMA PaidStep ==
    ASSUME Typed, Rows, RowsOfLoops, Evidence, Careful, Classed, Unretried, Paid,
           [Next]_vars, ~RetryUnresolved
    PROVE  Paid'
  <1>1. ASSUME NEW n \in Charged', n \in Charged PROVE PaidFor(n)'
    <2>0. PaidFor(n)
      BY <1>1 DEF Paid
    <2>1. CASE job.status = "sent"
      <3>1. job'.status = "sent"
        BY <2>1, LoopKeepsFinal, OtherStepsKeepFinal DEF Final
      <3>2. \A w \in Workers : ~Prepare(w)
        BY <2>1 DEF Prepare, At, Careful, UnsentHolds
      <3>3. job'.attempts = job.attempts
        BY <3>2, CountMoves
      <3> QED  BY <2>0, <3>1, <3>3 DEF PaidFor
    <2>2. CASE job.status # "sent"
      <3>1. /\ n \in wire.delivered /\ n \in Sent /\ att[n].class = "none" /\ n = job.attempts
            /\ \A w \in Workers : loop[w].no = n => loop[w].pc \notin Unsettled
        BY <2>0, <2>2 DEF PaidFor, Sent
      <3>2. n \in Nos /\ Current(n) /\ att[n].state # "none"
        BY <3>1, SentNumbers DEF Unretried, Classed, AttemptClassed
      <3>3. \A w \in Workers : ~Prepare(w)
        BY <3>2 DEF Current, Prepare, At
      <3>4. job'.attempts = job.attempts /\ n \in wire'.delivered
        BY <3>1, <3>3, CountMoves, WireGrows
      <3>5. att'[n].class = "none"
        <4>1. \A w \in Workers : ~(RecordFailure(w) /\ loop[w].no = n)
          BY <3>1 DEF RecordFailure, At, Unsettled
        <4> QED  BY <3>1, <3>2, <3>3, <4>1, AttemptMoves
      <3>6. \A w \in Workers : loop'[w].no = n => loop'[w].pc \notin Unsettled
        BY <3>1, <3>3, SettlingEnds
      <3> QED  BY <3>1, <3>4, <3>5, <3>6 DEF PaidFor
    <2> QED  BY <2>1, <2>2
  <1>2. ASSUME NEW n, NEW w \in Workers, loop[w].pc = "charging", n = loop[w].no,
               Holds(job, loop[w].lease), job' = Become(job, "sent")
        PROVE  PaidFor(n)'
    <2>1. job'.status = "sent" /\ job'.attempts = job.attempts
      BY <1>2, BecomeJob DEF Typed, TypeOK, Statuses, Final
    <2>2. n = job.attempts
      BY <1>2 DEF Holds, RowsOfLoops
    <2> QED  BY <2>1, <2>2 DEF PaidFor
  <1>3. ASSUME NEW n \in Nos, att[n].state \in Settled, UNCHANGED <<job, att, loop, wire>>
        PROVE  PaidFor(n)'
    <2> SUFFICES PaidFor(n)
      BY <1>3 DEF PaidFor
    <2>1. CASE att[n].state = "reconciled_sent"
      BY <2>1 DEF Unretried, PaidFor
    <2>2. CASE att[n].state = "acked"
      <3>1. n \in wire.delivered /\ n \in Sent /\ att[n].class = "none"
        BY <2>2 DEF Classed, AttemptClassed, Sent
      <3>2. n = job.attempts
        BY <3>1 DEF Unretried, Current
      <3>3. \A w \in Workers : loop[w].no = n => loop[w].pc \notin Unsettled
        BY <2>2 DEF Classed, LoopClassed, Unsettled
      <3> QED  BY <3>1, <3>2, <3>3 DEF PaidFor
    <2> QED  BY <1>3, <2>1, <2>2 DEF Settled
  <1> QED
    <2> SUFFICES ASSUME NEW n \in Charged' PROVE PaidFor(n)'
      BY DEF Paid
    <2>1. CASE n \in Charged
      BY <1>1, <2>1
    <2>2. CASE n \notin Charged
      <3>1. CASE \E w \in Workers : /\ loop[w].pc = "charging" /\ n = loop[w].no
                                    /\ Holds(job, loop[w].lease) /\ job' = Become(job, "sent")
        BY <1>2, <3>1
      <3>2. CASE n \in Nos /\ att[n].state \in Settled /\ UNCHANGED <<job, att, loop, wire>>
        BY <1>3, <3>2
      <3> QED  BY <2>2, <3>1, <3>2, ChargeMoves
    <2> QED  BY <2>1, <2>2

\* One attempt at most is paid for, and then a message was taken.
LEMMA PaidIsDelivered ==
    ASSUME Typed, Evidence, retries = 0 => Paid
    PROVE  PaidForDelivered
  <1> SUFFICES ASSUME Paid PROVE Cardinality(Charged) <= Cardinality(wire.delivered)
    BY DEF PaidForDelivered, Charged
  <1>1. IsFiniteSet(wire.delivered)
    <2>1. IsFiniteSet(Counts)
      BY QueueAssumption, FS_Interval DEF Counts
    <2>2. wire.delivered \in SUBSET Counts
      BY DEF Typed, TypeOK, Wires, Nos
    <2> QED  BY <2>1, <2>2, FS_Subset
  <1>2. Cardinality(wire.delivered) \in Nat
    BY <1>1, FS_CardinalityType
  <1>3. CASE Charged = {}
    BY <1>2, <1>3, FS_EmptySet
  <1>4. CASE Charged # {}
    <2>1. PICK n \in Charged : PaidFor(n)
      BY <1>4 DEF Paid
    <2>2. Charged = {job.attempts}
      BY <2>1 DEF Paid, PaidFor
    <2>3. Cardinality(Charged) = 1
      BY <2>2, FS_Singleton
    <2>4. wire.delivered # {}
      BY <2>1 DEF PaidFor, Evidence
    <2>5. Cardinality(wire.delivered) # 0
      BY <1>1, <2>4, FS_EmptySet
    <2> QED  BY <1>2, <2>3, <2>5
  <1> QED  BY <1>3, <1>4

\* While no loop stalls for longer than its lease and the grace, there are never more
\* attempts paid for than messages that WhatsApp took, until a human retries one: whichever
\* of the settlement, the queue of missed charges and the daily check it is that charges.
THEOREM PaymentsAreForDelivered == ASSUME ~Stalls PROVE Spec => []PaidForDelivered
  <1> DEFINE I == CarefulInv /\ (retries = 0 => Unretried /\ Paid)
  <1>1. Init => I
    BY CarefulInvStart, UnretriedStart, PaidStart
  <1>2. I /\ [Next]_vars => I'
    <2> SUFFICES ASSUME I, [Next]_vars PROVE I'
      OBVIOUS
    <2>1. CarefulInv'
      BY CarefulInvStep
    <2>2. retries' = 0 => Unretried' /\ Paid'
      BY RetriesMove, UnretriedStep, PaidStep DEF CarefulInv
    <2> QED  BY <2>1, <2>2
  <1>3. I => PaidForDelivered
    BY PaidIsDelivered DEF CarefulInv
  <1> QED  BY <1>1, <1>2, <1>3, PTL DEF Spec
=============================================================================
