----------------------------- MODULE Broadcast ------------------------------
(***************************************************************************)
(* One broadcast: its lifecycle, the workers that carry it out and the     *)
(* jobs it becomes.                                                        *)
(*                                                                         *)
(* Everything runs in transactions of READ COMMITTED, and what one of them *)
(* writes is decided from what its earlier statements read: the snapshot   *)
(* of the audience, the expansion of recipients into jobs, the stamping    *)
(* after a cancel and the recount of the funnel are therefore each a step  *)
(* that reads and a step that commits.  The conditional UPDATEs of the     *)
(* status are the only guard between them and the people who start, pause, *)
(* resume and cancel.                                                      *)
(***************************************************************************)
EXTENDS Integers, FiniteSets

CONSTANTS
    Recipients,       \* by their ids: a snapshot numbers them as it reads them
    SnapshotBatch, ExpandBatch, StampBatch,   \* sizes of the batches
    HoldDepth,        \* holdQueueDepth
    Keepers,          \* passes of the bookkeeping that may overlap
    MaxEpoch          \* the bound of the relinks

ASSUME BroadcastAssumption ==
    /\ Recipients \subseteq Nat \ {0} /\ IsFiniteSet(Recipients)
    /\ {SnapshotBatch, ExpandBatch, StampBatch, HoldDepth} \subseteq Nat \ {0}
    /\ MaxEpoch \in Nat

VARIABLES
    campaign,  \* the row of campaigns
    rec,       \* campaign_recipients.status
    job,       \* message_jobs
    epoch,     \* whatsapp_instances.session_epoch
    counters,  \* campaign_counters
    snap, expander, keeper, funnel, restamp    \* what each has read

vars == <<campaign, rec, job, epoch, counters, snap, expander, keeper, funnel,
          restamp>>
rows == <<campaign, rec, job, counters>>

\* "sent" stands for sent, delivered and read.
Counted == {"pending", "skipped", "queued", "sent", "failed", "cancelled"}
Ended == {"completed", "cancelled", "failed"}
Campaigns ==
    [status : {"draft", "snapshotting", "expanding", "running", "paused"} \cup Ended,
     expandDone : BOOLEAN, snapCursor : Nat, cursor : Nat]
Jobs == [status : {"none", "queued", "processing", "sent", "ended", "held"},
         epoch : 0 .. MaxEpoch]
Counts == [Counted -> Int]
Snaps == [at : {"idle", "rows", "failed"}, rows : SUBSET Recipients]
Expanders == [at : {"idle", "rows"}, rows : SUBSET Recipients, epoch : 0 .. MaxEpoch]
Passes == [at : {"idle", "recipients", "stamp", "jobs", "stampJobs"},
           rows : SUBSET Recipients, queued : SUBSET Recipients]
Funnels == [at : {"idle", "counted", "locked"}, truth : Counts, drained : BOOLEAN]

Nothing == [c \in Counted |-> 0]
NoSnap == [at |-> "idle", rows |-> {}]
NoExpander == [at |-> "idle", rows |-> {}, epoch |-> 0]
NoPass == [at |-> "idle", rows |-> {}, queued |-> {}]
NoFunnel == [at |-> "idle", truth |-> Nothing, drained |-> FALSE]

Init ==
    /\ campaign = [status |-> "draft", expandDone |-> FALSE, snapCursor |-> 0, cursor |-> 0]
    /\ rec = [r \in Recipients |-> "none"]
    /\ job = [r \in Recipients |-> [status |-> "none", epoch |-> 0]]
    /\ epoch = 0
    /\ counters = Nothing
    /\ snap = NoSnap /\ expander = NoExpander /\ funnel = NoFunnel
    /\ keeper = [k \in Keepers |-> NoPass]
    /\ restamp = <<>>

Recs(states) == {r \in Recipients : rec[r] \in states}
JobsIn(states) == {r \in Recipients : job[r].status \in states}

\* ORDER BY id LIMIT n: B is the first n members of S.
IsBatch(B, S, n) ==
    /\ B \subseteq S /\ Cardinality(B) <= n
    /\ \A b \in B, s \in S \ B : b < s
    /\ Cardinality(B) < n => B = S

\* The UPDATE of a cursor to the last id of a batch, never backwards.
Advances(cursor, B, to) ==
    \A c \in {cursor} \cup B : c <= to

\* reconcileCounters holds the row of the counters until its transaction ends.
CountersFree == funnel.at # "locked"

-----------------------------------------------------------------------------
(* The lifecycle: transition's conditional UPDATEs. *)

Moves(from, to) ==
    /\ campaign.status \in from
    /\ campaign' = [campaign EXCEPT !.status = to]

Start ==
    /\ Moves({"draft"}, "snapshotting")
    /\ UNCHANGED <<rec, job, epoch, counters, snap, expander, keeper, funnel, restamp>>

Pause ==
    /\ Moves({"running", "expanding"}, "paused")
    /\ UNCHANGED <<rec, job, epoch, counters, snap, expander, keeper, funnel, restamp>>

Cancel ==
    /\ Moves({"draft", "snapshotting", "expanding", "running", "paused"}, "cancelled")
    /\ UNCHANGED <<rec, job, epoch, counters, snap, expander, keeper, funnel, restamp>>

\* resumeBroadcast derives its target from an earlier read of expand_done_at: it was
\* set by then as it is now, or not yet.
Resumed(done) == IF done THEN "running" ELSE "expanding"

Resume ==
    /\ \E done \in {FALSE, campaign.expandDone} : Moves({"paused"}, Resumed(done))
    /\ UNCHANGED <<rec, job, epoch, counters, snap, expander, keeper, funnel, restamp>>

-----------------------------------------------------------------------------
(* Phase A: the snapshot of the audience. *)

SnapshotReads ==
    /\ campaign.status = "snapshotting"
    /\ \E B \in SUBSET Recipients :
         /\ IsBatch(B, {r \in Recipients : r > campaign.snapCursor}, SnapshotBatch)
         /\ snap' = [at |-> "rows", rows |-> B]
    /\ UNCHANGED <<rows, epoch, expander, keeper, funnel, restamp>>

\* Before the first batch only: the audience exceeds the plan.
SnapshotExceeds ==
    /\ campaign.status = "snapshotting" /\ campaign.snapCursor = 0
    /\ snap' = [at |-> "failed", rows |-> {}]
    /\ UNCHANGED <<rows, epoch, expander, keeper, funnel, restamp>>

\* Mutant of LastBatch: a full batch is the last one.
LastWhenFull(B) == Cardinality(B) <= SnapshotBatch

LastBatch(B) == Cardinality(B) < SnapshotBatch

\* The recipients of the batch that are new, some of them skipped: opted out,
\* or without a value for a variable of the message.
SnapshotCommits ==
    /\ snap.at = "rows" /\ CountersFree
    /\ \E skipped \in SUBSET {r \in snap.rows : rec[r] = "none"} :
         LET new == {r \in snap.rows : rec[r] = "none"} IN
         /\ rec' = [r \in Recipients |->
                      IF r \in skipped THEN "skipped"
                      ELSE IF r \in new THEN "pending" ELSE rec[r]]
         /\ counters' = [counters EXCEPT !["pending"] = @ + Cardinality(new \ skipped),
                                         !["skipped"] = @ + Cardinality(skipped)]
    /\ \E to \in {campaign.snapCursor} \cup snap.rows :
         /\ Advances(campaign.snapCursor, snap.rows, to)
         /\ campaign' = [campaign EXCEPT
              !.snapCursor = to,
              !.status = IF LastBatch(snap.rows) /\ @ = "snapshotting" THEN "expanding" ELSE @]
    /\ snap' = NoSnap
    /\ UNCHANGED <<job, epoch, expander, keeper, funnel, restamp>>

SnapshotFails ==
    /\ snap.at = "failed"
    /\ campaign' = IF campaign.status = "snapshotting"
                   THEN [campaign EXCEPT !.status = "failed"] ELSE campaign
    /\ snap' = NoSnap
    /\ UNCHANGED <<rec, job, epoch, counters, expander, keeper, funnel, restamp>>

-----------------------------------------------------------------------------
(* Phase B: the expansion into jobs, one transaction of a client at a time. *)

Unexpanded == {r \in Recs({"pending"}) : r > campaign.cursor}

ExpandReads ==
    /\ campaign.status = "expanding"
    /\ Cardinality(JobsIn({"queued"})) < HoldDepth
    /\ \E B \in SUBSET Recipients :
         /\ IsBatch(B, Unexpanded, ExpandBatch)
         /\ expander' = [at |-> "rows", rows |-> B, epoch |-> epoch]
    /\ UNCHANGED <<rows, epoch, snap, keeper, funnel, restamp>>

\* No row asks again what has become of the campaign or of the recipients; the
\* reference of a job that exists keeps it from being written twice.
ExpandCommits ==
    /\ expander.at = "rows" /\ expander.rows # {} /\ CountersFree
    /\ \E unrendered \in SUBSET expander.rows :
         LET stamped == expander.rows \ unrendered IN
         /\ rec' = [r \in Recipients |->
                      IF r \in unrendered THEN "failed"
                      ELSE IF r \in stamped THEN "queued" ELSE rec[r]]
         /\ job' = [r \in Recipients |->
                      IF r \in stamped /\ job[r].status = "none"
                      THEN [status |-> "queued", epoch |-> expander.epoch] ELSE job[r]]
         /\ counters' = [counters EXCEPT !["pending"] = @ - Cardinality(expander.rows),
                                         !["queued"] = @ + Cardinality(stamped),
                                         !["failed"] = @ + Cardinality(unrendered)]
    /\ \E to \in {campaign.cursor} \cup expander.rows :
         /\ Advances(campaign.cursor, expander.rows, to)
         /\ campaign' = [campaign EXCEPT !.cursor = to]
    /\ expander' = NoExpander
    /\ UNCHANGED <<epoch, snap, keeper, funnel, restamp>>

ExpandCompletes ==
    /\ expander.at = "rows" /\ expander.rows = {}
    /\ campaign' = IF campaign.status = "expanding"
                   THEN [campaign EXCEPT !.status = "running", !.expandDone = TRUE]
                   ELSE campaign
    /\ expander' = NoExpander
    /\ UNCHANGED <<rec, job, epoch, counters, snap, keeper, funnel, restamp>>

-----------------------------------------------------------------------------
(* The bookkeeping after a cancel: the pass that follows the cancel itself, and
   the sweep that finds a cancelled campaign with work left. *)

\* Mutant of Cancellable: a queued recipient is left to its job.
CancellablePending == Recs({"pending"})

Cancellable == Recs({"pending", "queued"})

\* A pass that died is replaced by a new one.  It dies with a batch in its hands: to
\* die before a read, or while it waits for the row of the counters, is no different.
PassStarts(k) ==
    /\ campaign.status = "cancelled"
    /\ keeper[k].at \in {"idle", "stamp", "stampJobs"}
    /\ keeper[k].at = "stamp" => CountersFree
    /\ Cancellable # {} \/ JobsIn({"queued"}) # {}
    /\ keeper' = [keeper EXCEPT ![k] = [NoPass EXCEPT !.at = "recipients"]]
    /\ UNCHANGED <<rows, epoch, snap, expander, funnel, restamp>>

\* The rows of a batch are chosen and its prior statuses read ...
PassReads(k) ==
    /\ keeper[k].at = "recipients"
    /\ \E B \in SUBSET Recipients :
         /\ IsBatch(B, Cancellable, StampBatch)
         /\ keeper' = [keeper EXCEPT ![k] =
              IF B = {} THEN [NoPass EXCEPT !.at = "jobs"]
              ELSE [at |-> "stamp", rows |-> B, queued |-> B \cap Recs({"queued"})]]
    /\ UNCHANGED <<rows, epoch, snap, expander, funnel, restamp>>

Floored(n) == IF n < 0 THEN 0 ELSE n
Overwritten(B) == B

\* ... and the UPDATE joins them by id alone.
PassStamps(k) ==
    /\ keeper[k].at = "stamp" /\ CountersFree
    /\ LET B == keeper[k].rows
           queued == keeper[k].queued IN
       /\ rec' = [r \in Recipients |-> IF r \in Overwritten(B) THEN "cancelled" ELSE rec[r]]
       /\ counters' = [counters EXCEPT !["pending"] = Floored(@ - Cardinality(B \ queued)),
                                       !["queued"] = Floored(@ - Cardinality(queued)),
                                       !["cancelled"] = @ + Cardinality(B)]
       /\ keeper' = [keeper EXCEPT ![k] =
            [NoPass EXCEPT !.at = IF Cardinality(B) < StampBatch THEN "jobs" ELSE "recipients"]]
    /\ UNCHANGED <<campaign, job, epoch, snap, expander, funnel, restamp>>

PassReadsJobs(k) ==
    /\ keeper[k].at = "jobs"
    /\ \E B \in SUBSET Recipients :
         /\ IsBatch(B, JobsIn({"queued"}), StampBatch)
         /\ keeper' = [keeper EXCEPT ![k] =
              IF B = {} THEN NoPass ELSE [at |-> "stampJobs", rows |-> B, queued |-> {}]]
    /\ UNCHANGED <<rows, epoch, snap, expander, funnel, restamp>>

PassStampsJobs(k) ==
    /\ keeper[k].at = "stampJobs"
    /\ job' = [r \in Recipients |->
                 IF r \in Overwritten(keeper[k].rows)
                 THEN [job[r] EXCEPT !.status = "ended"] ELSE job[r]]
    /\ keeper' = [keeper EXCEPT ![k] =
         IF Cardinality(keeper[k].rows) < StampBatch THEN NoPass
         ELSE [NoPass EXCEPT !.at = "jobs"]]
    /\ UNCHANGED <<campaign, rec, epoch, counters, snap, expander, funnel, restamp>>

Pass(k) == PassStarts(k) \/ PassReads(k) \/ PassStamps(k) \/ PassReadsJobs(k) \/ PassStampsJobs(k)

-----------------------------------------------------------------------------
(* The funnel: a recount, and the only writer of completed. *)

Recount == [c \in Counted |-> Cardinality(Recs({c}))]

\* Mutant of Recounted: a campaign that has ended is left alone.
RecountedWhileOpen == campaign.status \notin Ended \cup {"draft"}

\* Also after the campaign has ended: for 25 hours, taken here to be long enough.
Recounted == campaign.status # "draft"

FunnelReads ==
    /\ funnel = NoFunnel /\ Recounted
    /\ funnel' = [at |-> "counted", truth |-> Recount, drained |-> FALSE]
    /\ UNCHANGED <<rows, epoch, snap, expander, keeper, restamp>>

Unfinished == {"pending", "queued"}
Drained == campaign.status = "running" /\ campaign.expandDone /\ Recs(Unfinished) = {}

FunnelReconciles ==
    /\ funnel.at = "counted"
    /\ counters' = funnel.truth
    /\ funnel' = [at |-> "locked", truth |-> Nothing, drained |-> Drained]
    /\ UNCHANGED <<campaign, rec, job, epoch, snap, expander, keeper, restamp>>

FunnelCommits ==
    /\ funnel.at = "locked"
    /\ campaign' = IF funnel.drained /\ campaign.status = "running"
                   THEN [campaign EXCEPT !.status = "completed"] ELSE campaign
    /\ funnel' = NoFunnel
    /\ UNCHANGED <<rec, job, epoch, counters, snap, expander, keeper, restamp>>

-----------------------------------------------------------------------------
(* The jobs in the send queue, as far as a broadcast sees them. *)

JobMoves(r, from, to) ==
    /\ job[r].status = from
    /\ job' = [job EXCEPT ![r].status = to]
    /\ UNCHANGED <<campaign, epoch, counters, snap, expander, keeper, funnel, restamp>>

Claim(r) ==
    /\ campaign.status \in {"running", "expanding"} /\ job[r].epoch = epoch
    /\ JobMoves(r, "queued", "processing") /\ UNCHANGED rec

StampedSent == {"queued", "cancelled"}

\* resolveAck and its stampCampaignRecipientSent.
Ack(r) ==
    /\ JobMoves(r, "processing", "sent")
    /\ rec' = IF rec[r] \in StampedSent THEN [rec EXCEPT ![r] = "sent"] ELSE rec

\* A send that the reconciler finds to be sent, fails for good or is refused by the
\* opt-out gate: none of them stamps the recipient.
JobEnds(r) == \E s \in {"sent", "ended"} : JobMoves(r, "processing", s) /\ UNCHANGED rec

\* A retry, or the reaper.
Requeue(r) == JobMoves(r, "processing", "queued") /\ UNCHANGED rec

\* A read receipt finds the recipient by its job, whatever has become of it since.
ReadReceipt(r) ==
    /\ job[r].status = "sent" /\ rec[r] # "sent"
    /\ rec' = [rec EXCEPT ![r] = "sent"]
    /\ UNCHANGED <<campaign, job, epoch, counters, snap, expander, keeper, funnel, restamp>>

-----------------------------------------------------------------------------
(* A relink strands the jobs of the old epoch; a person brings them back. *)

Relink ==
    /\ epoch < MaxEpoch
    /\ epoch' = epoch + 1
    /\ UNCHANGED <<rows, snap, expander, keeper, funnel, restamp>>

Stranded(r) == job[r].epoch < epoch

\* Mutant of Swept: jobs of a broadcast that nobody sends are left where they are.
SweptOfRunning ==
    {r \in JobsIn({"queued"}) : Stranded(r) /\ campaign.status \in {"running", "expanding"}}

\* What one UPDATE of runEpochStrandingSweep looks for.
Swept == {r \in JobsIn({"queued"}) : Stranded(r)}

\* After the purge, and every five minutes: a batch of those that are not locked.
SweepEpoch ==
    /\ \E B \in SUBSET Swept :
         /\ B # {}
         /\ job' = [r \in Recipients |->
                      IF r \in B THEN [job[r] EXCEPT !.status = "held"] ELSE job[r]]
    /\ UNCHANGED <<campaign, rec, epoch, counters, snap, expander, keeper, funnel, restamp>>

\* restampBroadcast counts the jobs and reads the epoch in one transaction, and
\* writes in others.
RestampReads ==
    /\ restamp = <<>> /\ JobsIn({"held"}) # {}
    /\ restamp' = <<epoch>>
    /\ UNCHANGED <<rows, epoch, snap, expander, keeper, funnel>>

RestampWrites ==
    /\ restamp # <<>>
    /\ job' = [r \in Recipients |->
                 IF job[r].status = "held" THEN [status |-> "queued", epoch |-> restamp[1]]
                 ELSE job[r]]
    /\ restamp' = <<>>
    /\ UNCHANGED <<campaign, rec, epoch, counters, snap, expander, keeper, funnel>>

-----------------------------------------------------------------------------
Lifecycle == Start \/ Pause \/ Cancel \/ Resume
Snapshot == SnapshotReads \/ SnapshotExceeds \/ SnapshotCommits \/ SnapshotFails
Expand == ExpandReads \/ ExpandCommits \/ ExpandCompletes
Funnel == FunnelReads \/ FunnelReconciles \/ FunnelCommits
Send(r) == Claim(r) \/ Ack(r) \/ JobEnds(r) \/ Requeue(r) \/ ReadReceipt(r)
Relinks == Relink \/ SweepEpoch \/ RestampReads \/ RestampWrites

Next ==
    \/ Lifecycle \/ Snapshot \/ Expand \/ Funnel \/ Relinks
    \/ \E k \in Keepers : Pass(k)
    \/ \E r \in Recipients : Send(r)

Spec == Init /\ [][Next]_vars

\* The crons of the bookkeeping, of the funnel and of the epochs run on.  A pass may
\* die anywhere and wait for the row of the counters, but not each time; nothing is
\* asked of the people and of the workers of the phases A and B, which may be dead.
Fairness ==
    /\ WF_vars(Funnel) /\ WF_vars(SweepEpoch)
    /\ \A k \in Keepers :
         /\ WF_vars(PassStarts(k)) /\ WF_vars(PassReads(k)) /\ WF_vars(PassReadsJobs(k))
         /\ SF_vars(PassStamps(k)) /\ SF_vars(PassStampsJobs(k))

FairSpec == Spec /\ Fairness

-----------------------------------------------------------------------------
(* Properties. *)

\* Every variable has its type; a batch in the hands of the expander or of a pass
\* is one of recipients that the snapshot has written.
TypeOK ==
    /\ campaign \in Campaigns
    /\ rec \in [Recipients -> Counted \cup {"none"}]
    /\ job \in [Recipients -> Jobs]
    /\ epoch \in 0 .. MaxEpoch
    /\ counters \in Counts
    /\ snap \in Snaps /\ expander \in Expanders /\ funnel \in Funnels
    /\ keeper \in [Keepers -> Passes]
    /\ restamp \in {<<>>} \cup {<<e>> : e \in 0 .. MaxEpoch}
    /\ \A r \in expander.rows : rec[r] # "none"
    /\ \A k \in Keepers : \A r \in keeper[k].rows : rec[r] # "none"

\* A completed broadcast has left nobody out: its whole audience was snapshotted,
\* and nobody waits to be expanded or sent, whatever pauses, stale resumes and
\* dying transactions there were on the way.
CompletedIsDone ==
    campaign.status = "completed" => Recs({"none"} \cup Unfinished) = {}

\* After a cancel the rows come to rest, whatever expansion, requeue or restamp
\* commits late: in the end nobody is pending or queued any more.
Settled == Recs(Unfinished) = {} /\ JobsIn({"queued"}) = {}
CancelSettles == campaign.status = "cancelled" ~> []Settled

\* The counters are those of the rows in the end, whatever they were bumped by on
\* the way.
CountersSettle == <>[](counters = Recount)

\* The queue gets rid of every job that a relink has stranded and that nothing
\* would ever claim: also of one that is expanded or restamped with an epoch read
\* before the relink.
StrandedIsHeld == []<>(\A r \in JobsIn({"queued"}) : ~Stranded(r))

\* Not kept: the bookkeeping "never reverts a 'sent' row back to 'cancelled'"
\* (result-ack-side-effects.ts:81).
SentStays ==
    [][\A r \in Recipients : rec[r] = "sent" => rec'[r] = "sent"]_vars

\* Not kept: no delta drives a counter below zero (cancel-bookkeeping.ts:90).
CountersNotNegative == \A c \in Counted : counters[c] >= 0
=============================================================================
