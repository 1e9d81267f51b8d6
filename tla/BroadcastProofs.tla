-------------------------- MODULE BroadcastProofs --------------------------
(***************************************************************************)
(* Theorems about Broadcast, for any audience, batches, depth of the       *)
(* queue, number of overlapping passes and relinks.                        *)
(***************************************************************************)
EXTENDS Broadcast, FiniteSetTheorems, TLAPS

(* The inductive invariant. *)

Early == campaign.status \in {"draft", "snapshotting"}
Late  == campaign.status \in {"expanding", "running", "paused", "completed"}

\* A job is one of a recipient that the snapshot has written.
JobsKnown == \A r \in Recipients : job[r].status # "none" => rec[r] # "none"

\* The snapshot has no gap: all up to its cursor is written, and the batch it has in
\* its hands is the next.
Snapshotted ==
    /\ \A r \in Recipients : r <= campaign.snapCursor => rec[r] # "none"
    /\ snap.at = "rows" =>
         IsBatch(snap.rows, {r \in Recipients : r > campaign.snapCursor}, SnapshotBatch)

\* Nothing of the later phases before the snapshot has ended.
Unstarted ==
    Early => campaign.cursor = 0 /\ ~campaign.expandDone /\ expander.at = "idle"
               /\ ~funnel.drained

\* Until a cancel no pass touches a row, and who has a job waits no more.
Undisturbed ==
    /\ campaign.status # "cancelled" => \A k \in Keepers : keeper[k].at = "idle"
    /\ Early \/ Late => \A r \in Recipients : job[r].status # "none" => rec[r] # "pending"

\* The expansion has no gap either: who is pending is beyond the cursor, and the batch
\* in its hands comes before all the others.  Once it is done nobody is pending, and
\* once the funnel has seen the end, or said so, nobody is queued.
Expanded ==
    Late =>
      /\ Recs({"none"}) = {}
      /\ \A r \in Recs({"pending"}) : r > campaign.cursor
      /\ expander.at = "rows" =>
           /\ expander.rows \subseteq Recs({"pending"})
           /\ \A b \in expander.rows, r \in Recs({"pending"}) \ expander.rows : b < r
           /\ expander.rows = {} => Recs({"pending"}) = {}
      /\ campaign.expandDone => Recs({"pending"}) = {}
      /\ campaign.status \in {"running", "completed"} => campaign.expandDone
      /\ funnel.drained \/ campaign.status = "completed" =>
            campaign.expandDone /\ Recs({"queued"}) = {}

TypeInv == TypeOK /\ JobsKnown
BroadcastInv == TypeInv /\ Snapshotted /\ Unstarted /\ Undisturbed /\ Expanded
-----------------------------------------------------------------------------
(* Types. *)

LEMMA Counting ==
    \A S \in SUBSET Recipients : IsFiniteSet(S) /\ Cardinality(S) \in Nat
  BY FS_Subset, FS_CardinalityType, BroadcastAssumption

LEMMA RecountType ==
    Recount \in Counts
<1>1. \A c \in Counted : Recs({c}) \in SUBSET Recipients
  BY DEF Recs
<1>2. \A c \in Counted : Cardinality(Recs({c})) \in Int
  BY <1>1, Counting
<1> QED BY <1>2 DEF Recount, Counts

LEMMA CountSet ==
    ASSUME NEW cs \in Counts, NEW c \in Counted, NEW n \in Int
    PROVE  [cs EXCEPT ![c] = n] \in Counts
  BY DEF Counts

LEMMA LifecycleType ==
    ASSUME TypeInv, Lifecycle
    PROVE  TypeInv'
<1> USE DEF TypeInv, TypeOK
<1>1. UNCHANGED <<rec, job, epoch, counters, snap, expander, keeper, funnel, restamp>>
  BY DEF Lifecycle, Start, Pause, Cancel, Resume
<1>2. campaign' \in Campaigns
  <2>1. PICK to \in {"snapshotting", "paused", "cancelled", "running", "expanding"} :
          campaign' = [campaign EXCEPT !.status = to]
    BY DEF Lifecycle, Start, Pause, Cancel, Resume, Moves, Resumed
  <2> QED BY <2>1 DEF Campaigns, Ended
<1> QED BY <1>1, <1>2 DEF JobsKnown

LEMMA SnapshotCommitsType ==
    ASSUME TypeInv, SnapshotCommits
    PROVE  TypeInv'
<1> USE DEF TypeInv, TypeOK
<1>1. UNCHANGED <<job, epoch, expander, keeper, funnel, restamp>> /\ snap' \in Snaps
  BY DEF SnapshotCommits, NoSnap, Snaps
<1>2. campaign' \in Campaigns
  <2>1. PICK to \in {campaign.snapCursor} \cup snap.rows,
             st \in {campaign.status, "expanding"} :
          campaign' = [campaign EXCEPT !.snapCursor = to, !.status = st]
    BY DEF SnapshotCommits, Campaigns
  <2>2. to \in Nat
    BY <2>1, BroadcastAssumption DEF Campaigns, Snaps
  <2> QED BY <2>1, <2>2 DEF Campaigns
<1>3. PICK skipped \in SUBSET {r \in snap.rows : rec[r] = "none"} :
        LET new == {r \in snap.rows : rec[r] = "none"} IN
        /\ rec' = [r \in Recipients |->
                     IF r \in skipped THEN "skipped"
                     ELSE IF r \in new THEN "pending" ELSE rec[r]]
        /\ counters' = [counters EXCEPT !["pending"] = @ + Cardinality(new \ skipped),
                                        !["skipped"] = @ + Cardinality(skipped)]
  BY DEF SnapshotCommits
<1>4. rec' \in [Recipients -> Counted \cup {"none"}]
      /\ \A r \in Recipients : rec[r] # "none" => rec'[r] # "none"
  BY <1>3 DEF Counted
<1>5. counters' \in Counts
  <2> DEFINE new == {r \in snap.rows : rec[r] = "none"}
             n == Cardinality(new \ skipped)
             m == Cardinality(skipped)
  <2>1. n \in Int /\ m \in Int
    <3>1. new \ skipped \in SUBSET Recipients /\ skipped \in SUBSET Recipients
      BY DEF Snaps
    <3> QED BY <3>1, Counting
  <2>2. counters' = [counters EXCEPT !["pending"] = @ + n, !["skipped"] = @ + m]
    BY <1>3
  <2> HIDE DEF n, m
  <2>3. counters["pending"] + n \in Int /\ counters["skipped"] + m \in Int
    BY <2>1 DEF Counts, Counted
  <2>4. counters' = [[counters EXCEPT !["pending"] = counters["pending"] + n]
                       EXCEPT !["skipped"] = counters["skipped"] + m]
    BY <2>2 DEF Counts, Counted
  <2>5. "pending" \in Counted /\ "skipped" \in Counted
    BY DEF Counted
  <2> QED BY <2>3, <2>4, <2>5, CountSet
<1>6. /\ \A r \in expander.rows : rec'[r] # "none"
      /\ \A k \in Keepers : \A r \in keeper[k].rows : rec'[r] # "none"
      /\ JobsKnown'
  BY <1>1, <1>4 DEF JobsKnown, Expanders, Passes
<1> QED BY <1>1, <1>2, <1>4, <1>5, <1>6

LEMMA SnapshotType ==
    ASSUME TypeInv, Snapshot
    PROVE  TypeInv'
<1> USE DEF TypeInv, TypeOK
<1>1. CASE SnapshotReads
  <2>1. snap' \in Snaps
    BY <1>1 DEF SnapshotReads, Snaps
  <2> QED BY <1>1, <2>1 DEF SnapshotReads, rows, JobsKnown
<1>2. CASE SnapshotExceeds
  <2>1. snap' \in Snaps
    BY <1>2 DEF SnapshotExceeds, Snaps
  <2> QED BY <1>2, <2>1 DEF SnapshotExceeds, rows, JobsKnown
<1>3. CASE SnapshotFails
  <2>1. snap' \in Snaps /\ campaign' \in Campaigns
    BY <1>3 DEF SnapshotFails, NoSnap, Snaps, Campaigns, Ended
  <2> QED BY <1>3, <2>1 DEF SnapshotFails, JobsKnown
<1> QED BY <1>1, <1>2, <1>3, SnapshotCommitsType DEF Snapshot

LEMMA ExpandCommitsType ==
    ASSUME TypeInv, ExpandCommits
    PROVE  TypeInv'
<1> USE DEF TypeInv, TypeOK
<1>1. UNCHANGED <<epoch, snap, keeper, funnel, restamp>>
      /\ expander' \in Expanders /\ expander'.rows = {}
  <2>1. 0 \in 0 .. MaxEpoch
    BY BroadcastAssumption
  <2> QED BY <2>1 DEF ExpandCommits, NoExpander, Expanders
<1>2. campaign' \in Campaigns
  <2>1. PICK to \in {campaign.cursor} \cup expander.rows :
          campaign' = [campaign EXCEPT !.cursor = to]
    BY DEF ExpandCommits
  <2>2. to \in Nat
    BY <2>1, BroadcastAssumption DEF Campaigns, Expanders
  <2> QED BY <2>1, <2>2 DEF Campaigns
<1>3. PICK unrendered \in SUBSET expander.rows :
        LET stamped == expander.rows \ unrendered IN
        /\ rec' = [r \in Recipients |->
                     IF r \in unrendered THEN "failed"
                     ELSE IF r \in stamped THEN "queued" ELSE rec[r]]
        /\ job' = [r \in Recipients |->
                     IF r \in stamped /\ job[r].status = "none"
                     THEN [status |-> "queued", epoch |-> expander.epoch] ELSE job[r]]
        /\ counters' = [counters EXCEPT !["pending"] = @ - Cardinality(expander.rows),
                                        !["queued"] = @ + Cardinality(stamped),
                                        !["failed"] = @ + Cardinality(unrendered)]
  BY DEF ExpandCommits
<1>4. /\ rec' \in [Recipients -> Counted \cup {"none"}]
      /\ \A r \in Recipients : rec[r] # "none" => rec'[r] # "none"
      /\ \A r \in expander.rows : rec'[r] # "none"
  BY <1>3 DEF Counted, Expanders
<1>5. counters' \in Counts
  <2> DEFINE l == Cardinality(expander.rows)
             n == Cardinality(expander.rows \ unrendered)
             m == Cardinality(unrendered)
  <2>1. l \in Int /\ n \in Int /\ m \in Int
    <3>1. expander.rows \in SUBSET Recipients /\ unrendered \in SUBSET Recipients
          /\ expander.rows \ unrendered \in SUBSET Recipients
      BY DEF Expanders
    <3> QED BY <3>1, Counting
  <2>2. counters' = [counters EXCEPT !["pending"] = @ - l, !["queued"] = @ + n,
                                     !["failed"] = @ + m]
    BY <1>3
  <2> HIDE DEF l, n, m
  <2>3. /\ counters["pending"] - l \in Int /\ counters["queued"] + n \in Int
        /\ counters["failed"] + m \in Int
    BY <2>1 DEF Counts, Counted
  <2>4. counters' = [[[counters EXCEPT !["pending"] = counters["pending"] - l]
                       EXCEPT !["queued"] = counters["queued"] + n]
                       EXCEPT !["failed"] = counters["failed"] + m]
    BY <2>2 DEF Counts, Counted
  <2>5. "pending" \in Counted /\ "queued" \in Counted /\ "failed" \in Counted
    BY DEF Counted
  <2> QED BY <2>3, <2>4, <2>5, CountSet
<1>6. /\ job' \in [Recipients -> Jobs]
      /\ \A r \in Recipients : job'[r].status # "none" =>
            job[r].status # "none" \/ r \in expander.rows
  BY <1>3 DEF Jobs, Expanders
<1>7. /\ \A k \in Keepers : \A r \in keeper[k].rows : rec'[r] # "none"
      /\ JobsKnown'
  BY <1>1, <1>4, <1>6 DEF JobsKnown, Passes
<1> QED BY <1>1, <1>2, <1>4, <1>5, <1>6, <1>7

LEMMA ExpandType ==
    ASSUME TypeInv, Expand
    PROVE  TypeInv'
<1> USE DEF TypeInv, TypeOK
<1>1. CASE ExpandReads
  <2>1. expander' \in Expanders
    BY <1>1 DEF ExpandReads, Expanders
  <2>2. \A r \in expander'.rows : rec[r] # "none"
    BY <1>1 DEF ExpandReads, IsBatch, Unexpanded, Recs
  <2> QED BY <1>1, <2>1, <2>2 DEF ExpandReads, rows, JobsKnown
<1>2. CASE ExpandCompletes
  <2>1. campaign' \in Campaigns
    BY <1>2 DEF ExpandCompletes, Campaigns
  <2>2. expander' \in Expanders /\ expander'.rows = {}
    BY <1>2, BroadcastAssumption DEF ExpandCompletes, NoExpander, Expanders
  <2> QED BY <1>2, <2>1, <2>2 DEF ExpandCompletes, JobsKnown
<1> QED BY <1>1, <1>2, ExpandCommitsType DEF Expand

\* A pass changes recipients and jobs of its batch and its own row of the keepers.
LEMMA PassType ==
    ASSUME TypeInv, NEW k \in Keepers, Pass(k)
    PROVE  TypeInv'
<1> USE DEF TypeInv, TypeOK
<1>1. ASSUME NEW p \in Passes, keeper' = [keeper EXCEPT ![k] = p],
             \A r \in p.rows : rec[r] # "none", UNCHANGED <<rec, job>>,
             UNCHANGED <<campaign, epoch, counters, snap, expander, funnel, restamp>>
      PROVE  TypeInv'
  BY <1>1 DEF JobsKnown
<1>2. /\ NoPass \in Passes /\ NoPass.rows = {}
      /\ \A at \in {"idle", "recipients", "stamp", "jobs", "stampJobs"} :
           [NoPass EXCEPT !.at = at] \in Passes /\ [NoPass EXCEPT !.at = at].rows = {}
  BY DEF NoPass, Passes
<1>3. CASE PassStarts(k)
  BY <1>1, <1>2, <1>3 DEF PassStarts, rows
<1>4. CASE PassReads(k)
  <2>1. PICK B \in SUBSET Recipients :
          /\ IsBatch(B, Cancellable, StampBatch)
          /\ keeper' = [keeper EXCEPT ![k] =
               IF B = {} THEN [NoPass EXCEPT !.at = "jobs"]
               ELSE [at |-> "stamp", rows |-> B, queued |-> B \cap Recs({"queued"})]]
    BY <1>4 DEF PassReads
  <2>2. \A r \in B : rec[r] # "none"
    BY <2>1 DEF IsBatch, Cancellable, Recs
  <2> DEFINE s == [at |-> "stamp", rows |-> B, queued |-> B \cap Recs({"queued"})]
  <2>3. s \in Passes /\ s.rows = B
    BY DEF Passes
  <2> HIDE DEF s
  <2>4. PICK p \in Passes : keeper' = [keeper EXCEPT ![k] = p] /\ p.rows \subseteq B
    BY <1>2, <2>1, <2>3 DEF s
  <2> QED BY <1>1, <1>4, <2>2, <2>4 DEF PassReads, rows
<1>5. CASE PassReadsJobs(k)
  <2>1. PICK B \in SUBSET Recipients :
          /\ IsBatch(B, JobsIn({"queued"}), StampBatch)
          /\ keeper' = [keeper EXCEPT ![k] =
               IF B = {} THEN NoPass ELSE [at |-> "stampJobs", rows |-> B, queued |-> {}]]
    BY <1>5 DEF PassReadsJobs
  <2>2. \A r \in B : rec[r] # "none"
    BY <2>1 DEF IsBatch, JobsIn, JobsKnown
  <2> DEFINE s == [at |-> "stampJobs", rows |-> B, queued |-> {}]
  <2>3. s \in Passes /\ s.rows = B
    BY DEF Passes
  <2> HIDE DEF s
  <2>4. PICK p \in Passes : keeper' = [keeper EXCEPT ![k] = p] /\ p.rows \subseteq B
    BY <1>2, <2>1, <2>3 DEF s
  <2> QED BY <1>1, <1>5, <2>2, <2>4 DEF PassReadsJobs, rows
<1>6. CASE PassStamps(k)
  <2> DEFINE B == keeper[k].rows
             queued == keeper[k].queued
             m == Cardinality(B \ queued)
             n == Cardinality(queued)
             l == Cardinality(B)
  <2>1. B \in SUBSET Recipients /\ queued \in SUBSET Recipients
        /\ B \ queued \in SUBSET Recipients
    BY DEF Passes
  <2>2. m \in Int /\ n \in Int /\ l \in Int
    BY <2>1, Counting
  <2>3. counters' = [counters EXCEPT !["pending"] = Floored(@ - m), !["queued"] = Floored(@ - n),
                                     !["cancelled"] = @ + l]
    BY <1>6 DEF PassStamps
  <2>4. \E at \in {"recipients", "jobs"} : keeper' = [keeper EXCEPT ![k] = [NoPass EXCEPT !.at = at]]
    BY <1>6 DEF PassStamps
  <2>5. rec' = [r \in Recipients |-> IF r \in B THEN "cancelled" ELSE rec[r]]
    BY <1>6 DEF PassStamps, Overwritten
  <2> HIDE DEF B, queued, m, n, l
  <2>6. /\ counters["pending"] \in Int /\ counters["queued"] \in Int
        /\ counters["cancelled"] \in Int
    BY DEF Counts, Counted
  <2>7. /\ Floored(counters["pending"] - m) \in Int /\ Floored(counters["queued"] - n) \in Int
        /\ counters["cancelled"] + l \in Int
    BY <2>2, <2>6 DEF Floored
  <2>8. counters' = [[[counters EXCEPT !["pending"] = Floored(counters["pending"] - m)]
                       EXCEPT !["queued"] = Floored(counters["queued"] - n)]
                       EXCEPT !["cancelled"] = counters["cancelled"] + l]
    BY <2>3 DEF Counts, Counted
  <2>9. "pending" \in Counted /\ "queued" \in Counted /\ "cancelled" \in Counted
    BY DEF Counted
  <2>10. counters' \in Counts
    BY <2>7, <2>8, <2>9, CountSet
  <2>11. rec' \in [Recipients -> Counted \cup {"none"}]
         /\ \A r \in Recipients : rec[r] # "none" => rec'[r] # "none"
    BY <2>5, <2>9
  <2>12. keeper' \in [Keepers -> Passes]
         /\ \A j \in Keepers : keeper'[j].rows \subseteq keeper[j].rows
    BY <1>2, <2>4
  <2>13. UNCHANGED <<campaign, job, epoch, snap, expander, funnel, restamp>>
    BY <1>6 DEF PassStamps
  <2>14. /\ \A r \in expander.rows : rec'[r] # "none"
         /\ \A j \in Keepers : \A r \in keeper'[j].rows : rec'[r] # "none"
         /\ JobsKnown'
    BY <2>11, <2>12, <2>13 DEF JobsKnown, Expanders, Passes
  <2> QED BY <2>10, <2>11, <2>12, <2>13, <2>14
<1>7. CASE PassStampsJobs(k)
  <2>1. PICK p \in {NoPass, [NoPass EXCEPT !.at = "jobs"]} : keeper' = [keeper EXCEPT ![k] = p]
    BY <1>7 DEF PassStampsJobs
  <2>2. p \in Passes /\ p.rows = {}
    BY <1>2
  <2>3. job' = [r \in Recipients |-> IF r \in keeper[k].rows
                                     THEN [job[r] EXCEPT !.status = "ended"] ELSE job[r]]
    BY <1>7 DEF PassStampsJobs, Overwritten
  <2>4. job' \in [Recipients -> Jobs]
        /\ \A r \in Recipients : job'[r].status # "none" =>
              job[r].status # "none" \/ r \in keeper[k].rows
    BY <2>3 DEF Jobs
  <2>5. UNCHANGED <<campaign, rec, epoch, counters, snap, expander, funnel, restamp>>
    BY <1>7 DEF PassStampsJobs
  <2>6. keeper' \in [Keepers -> Passes]
         /\ \A j \in Keepers : keeper'[j].rows \subseteq keeper[j].rows
    BY <2>1, <2>2
  <2>7. JobsKnown' /\ \A j \in Keepers : \A r \in keeper'[j].rows : rec[r] # "none"
    BY <2>4, <2>5, <2>6 DEF JobsKnown
  <2> QED BY <2>4, <2>5, <2>6, <2>7
<1> QED BY <1>3, <1>4, <1>5, <1>6, <1>7 DEF Pass

LEMMA FunnelType ==
    ASSUME TypeInv, Funnel
    PROVE  TypeInv'
<1> USE DEF TypeInv, TypeOK
<1>1. Nothing \in Counts
  BY DEF Nothing, Counts
<1>2. CASE FunnelReads
  <2>1. funnel' \in Funnels
    BY <1>2, RecountType DEF FunnelReads, Funnels
  <2> QED BY <1>2, <2>1 DEF FunnelReads, rows, JobsKnown
<1>3. CASE FunnelReconciles
  <2>1. counters' \in Counts
    BY <1>3 DEF FunnelReconciles, Funnels
  <2>2. Drained \in BOOLEAN
    BY DEF Drained
  <2>3. funnel' \in Funnels
    BY <1>1, <1>3, <2>2 DEF FunnelReconciles, Funnels
  <2> QED BY <1>3, <2>1, <2>3 DEF FunnelReconciles, JobsKnown
<1>4. CASE FunnelCommits
  <2>1. campaign' \in Campaigns
    BY <1>4 DEF FunnelCommits, Campaigns, Ended
  <2>2. funnel' \in Funnels
    BY <1>1, <1>4 DEF FunnelCommits, NoFunnel, Funnels
  <2> QED BY <1>4, <2>1, <2>2 DEF FunnelCommits, JobsKnown
<1> QED BY <1>2, <1>3, <1>4 DEF Funnel

LEMMA RelinksType ==
    ASSUME TypeInv, Relinks
    PROVE  TypeInv'
<1> USE DEF TypeInv, TypeOK
<1>1. CASE Relink
  BY <1>1, BroadcastAssumption DEF Relink, rows, JobsKnown
<1>2. CASE SweepEpoch
  <2>1. PICK B \in SUBSET Swept :
          job' = [r \in Recipients |->
                    IF r \in B THEN [job[r] EXCEPT !.status = "held"] ELSE job[r]]
    BY <1>2 DEF SweepEpoch
  <2>2. \A r \in B : job[r].status = "queued"
    BY DEF Swept, JobsIn
  <2>3. job' \in [Recipients -> Jobs]
        /\ \A r \in Recipients : job'[r].status # "none" => job[r].status # "none"
    BY <2>1, <2>2 DEF Jobs
  <2> QED BY <1>2, <2>3 DEF SweepEpoch, JobsKnown
<1>3. CASE RestampReads
  BY <1>3 DEF RestampReads, rows, JobsKnown
<1>4. CASE RestampWrites
  <2>1. PICK e \in 0 .. MaxEpoch : restamp = <<e>>
    BY <1>4 DEF RestampWrites
  <2>2. restamp[1] = e
    BY <2>1
  <2>3. job' = [r \in Recipients |->
                 IF job[r].status = "held" THEN [status |-> "queued", epoch |-> e] ELSE job[r]]
    BY <1>4, <2>2 DEF RestampWrites
  <2>4. job' \in [Recipients -> Jobs]
        /\ \A r \in Recipients : job'[r].status # "none" => job[r].status # "none"
    BY <2>3 DEF Jobs
  <2> QED BY <1>4, <2>4 DEF RestampWrites, JobsKnown
<1> QED BY <1>1, <1>2, <1>3, <1>4 DEF Relinks

\* What the queue does to a job: it stays one, and it may stamp its recipient.
LEMMA SendEffect ==
    ASSUME TypeInv, NEW r \in Recipients, Send(r)
    PROVE  /\ UNCHANGED <<campaign, epoch, counters, snap, expander, keeper, funnel, restamp>>
           /\ job[r].status # "none" /\ job' \in [Recipients -> Jobs]
           /\ \A q \in Recipients : job'[q].status # "none" => job[q].status # "none"
           /\ rec' = rec \/ rec' = [rec EXCEPT ![r] = "sent"]
<1> USE DEF TypeInv, TypeOK
<1>1. CASE ReadReceipt(r)
  BY <1>1 DEF ReadReceipt
<1>2. ASSUME NEW from \in {"queued", "processing"}, NEW to \in {"queued", "processing", "sent", "ended"},
             JobMoves(r, from, to)
      PROVE  /\ UNCHANGED <<campaign, epoch, counters, snap, expander, keeper, funnel, restamp>>
             /\ job[r].status # "none" /\ job' \in [Recipients -> Jobs]
             /\ \A q \in Recipients : job'[q].status # "none" => job[q].status # "none"
  BY <1>2 DEF JobMoves, Jobs
<1>3. CASE Claim(r)
  BY <1>2, <1>3 DEF Claim
<1>4. CASE Ack(r)
  BY <1>2, <1>4 DEF Ack
<1>5. CASE JobEnds(r)
  BY <1>2, <1>5 DEF JobEnds
<1>6. CASE Requeue(r)
  BY <1>2, <1>6 DEF Requeue
<1> QED BY <1>1, <1>3, <1>4, <1>5, <1>6 DEF Send

LEMMA SendType ==
    ASSUME TypeInv, NEW r \in Recipients, Send(r)
    PROVE  TypeInv'
<1> USE DEF TypeInv, TypeOK
<1>1. rec' \in [Recipients -> Counted \cup {"none"}]
      /\ \A q \in Recipients : rec[q] # "none" => rec'[q] # "none"
  BY SendEffect DEF Counted
<1>2. /\ \A q \in expander.rows : rec'[q] # "none"
      /\ \A k \in Keepers : \A q \in keeper[k].rows : rec'[q] # "none"
      /\ JobsKnown'
  BY <1>1, SendEffect DEF JobsKnown, Expanders, Passes
<1> QED BY <1>1, <1>2, SendEffect

LEMMA TypesStart ==
    ASSUME Init
    PROVE  TypeInv
<1>1. campaign \in Campaigns /\ rec \in [Recipients -> Counted \cup {"none"}]
      /\ job \in [Recipients -> Jobs] /\ epoch \in 0 .. MaxEpoch
  BY BroadcastAssumption DEF Init, Campaigns, Counted, Jobs
<1>2. counters \in Counts /\ snap \in Snaps /\ funnel \in Funnels
  BY DEF Init, Nothing, Counts, NoSnap, Snaps, NoFunnel, Funnels
<1>3. expander \in Expanders /\ expander.rows = {}
  BY BroadcastAssumption DEF Init, NoExpander, Expanders
<1>4. keeper \in [Keepers -> Passes] /\ \A k \in Keepers : keeper[k].rows = {}
  BY DEF Init, NoPass, Passes
<1>5. restamp \in {<<>>} \cup {<<e>> : e \in 0 .. MaxEpoch} /\ JobsKnown
  BY DEF Init, JobsKnown
<1> QED BY <1>1, <1>2, <1>3, <1>4, <1>5 DEF TypeInv, TypeOK

LEMMA TypesStep ==
    ASSUME TypeInv, [Next]_vars
    PROVE  TypeInv'
<1>1. CASE UNCHANGED vars
  BY <1>1 DEF vars, TypeInv, TypeOK, JobsKnown
<1> QED
  BY <1>1, LifecycleType, SnapshotType, ExpandType, FunnelType, RelinksType, PassType, SendType
     DEF Next
-----------------------------------------------------------------------------
(* What the steps do to the phases. *)

Phases == Snapshotted /\ Unstarted /\ Undisturbed /\ Expanded

LEMMA LifecyclePhases ==
    ASSUME BroadcastInv, Lifecycle
    PROVE  Phases'
<1> USE DEF BroadcastInv, TypeInv, TypeOK, Campaigns, Ended
<1>1. UNCHANGED <<rec, job, snap, expander, keeper, funnel>>
  BY DEF Lifecycle, Start, Pause, Cancel, Resume
<1>2. /\ campaign'.snapCursor = campaign.snapCursor /\ campaign'.cursor = campaign.cursor
      /\ campaign'.expandDone = campaign.expandDone
  BY DEF Lifecycle, Start, Pause, Cancel, Resume, Moves
<1>3. Snapshotted'
  BY <1>1, <1>2 DEF Snapshotted, IsBatch
<1>4. Recs({"none"})' = Recs({"none"}) /\ Recs({"pending"})' = Recs({"pending"})
      /\ Recs({"queued"})' = Recs({"queued"})
  BY <1>1 DEF Recs
<1>5. CASE Start
  <2>1. Early /\ Early' /\ ~Late'
        /\ campaign.status # "cancelled"
    BY <1>5 DEF Start, Moves, Early, Late
  <2> QED BY <1>1, <1>2, <1>3, <2>1 DEF Phases, Unstarted, Undisturbed, Expanded
<1>6. CASE Pause
  <2>1. Late /\ ~Early' /\ Late' /\ campaign'.status = "paused"
        /\ campaign.status \notin {"cancelled", "completed"}
    BY <1>6 DEF Pause, Moves, Early, Late
  <2>2. Unstarted' /\ Undisturbed'
    BY <1>1, <2>1 DEF Unstarted, Undisturbed
  <2>3. Expanded'
    BY <1>1, <1>2, <1>4, <2>1 DEF Expanded
  <2> QED BY <1>3, <2>2, <2>3 DEF Phases
<1>7. CASE Cancel
  <2>1. campaign'.status = "cancelled"
    BY <1>7 DEF Cancel, Moves
  <2> QED BY <1>3, <2>1 DEF Phases, Unstarted, Undisturbed, Expanded, Early, Late
<1>8. CASE Resume
  <2>1. /\ Late /\ ~Early' /\ Late' /\ campaign'.status # "completed"
        /\ campaign.status \notin {"cancelled", "completed"}
        /\ campaign'.status = "running" => campaign.expandDone
    BY <1>8 DEF Resume, Resumed, Moves, Early, Late
  <2>2. Unstarted' /\ Undisturbed'
    BY <1>1, <2>1 DEF Unstarted, Undisturbed
  <2>3. Expanded'
    BY <1>1, <1>2, <1>4, <2>1 DEF Expanded
  <2> QED BY <1>3, <2>2, <2>3 DEF Phases
<1> QED BY <1>5, <1>6, <1>7, <1>8 DEF Lifecycle

\* Up to its new cursor a committed batch leaves no gap, and the last one none at all.
LEMMA SnapshotCommitsPhases ==
    ASSUME BroadcastInv, SnapshotCommits
    PROVE  Phases'
<1> USE DEF BroadcastInv, TypeInv, TypeOK
<1>1. /\ UNCHANGED <<job, expander, keeper, funnel>> /\ snap'.at = "idle"
      /\ snap.at = "rows"
  BY DEF SnapshotCommits, NoSnap
<1>2. PICK skipped \in SUBSET {r \in snap.rows : rec[r] = "none"} :
        rec' = [r \in Recipients |->
                  IF r \in skipped THEN "skipped"
                  ELSE IF r \in {q \in snap.rows : rec[q] = "none"} THEN "pending" ELSE rec[r]]
  BY DEF SnapshotCommits
<1>3. /\ \A r \in Recipients : rec[r] # "none" => rec'[r] = rec[r]
      /\ \A r \in snap.rows : rec'[r] # "none"
      /\ \A r \in Recipients \ snap.rows : rec'[r] = rec[r]
  BY <1>2 DEF Snaps
<1>4. PICK to \in {campaign.snapCursor} \cup snap.rows :
        /\ Advances(campaign.snapCursor, snap.rows, to)
        /\ campaign' = [campaign EXCEPT
             !.snapCursor = to,
             !.status = IF LastBatch(snap.rows) /\ @ = "snapshotting" THEN "expanding" ELSE @]
  BY DEF SnapshotCommits
<1>5. /\ campaign'.snapCursor = to /\ campaign'.cursor = campaign.cursor
      /\ campaign'.expandDone = campaign.expandDone
      /\ campaign'.status = IF LastBatch(snap.rows) /\ campaign.status = "snapshotting"
                            THEN "expanding" ELSE campaign.status
  BY <1>4 DEF Campaigns
<1>6. IsBatch(snap.rows, {r \in Recipients : r > campaign.snapCursor}, SnapshotBatch)
  BY <1>1 DEF Snapshotted
<1>7. Snapshotted'
  <2>1. SUFFICES ASSUME NEW r \in Recipients, r <= to, rec'[r] = "none"
                 PROVE  FALSE
    BY <1>1, <1>5 DEF Snapshotted
  <2>2. r \notin snap.rows /\ rec[r] = "none"
    BY <1>3, <2>1
  <2>3. r \in Nat /\ campaign.snapCursor \in Nat
    BY BroadcastAssumption DEF Campaigns
  <2>4. ~ (r <= campaign.snapCursor)
    BY <2>2 DEF Snapshotted
  <2>5. r > campaign.snapCursor
    BY <2>3, <2>4
  <2>6. to \in snap.rows /\ to \in Nat
    BY <2>1, <2>3, <2>4, BroadcastAssumption DEF Snaps
  <2>7. to < r
    BY <1>6, <2>2, <2>5, <2>6 DEF IsBatch
  <2> QED BY <2>1, <2>3, <2>6, <2>7
<1>8. Undisturbed'
  <2>1. \A r \in Recipients : job[r].status # "none" => rec[r] # "none" /\ rec'[r] = rec[r]
    BY <1>3 DEF JobsKnown
  <2>2. (Early \/ Late)' => Early \/ Late
    BY <1>5 DEF Early, Late
  <2>3. campaign'.status # "cancelled" => campaign.status # "cancelled"
    BY <1>5
  <2> QED BY <1>1, <2>1, <2>2, <2>3 DEF Undisturbed
<1>9. Unstarted'
  <2>1. Early' => Early
    BY <1>5 DEF Early
  <2> QED BY <1>1, <1>5, <2>1 DEF Unstarted
<1>10. Expanded'
  <2>1. CASE Late
    <3>1. \A r \in Recipients : rec[r] # "none"
      BY <2>1 DEF Expanded, Recs
    <3>2. Recs({"none"})' = Recs({"none"}) /\ Recs({"pending"})' = Recs({"pending"})
          /\ Recs({"queued"})' = Recs({"queued"})
      BY <1>3, <3>1 DEF Recs
    <3>3. campaign'.status = campaign.status
      BY <1>5, <2>1 DEF Late
    <3> QED BY <1>1, <1>5, <2>1, <3>2, <3>3 DEF Expanded, Late
  <2>2. CASE ~Late /\ Late'
    <3>1. LastBatch(snap.rows) /\ campaign.status = "snapshotting" /\ campaign'.status = "expanding"
      BY <1>5, <2>2 DEF Late
    <3>2. snap.rows = {r \in Recipients : r > campaign.snapCursor}
      BY <1>6, <3>1 DEF IsBatch, LastBatch
    <3>3. \A r \in Recipients : rec'[r] # "none"
      <4> TAKE r \in Recipients
      <4>1. CASE r > campaign.snapCursor
        BY <1>3, <3>2, <4>1
      <4>2. CASE r <= campaign.snapCursor
        BY <1>3, <4>2 DEF Snapshotted
      <4> QED BY <4>1, <4>2, BroadcastAssumption DEF Campaigns
    <3>4. /\ campaign'.cursor = 0 /\ ~campaign'.expandDone /\ expander'.at = "idle"
          /\ ~funnel'.drained
      BY <1>1, <1>5, <3>1 DEF Unstarted, Early
    <3>5. \A r \in Recipients : r > 0
      BY BroadcastAssumption
    <3>6. Recs({"none"})' = {} /\ \A r \in Recs({"pending"})' : r > 0
      BY <3>3, <3>5 DEF Recs
    <3> QED BY <3>1, <3>4, <3>6 DEF Expanded
  <2> QED BY <2>1, <2>2 DEF Expanded
<1> QED BY <1>7, <1>8, <1>9, <1>10 DEF Phases

LEMMA SnapshotPhases ==
    ASSUME BroadcastInv, Snapshot
    PROVE  Phases'
<1> USE DEF BroadcastInv
<1>1. CASE SnapshotReads
  <2>1. UNCHANGED <<campaign, rec, job, expander, keeper, funnel>>
    BY <1>1 DEF SnapshotReads, rows
  <2>2. IsBatch(snap'.rows, {r \in Recipients : r > campaign.snapCursor}, SnapshotBatch)
    BY <1>1 DEF SnapshotReads
  <2>3. Snapshotted'
    BY <2>1, <2>2 DEF Snapshotted, IsBatch
  <2> QED BY <2>1, <2>3 DEF Phases, Unstarted, Undisturbed, Expanded, Early, Late, Recs
<1>2. CASE SnapshotExceeds
  <2>1. UNCHANGED <<campaign, rec, job, expander, keeper, funnel>> /\ snap'.at = "failed"
    BY <1>2 DEF SnapshotExceeds, rows
  <2> QED BY <2>1 DEF Phases, Snapshotted, Unstarted, Undisturbed, Expanded, Early, Late, Recs
<1>3. CASE SnapshotFails
  <2>1. UNCHANGED <<rec, job, expander, keeper, funnel>> /\ snap'.at = "idle"
    BY <1>3 DEF SnapshotFails, NoSnap
  <2>2. /\ campaign'.snapCursor = campaign.snapCursor /\ campaign'.cursor = campaign.cursor
        /\ campaign'.expandDone = campaign.expandDone
        /\ campaign'.status = campaign.status
           \/ (campaign.status = "snapshotting" /\ campaign'.status = "failed")
    <3>1. campaign' = campaign
          \/ (campaign.status = "snapshotting" /\ campaign' = [campaign EXCEPT !.status = "failed"])
      BY <1>3 DEF SnapshotFails
    <3> QED BY <3>1 DEF TypeInv, TypeOK, Campaigns
  <2>3. Early' => Early
    BY <2>2 DEF Early
  <2>4. Late' => Late
    BY <2>2 DEF Late
  <2>5. campaign'.status # "cancelled" => campaign.status # "cancelled"
    BY <2>2
  <2>6. Snapshotted' /\ Unstarted' /\ Undisturbed'
    BY <2>1, <2>2, <2>3, <2>4, <2>5 DEF Snapshotted, Unstarted, Undisturbed
  <2>7. Expanded'
    BY <2>1, <2>2, <2>4 DEF Expanded, Late, Recs
  <2> QED BY <2>6, <2>7 DEF Phases
<1> QED BY <1>1, <1>2, <1>3, SnapshotCommitsPhases DEF Snapshot

-----------------------------------------------------------------------------
LEMMA ExpandReadsPhases ==
    ASSUME BroadcastInv, ExpandReads
    PROVE  Phases'
<1> USE DEF BroadcastInv, TypeInv, TypeOK
<1>1. UNCHANGED <<campaign, rec, job, snap, keeper, funnel>>
  BY DEF ExpandReads, rows
<1>2. Late /\ ~Early
  BY DEF ExpandReads, Early, Late
<1>3. Late' /\ ~Early' /\ Recs({"none"})' = Recs({"none"})
      /\ Recs({"pending"})' = Recs({"pending"}) /\ Recs({"queued"})' = Recs({"queued"})
  BY <1>1, <1>2 DEF Early, Late, Recs
<1>4. Unexpanded = Recs({"pending"})
  BY <1>2 DEF Expanded, Unexpanded
<1>5. PICK B \in SUBSET Recipients :
        /\ IsBatch(B, Unexpanded, ExpandBatch)
        /\ expander' = [at |-> "rows", rows |-> B, epoch |-> epoch]
  BY DEF ExpandReads
<1>6. B = {} => Recs({"pending"}) = {}
  <2>1. Cardinality({}) = 0 /\ ExpandBatch \in Nat \ {0}
    BY FS_EmptySet, BroadcastAssumption
  <2>2. B = {} => Cardinality(B) < ExpandBatch
    BY <2>1
  <2> QED BY <1>4, <1>5, <2>2 DEF IsBatch
<1>7. Expanded'
  <2>1. /\ expander'.rows = B /\ B \subseteq Recs({"pending"})
        /\ \A b \in B, r \in Recs({"pending"}) \ B : b < r
    BY <1>4, <1>5 DEF IsBatch
  <2> QED BY <1>1, <1>2, <1>3, <1>6, <2>1 DEF Expanded
<1>8. Snapshotted' /\ Unstarted' /\ Undisturbed'
  BY <1>1, <1>2, <1>3 DEF Snapshotted, Unstarted, Undisturbed, IsBatch
<1> QED BY <1>7, <1>8 DEF Phases

\* The batch is the beginning of the pending ones: all the others are beyond the new cursor.
LEMMA ExpandCommitsPhases ==
    ASSUME BroadcastInv, ExpandCommits
    PROVE  Phases'
<1> USE DEF BroadcastInv, TypeInv, TypeOK
<1>1. /\ UNCHANGED <<snap, keeper, funnel>> /\ expander'.at = "idle"
      /\ expander.at = "rows" /\ expander.rows # {}
  BY DEF ExpandCommits, NoExpander
<1>2. PICK unrendered \in SUBSET expander.rows :
        /\ rec' = [r \in Recipients |->
                     IF r \in unrendered THEN "failed"
                     ELSE IF r \in expander.rows \ unrendered THEN "queued" ELSE rec[r]]
        /\ job' = [r \in Recipients |->
                     IF r \in expander.rows \ unrendered /\ job[r].status = "none"
                     THEN [status |-> "queued", epoch |-> expander.epoch] ELSE job[r]]
  BY DEF ExpandCommits
<1>3. /\ \A r \in expander.rows : rec'[r] \in {"failed", "queued"}
      /\ \A r \in Recipients \ expander.rows : rec'[r] = rec[r] /\ job'[r] = job[r]
  BY <1>2 DEF Expanders
<1>4. PICK to \in {campaign.cursor} \cup expander.rows :
        /\ Advances(campaign.cursor, expander.rows, to)
        /\ campaign' = [campaign EXCEPT !.cursor = to]
  BY DEF ExpandCommits
<1>5. /\ campaign'.cursor = to /\ campaign'.snapCursor = campaign.snapCursor
      /\ campaign'.expandDone = campaign.expandDone /\ campaign'.status = campaign.status
  BY <1>4 DEF Campaigns
<1>6. ~Early
  BY <1>1 DEF Unstarted
<1>7. ~Early' /\ (Late' <=> Late)
  BY <1>5, <1>6 DEF Early, Late
<1>8. Snapshotted' /\ Unstarted'
  <2>1. \A r \in Recipients : rec[r] # "none" => rec'[r] # "none"
    BY <1>3
  <2>2. Snapshotted'
    BY <1>1, <1>5, <2>1 DEF Snapshotted, IsBatch
  <2> QED BY <1>7, <2>2 DEF Unstarted
<1>9. Undisturbed'
  <2>1. Late => \A r \in Recipients : job'[r].status # "none" => rec'[r] # "pending"
    <3> SUFFICES ASSUME Late, NEW r \in Recipients, job'[r].status # "none"
                 PROVE  rec'[r] # "pending"
      OBVIOUS
    <3>1. CASE r \in expander.rows
      BY <1>3, <3>1
    <3>2. CASE r \notin expander.rows
      BY <1>3, <3>2 DEF Undisturbed
    <3> QED BY <3>1, <3>2
  <2> QED BY <1>1, <1>5, <1>7, <2>1 DEF Undisturbed
<1>10. Expanded'
  <2> SUFFICES ASSUME Late PROVE Expanded'
    BY <1>7 DEF Expanded
  <2>1. /\ expander.rows \subseteq Recs({"pending"})
        /\ \A b \in expander.rows, r \in Recs({"pending"}) \ expander.rows : b < r
        /\ \A r \in Recs({"pending"}) : r > campaign.cursor
        /\ Recs({"none"}) = {}
    BY <1>1 DEF Expanded
  <2>2. Recs({"pending"})' = Recs({"pending"}) \ expander.rows /\ Recs({"none"})' = {}
    BY <1>3, <2>1 DEF Recs, Expanders
  <2>3. \A r \in Recs({"pending"})' : r > to
    <3> TAKE r \in Recs({"pending"})'
    <3>1. r > campaign.cursor /\ \A b \in expander.rows : b < r
      BY <2>1, <2>2
    <3>2. r \in Nat /\ campaign.cursor \in Nat /\ to \in Nat
      BY <1>4, <2>2, BroadcastAssumption DEF Recs, Campaigns, Expanders
    <3> QED BY <1>4, <3>1, <3>2
  \* Whoever is in the batch is pending, so nothing has been said to be done yet.
  <2>4. ~campaign.expandDone
    BY <1>1, <2>1 DEF Expanded
  <2>5. campaign.status \notin {"running", "completed"} /\ ~funnel.drained
    BY <2>4 DEF Expanded
  <2> QED BY <1>1, <1>5, <2>2, <2>3, <2>4, <2>5 DEF Expanded
<1> QED BY <1>8, <1>9, <1>10 DEF Phases

LEMMA ExpandPhases ==
    ASSUME BroadcastInv, Expand
    PROVE  Phases'
<1> USE DEF BroadcastInv, TypeInv, TypeOK
<1>1. CASE ExpandCompletes
  <2>1. /\ UNCHANGED <<rec, job, snap, keeper, funnel>> /\ expander'.at = "idle"
        /\ expander.at = "rows" /\ expander.rows = {}
    BY <1>1 DEF ExpandCompletes, NoExpander
  <2>2. ~Early
    BY <2>1 DEF Unstarted
  <2>3. Recs({"none"})' = Recs({"none"}) /\ Recs({"pending"})' = Recs({"pending"})
        /\ Recs({"queued"})' = Recs({"queued"})
    BY <2>1 DEF Recs
  <2>4. CASE campaign' = campaign
    BY <2>1, <2>2, <2>3, <2>4
       DEF Phases, Snapshotted, IsBatch, Unstarted, Undisturbed, Expanded, Early, Late
  <2>5. CASE campaign.status = "expanding"
    <3>1. /\ campaign'.status = "running" /\ campaign'.expandDone
          /\ campaign'.cursor = campaign.cursor /\ campaign'.snapCursor = campaign.snapCursor
      <4>1. campaign' = [campaign EXCEPT !.status = "running", !.expandDone = TRUE]
        BY <1>1, <2>5 DEF ExpandCompletes
      <4> QED BY <4>1 DEF Campaigns
    <3>2. Late /\ Late' /\ ~Early'
      BY <2>5, <3>1 DEF Early, Late
    <3>3. Snapshotted' /\ Unstarted' /\ Undisturbed'
      BY <2>1, <2>5, <3>1, <3>2 DEF Snapshotted, IsBatch, Unstarted, Undisturbed
    <3>4. Recs({"pending"}) = {}
      BY <2>1, <3>2 DEF Expanded
    <3>5. Expanded'
      BY <2>1, <2>3, <3>1, <3>2, <3>4 DEF Expanded
    <3> QED BY <3>3, <3>5 DEF Phases
  <2> QED BY <1>1, <2>4, <2>5 DEF ExpandCompletes
<1> QED BY <1>1, ExpandReadsPhases, ExpandCommitsPhases DEF Expand

\* A pass works for a cancelled broadcast only, and of it only the types are left to keep.
LEMMA PassPhases ==
    ASSUME BroadcastInv, NEW k \in Keepers, Pass(k)
    PROVE  Phases'
<1> USE DEF BroadcastInv, TypeInv, TypeOK
<1>1. campaign.status = "cancelled"
  <2>1. CASE PassStarts(k)
    BY <2>1 DEF PassStarts
  <2>2. CASE keeper[k].at # "idle"
    BY <2>2 DEF Undisturbed
  <2>3. PassReads(k) \/ PassStamps(k) \/ PassReadsJobs(k) \/ PassStampsJobs(k)
        => keeper[k].at # "idle"
    BY DEF PassReads, PassStamps, PassReadsJobs, PassStampsJobs
  <2> QED BY <2>1, <2>2, <2>3 DEF Pass
<1>2. UNCHANGED <<campaign, snap, expander, funnel>>
  BY DEF Pass, PassStarts, PassReads, PassStamps, PassReadsJobs, PassStampsJobs, rows
<1>3. \A r \in Recipients : rec[r] # "none" => rec'[r] # "none"
  <2>1. CASE PassStamps(k)
    <3>1. \A r \in Recipients : rec'[r] \in {"cancelled", rec[r]}
      BY <2>1 DEF PassStamps
    <3> QED BY <3>1
  <2>2. CASE ~PassStamps(k)
    BY <2>2 DEF Pass, PassStarts, PassReads, PassReadsJobs, PassStampsJobs, rows
  <2> QED BY <2>1, <2>2
<1>4. Snapshotted'
  BY <1>2, <1>3 DEF Snapshotted, IsBatch
<1> QED BY <1>1, <1>2, <1>4 DEF Phases, Unstarted, Undisturbed, Expanded, Early, Late

LEMMA FunnelPhases ==
    ASSUME BroadcastInv, Funnel
    PROVE  Phases'
<1> USE DEF BroadcastInv, TypeInv, TypeOK
<1>1. UNCHANGED <<rec, job, snap, expander, keeper>>
  BY DEF Funnel, FunnelReads, FunnelReconciles, FunnelCommits, rows
<1>2. Recs({"none"})' = Recs({"none"}) /\ Recs({"pending"})' = Recs({"pending"})
      /\ Recs({"queued"})' = Recs({"queued"})
  BY <1>1 DEF Recs
<1>3. CASE FunnelReads
  <2>1. campaign' = campaign /\ ~funnel'.drained
    BY <1>3 DEF FunnelReads, rows
  <2> QED BY <1>1, <1>2, <2>1
          DEF Phases, Snapshotted, IsBatch, Unstarted, Undisturbed, Expanded, Early, Late
<1>4. CASE FunnelReconciles
  <2>1. campaign' = campaign /\ funnel'.drained = Drained
    BY <1>4 DEF FunnelReconciles
  <2>2. Drained => ~Early /\ campaign.expandDone /\ Recs({"queued"}) = {}
    BY DEF Drained, Unfinished, Early, Recs
  <2> QED BY <1>1, <1>2, <2>1, <2>2
          DEF Phases, Snapshotted, IsBatch, Unstarted, Undisturbed, Expanded, Early, Late
<1>5. CASE FunnelCommits
  <2>1. ~funnel'.drained
    BY <1>5 DEF FunnelCommits, NoFunnel
  <2>2. CASE campaign' = campaign
    BY <1>1, <1>2, <2>1, <2>2
       DEF Phases, Snapshotted, IsBatch, Unstarted, Undisturbed, Expanded, Early, Late
  <2>3. CASE funnel.drained /\ campaign.status = "running"
    <3>1. /\ campaign'.status = "completed" /\ campaign'.expandDone = campaign.expandDone
          /\ campaign'.cursor = campaign.cursor /\ campaign'.snapCursor = campaign.snapCursor
      <4>1. campaign' = [campaign EXCEPT !.status = "completed"]
        BY <1>5, <2>3 DEF FunnelCommits
      <4> QED BY <4>1 DEF Campaigns
    <3>2. Late /\ Late' /\ ~Early'
      BY <2>3, <3>1 DEF Early, Late
    <3>3. Snapshotted' /\ Unstarted' /\ Undisturbed'
      BY <1>1, <2>3, <3>1, <3>2 DEF Snapshotted, IsBatch, Unstarted, Undisturbed
    <3>4. Expanded'
      BY <1>1, <1>2, <2>1, <2>3, <3>1, <3>2 DEF Expanded
    <3> QED BY <3>3, <3>4 DEF Phases
  <2> QED BY <1>5, <2>2, <2>3 DEF FunnelCommits
<1> QED BY <1>3, <1>4, <1>5 DEF Funnel

\* No job comes into being here, and who has one is not pending.
LEMMA JobsPhases ==
    ASSUME BroadcastInv, UNCHANGED <<campaign, snap, expander, keeper, funnel>>,
           \A r \in Recipients : job'[r].status # "none" => job[r].status # "none",
           \A r \in Recipients : rec'[r] = rec[r] \/ (rec'[r] = "sent" /\ job[r].status # "none")
    PROVE  Phases'
<1> USE DEF BroadcastInv, TypeInv, TypeOK
<1>1. \A r \in Recipients : rec[r] # "none" => rec'[r] # "none"
  OBVIOUS
<1>2. Snapshotted' /\ Unstarted'
  BY <1>1 DEF Snapshotted, IsBatch, Unstarted, Early
<1>3. Undisturbed'
  BY DEF Undisturbed, Early, Late
<1>4. Expanded'
  <2> SUFFICES ASSUME Late PROVE Expanded'
    BY DEF Expanded, Late
  <2>1. /\ Recs({"none"})' \subseteq Recs({"none"}) /\ Recs({"queued"})' \subseteq Recs({"queued"})
        /\ Recs({"pending"})' = Recs({"pending"})
    BY DEF Recs, Undisturbed
  <2> QED BY <2>1 DEF Expanded
<1> QED BY <1>2, <1>3, <1>4 DEF Phases

LEMMA RelinksPhases ==
    ASSUME BroadcastInv, Relinks
    PROVE  Phases'
<1> USE DEF BroadcastInv, TypeInv, TypeOK
<1>1. UNCHANGED <<campaign, rec, snap, expander, keeper, funnel>>
  BY DEF Relinks, Relink, SweepEpoch, RestampReads, RestampWrites, rows
<1>2. \A r \in Recipients : job'[r].status # "none" => job[r].status # "none"
  <2>1. CASE SweepEpoch
    BY <2>1 DEF SweepEpoch, Swept, JobsIn
  <2>2. CASE RestampWrites
    BY <2>2 DEF RestampWrites
  <2>3. CASE Relink \/ RestampReads
    BY <2>3 DEF Relink, RestampReads, rows
  <2> QED BY <2>1, <2>2, <2>3 DEF Relinks
<1> QED BY <1>1, <1>2, JobsPhases

LEMMA SendPhases ==
    ASSUME BroadcastInv, NEW r \in Recipients, Send(r)
    PROVE  Phases'
<1>1. TypeInv
  BY DEF BroadcastInv
<1>2. \A q \in Recipients : rec'[q] = rec[q] \/ (rec'[q] = "sent" /\ job[q].status # "none")
  BY <1>1, SendEffect DEF TypeInv, TypeOK
<1> QED BY <1>1, <1>2, SendEffect, JobsPhases

-----------------------------------------------------------------------------
LEMMA Begin ==
    ASSUME Init
    PROVE  BroadcastInv
<1>1. \A r \in Recipients : ~ (r <= 0)
  BY BroadcastAssumption
<1>2. Snapshotted
  BY <1>1 DEF Init, Snapshotted, NoSnap
<1>3. Unstarted /\ Undisturbed /\ Expanded
  BY DEF Init, Unstarted, Undisturbed, Expanded, Late, NoExpander, NoFunnel, NoPass
<1> QED BY <1>2, <1>3, TypesStart DEF BroadcastInv

LEMMA Step ==
    ASSUME BroadcastInv, [Next]_vars
    PROVE  BroadcastInv'
<1>1. TypeInv'
  BY TypesStep DEF BroadcastInv
<1>2. Phases'
  <2>1. CASE UNCHANGED vars
    BY <2>1 DEF vars, BroadcastInv, Phases, Snapshotted, IsBatch, Unstarted, Undisturbed,
                Expanded, Early, Late, Recs
  <2> QED BY <2>1, LifecyclePhases, SnapshotPhases, ExpandPhases, FunnelPhases,
             RelinksPhases, PassPhases, SendPhases DEF Next
<1> QED BY <1>1, <1>2 DEF BroadcastInv, Phases

LEMMA Invariance ==
    Spec => []BroadcastInv
  BY Begin, Step, PTL DEF Spec

\* Every variable keeps its type, and what the expander and a pass have in their hands
\* has been snapshotted, in whatever order the transactions commit.
THEOREM TypeCorrect ==
    Spec => []TypeOK
<1>1. BroadcastInv => TypeOK
  BY DEF BroadcastInv, TypeInv
<1> QED BY <1>1, Invariance, PTL

\* A broadcast that the funnel has completed (funnel-reconciler.ts) has snapshotted its
\* whole audience, and nobody of it waits to be expanded or sent.
THEOREM CompletedLeavesNobody ==
    Spec => []CompletedIsDone
<1>1. BroadcastInv => CompletedIsDone
  <2> SUFFICES ASSUME BroadcastInv, campaign.status = "completed"
               PROVE  Recs({"none"} \cup Unfinished) = {}
    BY DEF CompletedIsDone
  <2>1. Recs({"none"}) = {} /\ Recs({"pending"}) = {} /\ Recs({"queued"}) = {}
    BY DEF BroadcastInv, Expanded, Late
  <2> QED BY <2>1 DEF Recs, Unfinished
<1> QED BY <1>1, Invariance, PTL

\* The same under the fairness of the crons, under which the run checks it.
COROLLARY CompletedLeavesNobodyFair ==
    FairSpec => []CompletedIsDone
  BY CompletedLeavesNobody DEF FairSpec
============================================================================
