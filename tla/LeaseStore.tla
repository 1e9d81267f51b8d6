----------------------------- MODULE LeaseStore -----------------------------
(***************************************************************************)
(* The two stores a session lease lives in, for one WhatsApp instance.     *)
(*                                                                         *)
(*   - the Redis key lease:i:<instance>, changed only by the four Lua      *)
(*     scripts under engine/lease/scripts.  Its value is worker|PENDING or *)
(*     worker|fence, and it carries a time to live;                        *)
(*   - the Postgres row of instance_lease_state, changed only by the four  *)
(*     statements db/queries/lease-*.sql.                                  *)
(*                                                                         *)
(* A script or a statement is an operator from the stored value to the     *)
(* stored value it leaves behind, with the reply it gives.  Time is        *)
(* counted in whole units: a key knows the units it has left to live, a    *)
(* row the units since lease_seen_at.                                      *)
(***************************************************************************)
EXTENDS Integers

CONSTANTS
    Workers,        \* session-worker processes
    NoWorker,       \* SQL NULL in owner_worker_id, and "no such key" in Redis
    LeaseTtl,       \* TIMING.leaseTtlMs
    StaleAge        \* DISCOVERY_STALE_MS

ASSUME StoreAssumption ==
    /\ NoWorker \notin Workers
    /\ LeaseTtl \in Nat \ {0}
    /\ StaleAge \in Nat \ {0}

-----------------------------------------------------------------------------
(* Redis. *)

\* The fence field of worker|PENDING; a minted fence is at least 1.
Pending == 0

Keys == [owner : Workers \cup {NoWorker}, fence : Nat, ttl : 0 .. LeaseTtl]

NoKey == [owner |-> NoWorker, fence |-> Pending, ttl |-> 0]

KeyOf(w, f) == [owner |-> w, fence |-> f, ttl |-> LeaseTtl]

Carries(k, w, f) == k.owner = w /\ k.fence = f

Replies == {"yes", "no", "lost"}

Executed(k, done) == [key |-> k, reply |-> IF done THEN "yes" ELSE "no"]

\* acquire.lua: SET NX of the placeholder.
AcquireScript(k, w) ==
    IF k.owner = NoWorker THEN Executed(KeyOf(w, Pending), TRUE)
                          ELSE Executed(k, FALSE)

\* set-fence.lua: the minted fence replaces our own placeholder only.
SetFenceScript(k, w, f) ==
    IF Carries(k, w, Pending) THEN Executed(KeyOf(w, f), TRUE)
                              ELSE Executed(k, FALSE)

\* renew-batch.lua, one key of the batch: compare, then a full new ttl.
RenewScript(k, w, f) ==
    IF Carries(k, w, f) THEN Executed(KeyOf(w, f), TRUE)
                        ELSE Executed(k, FALSE)

\* release.lua: compare, then delete.
ReleaseScript(k, w, f) ==
    IF Carries(k, w, f) THEN Executed(NoKey, TRUE) ELSE Executed(k, FALSE)

\* withTimeout in lease-redis.ts: the caller sees the reply, or a rejection
\* that says nothing of whether Redis ran the script.
Command(k, executed) ==
    {executed,
     [key |-> executed.key, reply |-> "lost"],
     [key |-> k, reply |-> "lost"]}

\* One unit of a key's life passes.
AgeKey(k) ==
    IF k.ttl <= 1 THEN NoKey ELSE [k EXCEPT !.ttl = @ - 1]

-----------------------------------------------------------------------------
(* Postgres.  fence = 0 is the missing row of a never-leased instance. *)

Rows == [fence : Nat, owner : Workers \cup {NoWorker},
         seen : 0 .. StaleAge, released : BOOLEAN]

NoRow == [fence |-> 0, owner |-> NoWorker, seen |-> StaleAge, released |-> FALSE]

OwnsRow(r, w, f) == r.owner = w /\ r.fence = f

\* Mutants of MintRow: an upsert that forgets the increment, and one that
\* forgets to overwrite the owner.
MintRowSameFence(r, w) ==
    [fence |-> IF r.fence = 0 THEN 1 ELSE r.fence,
     owner |-> w, seen |-> 0, released |-> FALSE]
MintRowKeepsOwner(r, w) ==
    [fence |-> r.fence + 1, owner |-> IF r.owner = NoWorker THEN w ELSE r.owner,
     seen |-> 0, released |-> FALSE]

\* lease-mint-fence: current_fence + 1, a new owner, seen now, not released.
MintRow(r, w) ==
    [fence |-> r.fence + 1, owner |-> w, seen |-> 0, released |-> FALSE]

\* lease-renew-batch, one row of the batch.
RenewRow(r, w, f) == IF OwnsRow(r, w, f) THEN [r EXCEPT !.seen = 0] ELSE r

\* lease-release: owner and fence guarded; lease_seen_at is not touched.
ReleaseRow(r, w, f) ==
    IF OwnsRow(r, w, f) THEN [r EXCEPT !.owner = NoWorker, !.released = TRUE]
                        ELSE r

\* wp_lease_scan_unowned: by age of lease_seen_at alone.
Discoverable(r) == r.fence = 0 \/ r.seen >= StaleAge

AgeRow(r) == [r EXCEPT !.seen = IF @ < StaleAge THEN @ + 1 ELSE @]

\* A transaction the caller sees commit, or fail before or after its commit.
\* Each outcome is the row left behind and whether the caller was told so.
Transaction(r, committed) ==
    {[row |-> committed, ok |-> TRUE],
     [row |-> committed, ok |-> FALSE],
     [row |-> r, ok |-> FALSE]}
=============================================================================
