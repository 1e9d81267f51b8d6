------------------------------- MODULE Lease -------------------------------
(***************************************************************************)
(* Ownership of one WhatsApp session by a fleet of session-worker          *)
(* processes: discovery grabs an instance whose row looks abandoned,       *)
(* LeaseManager takes the lease, LeaseHeartbeat keeps it or fences the     *)
(* worker itself, the session runner opens a socket under it, and          *)
(* teardown, shed, drain and crashes give it up.                           *)
(*                                                                         *)
(* Leases of different instances share no state but the heartbeat tick,    *)
(* whose two batched calls treat every lease of the batch alike, so one    *)
(* instance is modelled and the batch is its one entry.                    *)
(*                                                                         *)
(* Time is a unit at a time (Tick).  A unit cannot pass while a worker     *)
(* owes something it has a deadline for: a heartbeat interval that has     *)
(* fired, or a call whose timeout has run out.                             *)
(***************************************************************************)
EXTENDS LeaseStore

CONSTANTS
    TakeoverGrace,  \* TIMING.takeoverGraceMs
    Watchdog,       \* TIMING.watchdogMs
    Heartbeat,      \* TIMING.heartbeatMs
    RedisTimeout,   \* TIMING.redisCommandTimeoutMs: longest wait for a reply
    PgTimeout,      \* longest Postgres leg of a heartbeat tick
    MaxFence        \* bound: how many fences a run mints

ASSUME TimingAssumption ==
    /\ TakeoverGrace \in Nat
    /\ Watchdog \in Nat
    /\ Heartbeat \in Nat \ {0}
    /\ RedisTimeout \in Nat
    /\ PgTimeout \in Nat
    /\ MaxFence \in Nat

VARIABLES
    key,     \* the Redis key
    row,     \* the instance_lease_state row
    sess,    \* sess[w]: the instance's progress through grab, acquire and runner
    beat,    \* beat[w]: w's LeaseHeartbeat
    rel,     \* rel[w]: the LeaseManager.release in progress in w
    stray,   \* stray[w]: a build or socket of w that outlived its session
    drain    \* drain[w]: drain or shed has ended the session, release leg next

vars == <<key, row, sess, beat, rel, stray, drain>>

-----------------------------------------------------------------------------
(* A worker's session with the instance, by the await it is suspended in.  *)
(*   idle      nothing under way                                           *)
(*   found     in the rows of this discovery cycle, not yet grabbed        *)
(*   placed    placeholder staked, mint transaction next                   *)
(*   undoing   mint failed, placeholder release next                       *)
(*   minted    fence minted, set-fence next                                *)
(*   fencing   set-fence executed, its reply on the way                    *)
(*   reading   lease in the heartbeat, readSessionEpoch under way          *)
(*   parked    registered; waits for the connect gate, the grace, a timer  *)
(*   building  buildAndWireSocket awaits the stored credentials            *)
(*   open      the socket is live                                          *)
(*   down      registered, without a socket and without a timer            *)
(***************************************************************************)
Acquiring  == {"found", "placed", "undoing", "minted", "fencing", "reading"}
Registered == {"parked", "building", "open", "down"}

Sessions == [pc : {"idle"} \cup Acquiring \cup Registered, fence : Nat,
             grace : 0 .. TakeoverGrace, wait : 0 .. RedisTimeout]

NoSession == [pc |-> "idle", fence |-> 0, grace |-> 0, wait |-> 0]

\* held and snap are the fence of the lease in heldLeases and in the snapshot
\* of the tick in flight (0: none); since is the age of the watchdog baseline;
\* phase is the age of the interval; left is what remains of the leg's timeout.
Beats == [held : Nat, since : 0 .. Watchdog, phase : 0 .. Heartbeat,
          leg : {"none", "redis", "pg"}, left : Nat, snap : Nat,
          renewed : Replies, pg : {"ok", "conflict", "error"}]

IdleBeat == [held |-> 0, since |-> 0, phase |-> 0, leg |-> "none", left |-> 0,
             snap |-> 0, renewed |-> "lost", pg |-> "ok"]

Releases  == [leg : {"none", "redis", "pg"}, fence : Nat]
NoRelease == [leg |-> "none", fence |-> 0]

Strays  == [at : {"none", "building", "open"}, fence : Nat]
NoStray == [at |-> "none", fence |-> 0]

TypeOK ==
    /\ key \in Keys
    /\ row \in Rows
    /\ sess \in [Workers -> Sessions]
    /\ beat \in [Workers -> Beats]
    /\ rel \in [Workers -> Releases]
    /\ stray \in [Workers -> Strays]
    /\ drain \in [Workers -> BOOLEAN]

Init ==
    /\ key = NoKey
    /\ row = NoRow
    /\ sess = [w \in Workers |-> NoSession]
    /\ beat = [w \in Workers |-> IdleBeat]
    /\ rel = [w \in Workers |-> NoRelease]
    /\ stray = [w \in Workers |-> NoStray]
    /\ drain = [w \in Workers |-> FALSE]

-----------------------------------------------------------------------------
(* Discovery. *)

\* scanForDiscovery returns the row; admission refuses a draining worker.
Scan(w) ==
    /\ sess[w].pc = "idle" /\ ~drain[w]
    /\ Discoverable(row)
    /\ sess' = [sess EXCEPT ![w].pc = "found"]
    /\ UNCHANGED <<key, row, beat, rel, stray, drain>>

\* The cycle passes the row over: no capacity left, soft yield, or an error.
PassOver(w) ==
    /\ sess[w].pc = "found"
    /\ sess' = [sess EXCEPT ![w] = NoSession]
    /\ UNCHANGED <<key, row, beat, rel, stray, drain>>

-----------------------------------------------------------------------------
(* LeaseManager.acquire. *)

\* Step 1.  A held key, or a reply that never comes, ends the attempt.
Place(w) ==
    /\ sess[w].pc = "found"
    /\ \E c \in Command(key, AcquireScript(key, w)) :
        /\ key' = c.key
        /\ sess' = [sess EXCEPT ![w] =
                      IF c.reply = "yes" THEN [NoSession EXCEPT !.pc = "placed"]
                                         ELSE NoSession]
    /\ UNCHANGED <<row, beat, rel, stray, drain>>

\* Mutant: the grace is skipped whatever released_at says.
GracesAlwaysOptional(r) == {0, TakeoverGrace}

\* Whether the grace may be skipped.  Only a released row allows it, and then
\* only if the release is fresh by the worker's own clock, which may be off.
Graces(r) == IF r.released THEN {0, TakeoverGrace} ELSE {TakeoverGrace}

\* Step 2, and the grace of step 4 that its read of the row decides.
Mint(w) ==
    /\ sess[w].pc = "placed" /\ row.fence < MaxFence
    /\ \E t \in Transaction(row, MintRow(row, w)), g \in Graces(row) :
        /\ row' = t.row
        /\ sess' = [sess EXCEPT ![w] =
                      IF t.ok THEN [NoSession EXCEPT !.pc = "minted",
                                      !.fence = row.fence + 1, !.grace = g]
                              ELSE [NoSession EXCEPT !.pc = "undoing"]]
    /\ UNCHANGED <<key, beat, rel, stray, drain>>

\* The best-effort release of the placeholder after a failed mint.
UndoPlace(w) ==
    /\ sess[w].pc = "undoing"
    /\ \E c \in Command(key, ReleaseScript(key, w, Pending)) : key' = c.key
    /\ sess' = [sess EXCEPT ![w] = NoSession]
    /\ UNCHANGED <<row, beat, rel, stray, drain>>

\* Step 3.  Only a "yes" goes on; its reply may take RedisTimeout to arrive.
SetFence(w) ==
    /\ sess[w].pc = "minted"
    /\ \E c \in Command(key, SetFenceScript(key, w, sess[w].fence)) :
        /\ key' = c.key
        /\ sess' = IF c.reply = "yes"
                   THEN [sess EXCEPT ![w] = [@ EXCEPT !.pc = "fencing",
                                                      !.wait = RedisTimeout]]
                   ELSE [sess EXCEPT ![w] = NoSession]
    /\ UNCHANGED <<row, beat, rel, stray, drain>>

\* acquire returns the lease and the runner adds it to the heartbeat, whose
\* interval is at an arbitrary phase unless a tick is already being timed.
AddLease(w) ==
    /\ sess[w].pc = "fencing"
    /\ sess' = [sess EXCEPT ![w] = [@ EXCEPT !.pc = "reading", !.wait = 0]]
    /\ \E p \in IF beat[w].held = 0 /\ beat[w].leg = "none"
                THEN 0 .. Heartbeat ELSE {beat[w].phase} :
         beat' = [beat EXCEPT ![w] = [@ EXCEPT !.held = sess[w].fence,
                                               !.since = 0, !.phase = p]]
    /\ UNCHANGED <<key, row, rel, stray, drain>>

-----------------------------------------------------------------------------
(* The session runner. *)

\* start(): the epoch was read, so the handle goes into the registry.
Register(w) ==
    /\ sess[w].pc = "reading"
    /\ sess' = [sess EXCEPT ![w].pc = "parked"]
    /\ UNCHANGED <<key, row, beat, rel, stray, drain>>

\* readSessionEpoch throws out of start(): the lease stays in the heartbeat.
EpochReadFails(w) ==
    /\ sess[w].pc = "reading"
    /\ sess' = [sess EXCEPT ![w] = NoSession]
    /\ UNCHANGED <<key, row, beat, rel, stray, drain>>

\* The waits are over and the session is neither torn down nor ended.
BeginBuild(w) ==
    /\ sess[w].pc = "parked" /\ sess[w].grace = 0
    /\ sess' = [sess EXCEPT ![w].pc = "building"]
    /\ UNCHANGED <<key, row, beat, rel, stray, drain>>

\* The credentials arrived and the socket opens, or the load failed.
FinishBuild(w) ==
    /\ sess[w].pc = "building"
    /\ \E end \in {"open", "down"} : sess' = [sess EXCEPT ![w].pc = end]
    /\ UNCHANGED <<key, row, beat, rel, stray, drain>>

\* handleClose: a reconnect on the same lease, or no reconnect at all.
Disconnect(w) ==
    /\ sess[w].pc = "open"
    /\ \E end \in {"parked", "down"} : sess' = [sess EXCEPT ![w].pc = end]
    /\ UNCHANGED <<key, row, beat, rel, stray, drain>>

\* Mutant: teardown releases and leaves the socket to be closed later.
EndSessionLater(w) == UNCHANGED <<sess, stray>>

\* teardown() up to its first await.  A build already past its check of
\* tornDown is not cancelled; one such build per worker is tracked.
EndSession(w) ==
    /\ sess' = [sess EXCEPT ![w] = NoSession]
    /\ stray' = [stray EXCEPT ![w] =
                   IF sess[w].pc = "building" /\ @.at = "none"
                   THEN [at |-> "building", fence |-> sess[w].fence] ELSE @]

Forget(h) == [h EXCEPT !.held = 0, !.since = 0]

\* teardown without release: an event handler of the socket has failed.
TeardownNoRelease(w) ==
    /\ sess[w].pc \in Registered
    /\ EndSession(w)
    /\ beat' = [beat EXCEPT ![w] = Forget(@)]
    /\ UNCHANGED <<key, row, rel, drain>>

\* teardownWithRelease: sweep, pairing exhausted, reconnects exhausted, shutdown,
\* and the auth store that finds itself fenced.
TeardownWithRelease(w) ==
    /\ sess[w].pc \in Registered /\ rel[w].leg = "none"
    /\ EndSession(w)
    /\ beat' = [beat EXCEPT ![w] = Forget(@)]
    /\ rel' = [rel EXCEPT ![w] = [leg |-> "redis", fence |-> sess[w].fence]]
    /\ UNCHANGED <<key, row, drain>>

\* LeaseManager.release steps 1 and 2.  Step 1 ends whatever session is in the
\* registry by now; an error of step 2 is logged and step 3 follows anyway.
ReleaseRedis(w) ==
    /\ rel[w].leg = "redis"
    /\ sess' = IF sess[w].pc \in {"parked", "open"}
               THEN [sess EXCEPT ![w].pc = "down"] ELSE sess
    /\ \E c \in Command(key, ReleaseScript(key, w, rel[w].fence)) : key' = c.key
    /\ rel' = [rel EXCEPT ![w].leg = "pg"]
    /\ UNCHANGED <<row, beat, stray, drain>>

\* Step 3: zero rows are logged; a failed transaction rejects.
ReleasePg(w) ==
    /\ rel[w].leg = "pg"
    /\ \E t \in Transaction(row, ReleaseRow(row, w, rel[w].fence)) : row' = t.row
    /\ rel' = [rel EXCEPT ![w] = NoRelease]
    /\ UNCHANGED <<key, sess, beat, stray, drain>>

\* drain and shed, first leg: endSocket is handle.teardownNoRelease().
DrainEnd(w) ==
    /\ sess[w].pc \in Registered /\ ~drain[w]
    /\ EndSession(w)
    /\ beat' = [beat EXCEPT ![w] = Forget(@)]
    /\ drain' = [drain EXCEPT ![w] = TRUE]
    /\ UNCHANGED <<key, row, rel>>

\* Second leg: the lease to release is looked up in the heartbeat.
DrainRelease(w) ==
    /\ drain[w] /\ rel[w].leg = "none"
    /\ drain' = [drain EXCEPT ![w] = FALSE]
    /\ rel' = [rel EXCEPT ![w] = IF beat[w].held = 0 THEN @
                                 ELSE [leg |-> "redis", fence |-> beat[w].held]]
    /\ UNCHANGED <<key, row, sess, beat, stray>>

\* The build that outlived its session: its credentials arrive and it opens a
\* socket, or it fails, or that socket is closed from the other side.
StrayOpens(w) ==
    /\ stray[w].at = "building"
    /\ stray' = [stray EXCEPT ![w].at = "open"]
    /\ UNCHANGED <<key, row, sess, beat, rel, drain>>

StrayEnds(w) ==
    /\ stray[w].at # "none"
    /\ stray' = [stray EXCEPT ![w] = NoStray]
    /\ UNCHANGED <<key, row, sess, beat, rel, drain>>

\* A handler of the stray fails, or it gives up or is fenced by the auth store
\* and releases: its teardown removes by instance, so a newer session of the
\* worker loses its place in the heartbeat and the registry and is a stray now.
Orphaned(s) ==
    CASE s.pc = "open" -> [at |-> "open", fence |-> s.fence]
      [] s.pc \in {"parked", "building"} -> [at |-> "building", fence |-> s.fence]
      [] OTHER -> NoStray
StrayTearsDown(w) ==
    /\ stray[w].at # "none"
    /\ beat' = [beat EXCEPT ![w] = Forget(@)]
    /\ IF sess[w].pc \in Registered
       THEN /\ stray' = [stray EXCEPT ![w] = Orphaned(sess[w])]
            /\ sess' = [sess EXCEPT ![w] = NoSession]
       ELSE /\ stray' = [stray EXCEPT ![w] = NoStray]
            /\ UNCHANGED sess
    /\ \/ UNCHANGED rel
       \/ /\ rel[w].leg = "none"
          /\ rel' = [rel EXCEPT ![w] = [leg |-> "redis", fence |-> stray[w].fence]]
    /\ UNCHANGED <<key, row, drain>>

\* The process dies; its successor starts empty.
Crash(w) ==
    /\ \/ sess[w] # NoSession \/ beat[w].held # 0
       \/ rel[w].leg # "none" \/ stray[w] # NoStray \/ drain[w]
    /\ sess' = [sess EXCEPT ![w] = NoSession]
    /\ beat' = [beat EXCEPT ![w] = IdleBeat]
    /\ rel' = [rel EXCEPT ![w] = NoRelease]
    /\ stray' = [stray EXCEPT ![w] = NoStray]
    /\ drain' = [drain EXCEPT ![w] = FALSE]
    /\ UNCHANGED <<key, row>>

-----------------------------------------------------------------------------
(* LeaseHeartbeat. *)

Timed(w) == beat[w].held # 0 \/ beat[w].leg # "none"

Fired(w) == Timed(w) /\ beat[w].phase = Heartbeat

\* The interval fires with no tick in flight: the held lease is snapshotted
\* and its key renewed.
BeatStart(w) ==
    /\ Fired(w) /\ beat[w].leg = "none"
    /\ \E c \in Command(key, RenewScript(key, w, beat[w].held)) :
        /\ key' = c.key
        /\ beat' = [beat EXCEPT ![w] = [@ EXCEPT
                      !.phase = 0, !.leg = "redis", !.left = RedisTimeout,
                      !.snap = beat[w].held, !.renewed = c.reply]]
    /\ UNCHANGED <<row, sess, rel, stray, drain>>

\* The interval fires while a tick is in flight: the call is skipped.
BeatSkip(w) ==
    /\ Fired(w) /\ beat[w].leg # "none"
    /\ beat' = [beat EXCEPT ![w].phase = 0]
    /\ UNCHANGED <<key, row, sess, rel, stray, drain>>

\* Redis answered or rejected: a "yes" moves the watchdog baseline of a lease
\* that is still held, and the snapshot is renewed in Postgres.
BeatRedisReply(w) ==
    LET h == beat[w]
        mine == OwnsRow(row, w, h.snap)
    IN /\ h.leg = "redis"
       /\ \E t \in Transaction(row, RenewRow(row, w, h.snap)) :
           /\ row' = t.row
           /\ beat' = [beat EXCEPT ![w] = [h EXCEPT
                 !.leg = "pg", !.left = PgTimeout,
                 !.since = IF h.renewed = "yes" /\ h.held # 0 THEN 0 ELSE h.since,
                 !.pg = IF ~t.ok THEN "error" ELSE IF mine THEN "ok" ELSE "conflict"]]
       /\ UNCHANGED <<key, sess, rel, stray, drain>>

\* Mutants: a Postgres error fences; the watchdog is not consulted at all, or
\* not in a tick whose Redis call was rejected.
PgConflictOrError(h) == h.pg # "ok"
SelfFencesUnwatched(h) == h.renewed = "no" \/ h.pg = "conflict"
WatchdogDueIfAnswered(h) ==
    h.held # 0 /\ h.renewed # "lost" /\ h.since >= Watchdog

\* The three self-fence triggers.  A Redis rejection and a Postgres error are
\* none of them, and a lease removed during the tick has no watchdog entry.
RedisLost(h)    == h.renewed = "no"
PgConflict(h)   == h.pg = "conflict"
WatchdogDue(h)  == h.held # 0 /\ h.since >= Watchdog
SelfFences(h)   == RedisLost(h) \/ PgConflict(h) \/ WatchdogDue(h)

\* The end of the tick.  onFenceLost tears down the registered handle, if
\* there is one, without releasing; the lease leaves the heartbeat.
BeatEnd(w) ==
    LET h == beat[w]
        rest == [h EXCEPT !.leg = "none", !.left = 0, !.snap = 0,
                   !.renewed = "lost", !.pg = "ok"]
    IN /\ h.leg = "pg"
       /\ IF SelfFences(h)
          THEN /\ beat' = [beat EXCEPT ![w] = Forget(rest)]
               /\ IF sess[w].pc \in Registered
                  THEN EndSession(w) ELSE UNCHANGED <<sess, stray>>
          ELSE /\ beat' = [beat EXCEPT ![w] = rest]
               /\ UNCHANGED <<sess, stray>>
       /\ UNCHANGED <<key, row, rel, drain>>

-----------------------------------------------------------------------------
(* Time. *)

Overdue(w) ==
    \/ Fired(w)
    \/ beat[w].leg # "none" /\ beat[w].left = 0
    \/ sess[w].pc = "fencing" /\ sess[w].wait = 0

\* Mutant: a countdown that does not stop at zero.
LessUnclamped(n) == n - 1

Less(n) == IF n = 0 THEN 0 ELSE n - 1

AgeSession(s) ==
    [s EXCEPT !.grace = IF s.pc = "parked" THEN Less(@) ELSE @, !.wait = Less(@)]

AgeBeat(w) ==
    [beat[w] EXCEPT
        !.phase = IF Timed(w) THEN @ + 1 ELSE 0,
        !.left  = Less(@),
        !.since = IF beat[w].held # 0 /\ @ < Watchdog THEN @ + 1 ELSE @]

Tick ==
    /\ \A w \in Workers : ~Overdue(w)
    /\ key' = AgeKey(key)
    /\ row' = AgeRow(row)
    /\ sess' = [w \in Workers |-> AgeSession(sess[w])]
    /\ beat' = [w \in Workers |-> AgeBeat(w)]
    /\ UNCHANGED <<rel, stray, drain>>

Work(w) ==
    \/ Scan(w) \/ PassOver(w)
    \/ Place(w) \/ Mint(w) \/ UndoPlace(w) \/ SetFence(w) \/ AddLease(w)
    \/ Register(w) \/ EpochReadFails(w)
    \/ BeginBuild(w) \/ FinishBuild(w) \/ Disconnect(w)
    \/ TeardownNoRelease(w) \/ TeardownWithRelease(w)
    \/ ReleaseRedis(w) \/ ReleasePg(w)
    \/ DrainEnd(w) \/ DrainRelease(w)
    \/ StrayOpens(w) \/ StrayEnds(w) \/ StrayTearsDown(w)
    \/ BeatStart(w) \/ BeatSkip(w) \/ BeatRedisReply(w) \/ BeatEnd(w)
    \/ Crash(w)

Next == Tick \/ \E w \in Workers : Work(w)

Spec == Init /\ [][Next]_vars

-----------------------------------------------------------------------------
(* Properties. *)

\* Every fence worker w still acts under.
Fences(w) ==
    {sess[w].fence, beat[w].held, beat[w].snap, rel[w].fence, stray[w].fence} \ {0}

\* A session the runner opened and the heartbeat still guards.
Guarded(w) == sess[w].pc = "open" /\ beat[w].held = sess[w].fence

\* Two workers never act under the same fence, whatever happens between the
\* mint transaction, the set-fence CAS, a crash and a retry, and the fence in
\* the key is its owner's alone (LeaseManager.acquire steps 1 to 3).
FenceUnique ==
    \A w \in Workers :
        /\ \A v \in Workers \ {w} : Fences(v) \cap Fences(w) = {}
        /\ key.fence \in Fences(w) => key.owner = w

\* No fence runs ahead of Postgres, and only the worker the row names, if it
\* names one, acts under the row's fence: the fence check of a claim query
\* (current_fence = $fence) tells the present owner from every earlier one.
RowIsAuthority ==
    /\ key.fence <= row.fence
    /\ \A w \in Workers :
        /\ \A f \in Fences(w) : f <= row.fence
        /\ row.fence \in Fences(w) => row.owner \in {w, NoWorker}

\* Two workers never have a guarded socket open at once.  This is what the
\* ttl, the grace, the watchdog and the timeouts are tuned for: a worker that
\* lost Redis must have fenced itself before a successor's grace is over.
OneGuardedSocket ==
    \A v, w \in Workers : v # w => ~(Guarded(v) /\ Guarded(w))

\* A released row lets the next owner skip the grace, so the session that
\* released it must be closed: teardown() ends the socket before it releases.
ReleasedMeansClosed ==
    row.released => \A w \in Workers : sess[w].pc \in {"building", "open"}
                                          => sess[w].fence # row.fence

\* The heartbeat drops a lease it renewed only if that lease is really gone
\* from a store or has not been renewed for Watchdog: a lost reply or a
\* Postgres error alone never fences (self-fence.ts).
OnlyLostLeasesAreFenced ==
    [][\A w \in Workers :
         LET h == beat[w]
         IN BeatEnd(w) /\ h.held = h.snap /\ beat'[w].held = 0
              => \/ h.since >= Watchdog
                 \/ ~Carries(key, w, h.held)
                 \/ ~OwnsRow(row, w, h.held)]_vars

\* The leases and sockets of the implementation as SessionContract sees them.
Granted == {[worker |-> w, fence |-> beat[w].held] :
                w \in {v \in Workers : beat[v].held # 0}}
Contract == INSTANCE SessionContract WITH
    minted  <- row.fence,
    granted <- Granted,
    live    <- {l \in Granted : Guarded(l.worker)}

\* Lease implements the contract: leases may overlap, newest fence last, but
\* the sockets opened under them never do.
ImplementsContract == Contract!Spec

\* Timers fire and time passes: setInterval, the timeouts of both clients and
\* the resolution of an acquire are the event loop's, not a peer's.
Beating(w) == BeatStart(w) \/ BeatSkip(w) \/ BeatRedisReply(w) \/ BeatEnd(w)
Fairness == /\ WF_vars(Tick)
            /\ \A w \in Workers : WF_vars(Beating(w)) /\ WF_vars(AddLease(w))
FairSpec == Spec /\ Fairness

\* A worker whose key is gone, expired or another's, drops its lease in the
\* end, even if neither store ever answers it again: the watchdog needs no one.
HoldsKey(w) == Carries(key, w, beat[w].held)
LostKeyIsFenced ==
    \A w \in Workers :
        (beat[w].held # 0 /\ ~HoldsKey(w)) ~> (beat[w].held = 0 \/ HoldsKey(w))

-----------------------------------------------------------------------------
(* Claims of comments and documents that the code does not keep: TLC finds  *)
(* each violated under LeaseSafety.cfg; README.md tells the story.          *)

\* drain.ts: once the sockets are closed, release every lease.
DrainReleasesLease ==
    [][\A w \in Workers : DrainRelease(w) => rel'[w].leg = "redis"]_vars

\* runner.ts: no socket opens after teardown.
NothingOpensAfterTeardown == \A w \in Workers : stray[w].at # "open"
=============================================================================
