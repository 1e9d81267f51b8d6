----------------------------- MODULE AuthStore ------------------------------
(***************************************************************************)
(* The credentials and Signal keys of one instance, and the auth stores of *)
(* the owners its lease has had.  A store is known by the fence it was     *)
(* built at.  Its writes are serialised on a chain of promises and end     *)
(* together with what their caller does with the outcome: a live save and  *)
(* the flush of the save buffer, the save of an open, a write of keys, a   *)
(* purge.  Each statement or transaction is one step, which has had its    *)
(* effect by the time its caller sees it fail, and between two of them the *)
(* lease may go to another.                                                *)
(*                                                                         *)
(* Which of the writes waiting on a chain is next is left open.  A save    *)
(* seals what its socket's credentials are by then, so two that wait with  *)
(* one version are one.  A store has one socket here.  Durable keys are    *)
(* written under the conditions of the credentials and left out.           *)
(***************************************************************************)
EXTENDS Integers

CONSTANTS
    Fences,
    BufferMax,    \* CREDS_SAVE_BUFFER_MAX
    MaxTries,     \* MAX_SAVE_CREDS_RETRIES
    MaxUpdates    \* bound: changes of the credentials

AuthAssumption ==
    /\ Fences \subseteq Nat \ {0}
    /\ BufferMax \in Nat \ {0} /\ MaxTries \in Nat /\ MaxTries > 2 /\ MaxUpdates \in Nat

VARIABLES
    lease,    \* current_fence, and whether its worker is still named
    epoch,    \* whatsapp_instances.session_epoch
    row,      \* whatsapp_session_credentials
    signal,   \* in Redis: the gate, and the fence whose keys are in the hash
    store,    \* the stores by fence, with their buffers and runners
    waiting,  \* the writes on the chain of each
    op,       \* the one that is under way
    updates   \* history: the credentials there have been

db == <<lease, epoch, row, signal>>
vars == <<db, store, waiting, op, updates>>

Absent == [there |-> FALSE, version |-> 0, owner |-> 0, epoch |-> 0, creds |-> 0]
Purged == [gate |-> 0, keys |-> 0]

Unborn == [pc |-> "unborn", epoch |-> 0, fenced |-> FALSE, version |-> 0, creds |-> 0,
           entries |-> 0, down |-> FALSE, timer |-> FALSE]
Idle == [kind |-> "none", pc |-> "idle", expected |-> 0, tries |-> 0, sealed |-> 0]

Saves == {"live", "open", "flush"}

Init ==
    /\ lease = [fence |-> 0, owned |-> FALSE]
    /\ epoch = 1 /\ row = Absent /\ signal = Purged /\ updates = 0
    /\ store = [f \in Fences |-> Unborn]
    /\ waiting = [f \in Fences |-> {}]
    /\ op = [f \in Fences |-> Idle]

\* The EXISTS of every statement that writes, and the second of the upserts.
Owns(f) == lease = [fence |-> f, owned |-> TRUE]
MayWrite(f) == Owns(f) /\ store[f].epoch = epoch

Released(f) == [lease EXCEPT !.owned = @ /\ lease.fence # f]

-----------------------------------------------------------------------------
(* The runner. *)

Mint(f) ==
    /\ f = lease.fence + 1
    /\ lease' = [fence |-> f, owned |-> TRUE]
    /\ store' = [store EXCEPT ![f].pc = "minted"]
    /\ UNCHANGED <<epoch, row, signal, waiting, op, updates>>

\* start, with the session epoch it reads.
Start(f) ==
    /\ store[f].pc = "minted"
    /\ store' = [store EXCEPT ![f].pc = "started", ![f].epoch = epoch]
    /\ UNCHANGED <<db, waiting, op, updates>>

\* seedCredVersionOnceIfNeeded.
Seed(f) ==
    /\ store[f].pc = "started"
    /\ store' = [store EXCEPT ![f].pc = "seeded", ![f].version = row.version]
    /\ UNCHANGED <<db, waiting, op, updates>>

\* loadCreds or initAuthCreds, and the socket.
Load(f) ==
    /\ store[f].pc = "seeded"
    /\ store' = [store EXCEPT ![f].pc = "live", ![f].creds = row.creds]
    /\ UNCHANGED <<db, waiting, op, updates>>

\* teardown: its flush unless Postgres is known to be down, and dispose.
TornDown(s) == [s EXCEPT !.pc = "torn", !.timer = FALSE]
TeardownFlush(s) ==
    IF s.entries > 0 /\ ~s.down THEN {[kind |-> "flush", expected |-> s.version]} ELSE {}

Teardown(f, s) ==
    /\ store' = [store EXCEPT ![f] = TornDown(s)]
    /\ waiting' = [waiting EXCEPT ![f] = @ \cup TeardownFlush(s)]

\* Drain, sweep, a lost lease: with a release or without.
Stop(f) ==
    /\ store[f].pc = "live"
    /\ Teardown(f, store[f])
    /\ lease' \in {lease, Released(f)}
    /\ UNCHANGED <<epoch, row, signal, op, updates>>

Crash(f) ==
    /\ store[f].pc # "unborn"
    /\ store' = [store EXCEPT ![f] = [Unborn EXCEPT !.pc = "torn", !.fenced = TRUE,
                                                          !.epoch = store[f].epoch]]
    /\ waiting' = [waiting EXCEPT ![f] = {}]
    /\ op' = [op EXCEPT ![f] = Idle]
    /\ UNCHANGED <<db, updates>>

-----------------------------------------------------------------------------
(* What asks for a write. *)

Pushed(s) ==
    [s EXCEPT !.entries = IF @ < BufferMax THEN @ + 1 ELSE @, !.down = TRUE, !.timer = TRUE]

Enqueue(f, kind) ==
    waiting' = [waiting EXCEPT ![f] = @ \cup {[kind |-> kind, expected |-> store[f].version]}]

\* creds.update: save, which does not try while Postgres is known to be down.
Update(f) ==
    LET s == [store[f] EXCEPT !.creds = updates + 1]
    IN /\ store[f].pc \in {"live", "torn"} /\ updates < MaxUpdates
       /\ updates' = updates + 1
       /\ store' = [store EXCEPT ![f] = IF s.down THEN Pushed(s) ELSE s]
       /\ IF s.down THEN UNCHANGED waiting ELSE Enqueue(f, "live")
       /\ UNCHANGED <<db, op>>

\* onOpen, a write of Signal keys, runLoggedOutFlow.
Ask(f, kind) ==
    /\ store[f].pc = "live"
    /\ Enqueue(f, kind)
    /\ UNCHANGED <<db, store, op, updates>>

\* The retry timer, and flush.
TimerFires(f) ==
    /\ store[f].timer
    /\ store' = [store EXCEPT ![f].timer = FALSE]
    /\ IF store[f].entries > 0 THEN Enqueue(f, "flush") ELSE UNCHANGED waiting
    /\ UNCHANGED <<db, op, updates>>

-----------------------------------------------------------------------------
(* How a write ends for its caller. *)

\* Nothing follows but for the buffer and the runner.
Done(f) == op' = [op EXCEPT ![f] = Idle]

\* A flush that is through empties the buffer.
Saved(s, kind, version) ==
    IF kind = "flush" THEN [s EXCEPT !.version = version, !.entries = 0, !.down = FALSE]
    ELSE [s EXCEPT !.version = version]

Succeeds(f, version) ==
    /\ Done(f)
    /\ store' = [store EXCEPT ![f] = Saved(store[f], op[f].kind, version)]
    /\ UNCHANGED waiting

\* An error that says that Postgres is unavailable.
Unavailable(f) ==
    /\ Done(f)
    /\ CASE op[f].kind = "live" ->
              store' = [store EXCEPT ![f] = Pushed(store[f])] /\ UNCHANGED waiting
         [] op[f].kind = "flush" ->
              store' = [store EXCEPT ![f].timer = TRUE] /\ UNCHANGED waiting
         [] op[f].kind = "open" -> Teardown(f, store[f])
         [] OTHER -> UNCHANGED <<store, waiting>>

\* A flush that fails otherwise ends the outage for the buffer.
Failed(s, kind) == [s EXCEPT !.down = s.down /\ kind # "flush"]

\* Any other error.  A live save or a flush leaves a fenced store alone.
Rejects(f, kind, s, fenced) ==
    LET t == Failed(s, kind)
    IN CASE kind \in {"live", "flush"} /\ fenced ->
              store' = [store EXCEPT ![f] = t] /\ UNCHANGED waiting
         [] kind \in {"live", "flush"} /\ ~fenced -> Teardown(f, t)
         [] kind = "open" -> Teardown(f, t)
         [] OTHER -> UNCHANGED <<store, waiting>>

Errs(f) == Unavailable(f) \/ (Done(f) /\ Rejects(f, op[f].kind, store[f], FALSE))

Fenced(s, kind) == [TornDown(Failed(s, kind)) EXCEPT !.fenced = TRUE]

\* selfFence: teardown without release, then the release, then the error.
SelfFence(f) ==
    /\ lease' = Released(f)
    /\ Done(f)
    /\ store' = [store EXCEPT ![f] = Fenced(store[f], op[f].kind)]
    /\ waiting' = [waiting EXCEPT ![f] = @ \cup TeardownFlush(store[f])]

-----------------------------------------------------------------------------
(* The chain. *)

\* assertNotFenced, and the first statement is on its way.
Begin(f, w) ==
    /\ op[f] = Idle /\ w \in waiting[f] /\ ~store[f].fenced
    /\ waiting' = [waiting EXCEPT ![f] = @ \ {w}]
    /\ op' = [op EXCEPT ![f] = [kind |-> w.kind, pc |-> "write", expected |-> w.expected,
                                tries |-> 0, sealed |-> store[f].creds]]
    /\ UNCHANGED <<db, store, updates>>

\* StoreFencedError.
Refuse(f, w) ==
    /\ op[f] = Idle /\ w \in waiting[f] /\ store[f].fenced
    /\ waiting' = [waiting EXCEPT ![f] = @ \ {w}]
    /\ store' = [store EXCEPT ![f] =
         IF w.kind = "open" THEN TornDown(store[f]) ELSE Failed(store[f], w.kind)]
    /\ UNCHANGED <<db, op, updates>>

At(f, kinds, pc) == op[f].kind \in kinds /\ op[f].pc = pc

\* session-creds-upsert.
Lands(f) == MayWrite(f) /\ (row.there => row.version = op[f].expected /\ row.owner <= f)
Upserted(f) ==
    [there |-> TRUE, version |-> row.version + 1, owner |-> f, epoch |-> store[f].epoch,
     creds |-> op[f].sealed]

SaveCreds(f) ==
    /\ At(f, Saves, "write")
    /\ IF Lands(f)
       THEN row' = Upserted(f) /\ Succeeds(f, row.version + 1)
       ELSE op' = [op EXCEPT ![f].pc = "classify"] /\ UNCHANGED <<row, store, waiting>>
    /\ UNCHANGED <<lease, epoch, signal, updates>>

\* Its statement fails, with or without effect, or the two that may follow do.
SaveCredsErrs(f) ==
    /\ At(f, Saves, "write") \/ At(f, Saves, "classify") \/ At(f, Saves, "reload")
    /\ row' = row \/ (At(f, Saves, "write") /\ Lands(f) /\ row' = Upserted(f))
    /\ Errs(f)
    /\ UNCHANGED <<lease, epoch, signal, updates>>

\* classifyWriteMiss: a conflict of fence or epoch, or of the version.
ClassifyWriteMiss(f) ==
    /\ At(f, Saves, "classify")
    /\ CASE ~MayWrite(f) -> SelfFence(f)
         [] MayWrite(f) /\ op[f].tries + 1 < MaxTries ->
              /\ op' = [op EXCEPT ![f].pc = "reload", ![f].tries = @ + 1]
              /\ UNCHANGED <<lease, store, waiting>>
         [] OTHER ->
              /\ Done(f) /\ Rejects(f, op[f].kind, store[f], FALSE)
              /\ UNCHANGED lease
    /\ UNCHANGED <<epoch, row, signal, updates>>

\* The version is loaded and what is in memory is sealed again.
Reload(f) ==
    /\ At(f, Saves, "reload")
    /\ op' = [op EXCEPT ![f].pc = "write", ![f].expected = row.version,
                        ![f].sealed = store[f].creds]
    /\ UNCHANGED <<db, store, waiting, updates>>

\* runSetKeys: the check before, in Postgres.
CheckKeys(f) ==
    /\ At(f, {"keys"}, "write")
    /\ IF MayWrite(f)
       THEN op' = [op EXCEPT ![f].pc = "redis"] /\ UNCHANGED <<lease, store, waiting>>
       ELSE SelfFence(f)
    /\ UNCHANGED <<epoch, row, signal, updates>>

\* fence-gate-write.
SetKeys(f) ==
    /\ At(f, {"keys"}, "redis")
    /\ IF signal.gate > f
       THEN SelfFence(f) /\ UNCHANGED signal
       ELSE /\ signal' = [gate |-> f, keys |-> f]
            /\ Done(f) /\ UNCHANGED <<lease, store, waiting>>
    /\ UNCHANGED <<epoch, row, updates>>

\* runPurge's transaction.  Whether there were durable keys is left open.
PurgeCommits(f) ==
    /\ At(f, {"purge"}, "write")
    /\ IF Owns(f)
       THEN /\ row' = Absent
            /\ epoch' = epoch + 1 \/ (~row.there /\ epoch' = epoch)
            /\ op' = [op EXCEPT ![f].pc = "redis"]
            /\ UNCHANGED <<lease, store, waiting>>
       ELSE SelfFence(f) /\ UNCHANGED <<row, epoch>>
    /\ UNCHANGED <<signal, updates>>

\* purgeInstance, and markPurged.
PurgeDeletes(f) ==
    /\ At(f, {"purge"}, "redis")
    /\ signal' = Purged
    /\ store' = [store EXCEPT ![f].fenced = TRUE]
    /\ Done(f)
    /\ UNCHANGED <<lease, epoch, row, waiting, updates>>

\* A statement or command of keys or of a purge fails, with or without effect.
OtherErrs(f) ==
    /\ At(f, {"keys", "purge"}, op[f].pc)
    /\ Done(f)
    /\ \/ UNCHANGED <<epoch, row, signal>>
       \/ /\ At(f, {"purge"}, "write") /\ Owns(f) /\ row' = Absent /\ epoch' = epoch + 1
          /\ UNCHANGED signal
       \/ /\ At(f, {"purge"}, "redis") /\ signal' = Purged /\ UNCHANGED <<epoch, row>>
       \/ /\ At(f, {"keys"}, "redis") /\ signal.gate <= f
          /\ signal' = [gate |-> f, keys |-> f] /\ UNCHANGED <<epoch, row>>
    /\ UNCHANGED <<lease, store, waiting, updates>>

-----------------------------------------------------------------------------
Runs(f) ==
    \/ Mint(f) \/ Start(f) \/ Seed(f) \/ Load(f) \/ Stop(f) \/ Crash(f)
    \/ Update(f) \/ TimerFires(f) \/ \E kind \in {"open", "keys", "purge"} : Ask(f, kind)

Writes(f) ==
    \/ \E w \in waiting[f] : Begin(f, w) \/ Refuse(f, w)
    \/ SaveCreds(f) \/ SaveCredsErrs(f) \/ ClassifyWriteMiss(f) \/ Reload(f)
    \/ CheckKeys(f) \/ SetKeys(f) \/ PurgeCommits(f) \/ PurgeDeletes(f) \/ OtherErrs(f)

Next == \E f \in Fences : Runs(f) \/ Writes(f)

Spec == Init /\ [][Next]_vars

-----------------------------------------------------------------------------
\* A save that has met another version and loaded it never meets another one:
\* whatever saves, flushes and owners there are, the one retry lands or finds
\* the store superseded, and CredsSaveExhaustedError is never thrown.
RetryIsEnough == \A f \in Fences : op[f].tries <= 1

\* While a runner lives and its buffer takes every save, a timer or a flush is
\* there to end that: no outage leaves the saves of a session buffered for ever.
BufferedIsRetried ==
    \A f \in Fences : store[f].pc = "live" /\ store[f].down =>
        \/ store[f].timer \/ op[f].kind = "flush"
        \/ \E w \in waiting[f] : w.kind = "flush"

\* The credentials of a session that was purged do not come back: a row is of
\* the epoch of the instance, and of an owner it has had by then.
PurgeIsFinal ==
    row.there => row.epoch = epoch /\ row.owner <= lease.fence /\ row.owner \in Fences

(* What the repository says of the store and the code does not do. *)

\* creds-save-buffer.ts:6-7: what is in memory and not in the row is in the
\* buffer, or a save of it is to come.
NothingLost ==
    \A f \in Fences :
        /\ store[f].pc = "live" /\ ~store[f].fenced /\ Owns(f)
        /\ row.there /\ store[f].creds # row.creds
        => \/ store[f].entries > 0 \/ op[f].kind \in Saves
           \/ \E w \in waiting[f] : w.kind \in Saves

\* store-purge.ts:50-55: a session that starts finds no Signal keys of an epoch
\* that was purged.
PurgedKeysAreGone ==
    [][\A f \in Fences : store[f].pc = "seeded" /\ store'[f].pc = "live" =>
         signal.keys = 0 \/ store[signal.keys].epoch = store[f].epoch]_vars
=============================================================================
