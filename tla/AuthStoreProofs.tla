-------------------------- MODULE AuthStoreProofs ---------------------------
(***************************************************************************)
(* The auth stores, for any number of owners, saves and failures.  Each of *)
(* the three theorems needs of the others' steps only what Frame and       *)
(* Shared say: a step of one store leaves the others as they are, a lease  *)
(* that was lost stays lost, and a row is written by the lease's owner.    *)
(*                                                                         *)
(* The last part is about ConnectBudget, the gates that a session passes   *)
(* before a store is made for it: the rate of connects, for any number of  *)
(* workers, takers and rates.                                              *)
(***************************************************************************)
EXTENDS AuthStore, Sequences, TLAPS

Kinds == Saves \cup {"keys", "purge"}

Stores == [pc : {"unborn", "minted", "started", "seeded", "live", "torn"}, epoch : Nat,
           fenced : BOOLEAN, version : Nat, creds : Nat, entries : Nat,
           down : BOOLEAN, timer : BOOLEAN]
Requests == [kind : Kinds, expected : Nat]
Ops == [kind : Kinds \cup {"none"}, pc : {"idle", "write", "classify", "reload", "redis"},
        expected : Nat, tries : Nat, sealed : Nat]

TypeOK ==
    /\ lease \in [fence : Nat, owned : BOOLEAN]
    /\ epoch \in Nat /\ updates \in Nat
    /\ row \in [there : BOOLEAN, version : Nat, owner : Nat, epoch : Nat, creds : Nat]
    /\ signal \in [gate : Nat, keys : Nat]
    /\ store \in [Fences -> Stores]
    /\ waiting \in [Fences -> SUBSET Requests]
    /\ op \in [Fences -> Ops]

\* What a step of f leaves alone.
Frame(f) ==
    \A g \in Fences \ {f} :
        store'[g] = store[g] /\ op'[g] = op[g] /\ waiting'[g] = waiting[g]

-----------------------------------------------------------------------------
(* Types and frames. *)

LEMMA Blanks == Unborn \in Stores /\ Idle \in Ops
  BY DEF Unborn, Idle, Stores, Ops

LEMMA AuthInit == Init => TypeOK
  BY Blanks DEF Init, TypeOK, Absent, Purged

LEMMA PushedTypes ==
    ASSUME AuthAssumption, NEW s \in Stores
    PROVE  Pushed(s) \in Stores
<1>. DEFINE e == IF s.entries < BufferMax THEN s.entries + 1 ELSE s.entries
<1>1. e \in Nat
  BY DEF AuthAssumption, Stores
<1>2. Pushed(s) = [s EXCEPT !.entries = e, !.down = TRUE, !.timer = TRUE]
  BY DEF Pushed
<1>. HIDE DEF e
<1>. QED  BY <1>1, <1>2 DEF Stores

LEMMA TornDownTypes == ASSUME NEW s \in Stores PROVE TornDown(s) \in Stores
  BY DEF TornDown, Stores

LEMMA TeardownFlushTypes ==
    ASSUME NEW s \in Stores
    PROVE  TeardownFlush(s) \in SUBSET Requests
  BY DEF TeardownFlush, Stores, Requests, Kinds, Saves

\* How the writes end that end with an error.
Ends(f) == Errs(f) \/ SelfFence(f) \/ (Done(f) /\ Rejects(f, op[f].kind, store[f], FALSE))

LEMMA EndTypes ==
    ASSUME AuthAssumption, TypeOK, NEW f \in Fences, Ends(f)
    PROVE  /\ \E s \in Stores : store' = [store EXCEPT ![f] = s]
           /\ \E w \in SUBSET Requests : waiting' = [waiting EXCEPT ![f] = w]
           /\ op' = [op EXCEPT ![f] = Idle]
<1>1. store[f] \in Stores /\ waiting[f] \in SUBSET Requests
  BY DEF TypeOK
<1>. DEFINE Torn(s) == /\ store' = [store EXCEPT ![f] = TornDown(s)]
                       /\ waiting' = [waiting EXCEPT ![f] = @ \cup TeardownFlush(s)]
<1>2. ASSUME NEW s \in Stores, Torn(s)
      PROVE  /\ \E t \in Stores : store' = [store EXCEPT ![f] = t]
             /\ \E w \in SUBSET Requests : waiting' = [waiting EXCEPT ![f] = w]
  <2>1. TornDown(s) \in Stores /\ waiting[f] \cup TeardownFlush(s) \in SUBSET Requests
    BY <1>1, TornDownTypes, TeardownFlushTypes
  <2>. QED  BY <1>2, <2>1
<1>3. ASSUME store' = store /\ waiting' = waiting
      PROVE  /\ \E s \in Stores : store' = [store EXCEPT ![f] = s]
             /\ \E w \in SUBSET Requests : waiting' = [waiting EXCEPT ![f] = w]
  <2>1. store' = [store EXCEPT ![f] = store[f]] /\ waiting' = [waiting EXCEPT ![f] = waiting[f]]
    BY <1>3 DEF TypeOK
  <2>. QED  BY <1>1, <2>1
<1>4. op' = [op EXCEPT ![f] = Idle]
  BY DEF Ends, Errs, Unavailable, SelfFence, Done
<1>5. CASE Unavailable(f)
  <2>1. Pushed(store[f]) \in Stores /\ [store[f] EXCEPT !.timer = TRUE] \in Stores
    BY <1>1, PushedTypes DEF Stores
  <2>2. waiting' = waiting => waiting' = [waiting EXCEPT ![f] = waiting[f]]
    BY DEF TypeOK
  <2>3. CASE op[f].kind = "open"
    BY <1>1, <1>2, <1>4, <1>5, <2>3 DEF Unavailable, Teardown
  <2>4. CASE op[f].kind \in {"live", "flush"}
    BY <1>1, <1>4, <1>5, <2>1, <2>2, <2>4 DEF Unavailable
  <2>5. CASE op[f].kind \notin {"open", "live", "flush"}
    BY <1>3, <1>4, <1>5, <2>5 DEF Unavailable
  <2>. QED  BY <2>3, <2>4, <2>5
<1>6. CASE Rejects(f, op[f].kind, store[f], FALSE)
  <2>. DEFINE t == Failed(store[f], op[f].kind)
  <2>1. t \in Stores
    BY <1>1 DEF Failed, Stores
  <2>2. Torn(t) \/ (store' = store /\ waiting' = waiting)
    BY <1>6 DEF Rejects, Teardown
  <2>. HIDE DEF t
  <2>. QED  BY <1>2, <1>3, <1>4, <2>1, <2>2
<1>7. CASE SelfFence(f)
  <2>. DEFINE t == Fenced(store[f], op[f].kind)
  <2>1. t \in Stores
    BY <1>1 DEF Fenced, Failed, TornDown, Stores
  <2>2. store' = [store EXCEPT ![f] = t]
    BY <1>7 DEF SelfFence
  <2>3. waiting[f] \cup TeardownFlush(store[f]) \in SUBSET Requests
    BY <1>1, TeardownFlushTypes
  <2>4. waiting' = [waiting EXCEPT ![f] = waiting[f] \cup TeardownFlush(store[f])]
    BY <1>7 DEF SelfFence
  <2>. HIDE DEF t
  <2>. QED  BY <1>4, <2>1, <2>2, <2>3, <2>4
<1>. QED  BY <1>5, <1>6, <1>7 DEF Ends, Errs

-----------------------------------------------------------------------------
(* Every step changes one store. *)

LEMMA StoreMoves ==
    ASSUME AuthAssumption, TypeOK, NEW f \in Fences, Runs(f) \/ Writes(f)
    PROVE  \E s \in Stores : store' = [store EXCEPT ![f] = s]
<1>1. store[f] \in Stores /\ store = [store EXCEPT ![f] = store[f]]
  BY DEF TypeOK
<1>2. epoch \in Nat /\ updates \in Nat /\ row.version \in Nat /\ row.creds \in Nat
  BY DEF TypeOK
<1>3. ASSUME store' = store PROVE \E s \in Stores : store' = [store EXCEPT ![f] = s]
  BY <1>1, <1>3
<1>. DEFINE Put(s) == s \in Stores /\ store' = [store EXCEPT ![f] = s]
<1>4. CASE Mint(f)
  <2>1. Put([store[f] EXCEPT !.pc = "minted"])
    BY <1>1, <1>4 DEF Mint, Stores
  <2>. QED  BY <2>1
<1>5. CASE Start(f)
  <2>1. Put([store[f] EXCEPT !.pc = "started", !.epoch = epoch])
    BY <1>1, <1>2, <1>5 DEF Start, Stores
  <2>. QED  BY <2>1
<1>6. CASE Seed(f)
  <2>1. Put([store[f] EXCEPT !.pc = "seeded", !.version = row.version])
    BY <1>1, <1>2, <1>6 DEF Seed, Stores
  <2>. QED  BY <2>1
<1>7. CASE Load(f)
  <2>1. Put([store[f] EXCEPT !.pc = "live", !.creds = row.creds])
    BY <1>1, <1>2, <1>7 DEF Load, Stores
  <2>. QED  BY <2>1
<1>8. CASE Stop(f)
  BY <1>1, <1>8, TornDownTypes DEF Stop, Teardown
<1>9. CASE Crash(f)
  <2>1. Put([Unborn EXCEPT !.pc = "torn", !.fenced = TRUE, !.epoch = store[f].epoch])
    BY <1>1, <1>9 DEF Crash, Unborn, Stores
  <2>. QED  BY <2>1
<1>10. CASE Update(f)
  <2>. DEFINE s == [store[f] EXCEPT !.creds = updates + 1]
  <2>1. s \in Stores
    BY <1>1, <1>2 DEF Stores
  <2>2. store' = [store EXCEPT ![f] = IF s.down THEN Pushed(s) ELSE s]
    BY <1>10 DEF Update
  <2>. HIDE DEF s
  <2>. QED  BY <2>1, <2>2, PushedTypes
<1>11. CASE TimerFires(f)
  <2>1. Put([store[f] EXCEPT !.timer = FALSE])
    BY <1>1, <1>11 DEF TimerFires, Stores
  <2>. QED  BY <2>1
<1>12. CASE \E w \in waiting[f] : Refuse(f, w)
  <2>1. PICK w \in waiting[f] : Refuse(f, w)
    BY <1>12
  <2>2. Failed(store[f], w.kind) \in Stores
    BY <1>1 DEF Failed, Stores
  <2>. QED  BY <1>1, <2>1, <2>2, TornDownTypes DEF Refuse
<1>13. CASE SaveCreds(f)
  <2>. DEFINE s == Saved(store[f], op[f].kind, row.version + 1)
  <2>1. CASE Lands(f)
    <3>1. row.version + 1 \in Nat
      BY <1>2
    <3>2. s \in Stores
      BY <1>1, <3>1 DEF Saved, Stores
    <3>3. store' = [store EXCEPT ![f] = s]
      BY <1>13, <2>1 DEF SaveCreds, Succeeds
    <3>. HIDE DEF s
    <3>. QED  BY <3>2, <3>3
  <2>2. CASE ~Lands(f)
    BY <1>3, <1>13, <2>2 DEF SaveCreds
  <2>. QED  BY <2>1, <2>2
<1>14. CASE PurgeDeletes(f)
  <2>1. Put([store[f] EXCEPT !.fenced = TRUE])
    BY <1>1, <1>14 DEF PurgeDeletes, Stores
  <2>. QED  BY <2>1
<1>15. CASE Ends(f)
  BY <1>15, EndTypes
<1>16. CASE \/ \E kind \in {"open", "keys", "purge"} : Ask(f, kind)
            \/ \E w \in waiting[f] : Begin(f, w)
            \/ Reload(f) \/ OtherErrs(f)
  BY <1>3, <1>16 DEF Ask, Begin, Reload, OtherErrs
<1>17. CASE SaveCredsErrs(f)
  BY <1>15, <1>17 DEF SaveCredsErrs, Ends
<1>18. CASE ClassifyWriteMiss(f) \/ CheckKeys(f) \/ SetKeys(f) \/ PurgeCommits(f)
  <2>1. Ends(f) \/ store' = store
    BY <1>18 DEF ClassifyWriteMiss, CheckKeys, SetKeys, PurgeCommits, Ends
  <2>. QED  BY <1>3, <1>15, <2>1
<1>. QED
  BY <1>4, <1>5, <1>6, <1>7, <1>8, <1>9, <1>10, <1>11, <1>12, <1>13, <1>14, <1>16, <1>17, <1>18
     DEF Runs, Writes

LEMMA WaitingMoves ==
    ASSUME AuthAssumption, TypeOK, NEW f \in Fences, Runs(f) \/ Writes(f)
    PROVE  \E w \in SUBSET Requests : waiting' = [waiting EXCEPT ![f] = w]
<1>1. store[f] \in Stores /\ waiting[f] \in SUBSET Requests
  BY DEF TypeOK
<1>. DEFINE Put(w) == w \in SUBSET Requests /\ waiting' = [waiting EXCEPT ![f] = w]
<1>2. ASSUME waiting' = waiting PROVE \E w \in SUBSET Requests : Put(w)
  BY <1>1, <1>2 DEF TypeOK
<1>3. ASSUME NEW kind \in Kinds, Enqueue(f, kind) PROVE \E w \in SUBSET Requests : Put(w)
  <2>1. [kind |-> kind, expected |-> store[f].version] \in Requests
    BY <1>1 DEF Stores, Requests
  <2>. QED  BY <1>1, <1>3, <2>1 DEF Enqueue
<1>4. CASE Stop(f)
  BY <1>1, <1>4, TeardownFlushTypes DEF Stop, Teardown
<1>5. CASE Crash(f)
  BY <1>5 DEF Crash
<1>6. CASE Update(f) \/ TimerFires(f) \/ \E kind \in {"open", "keys", "purge"} : Ask(f, kind)
  <2>1. waiting' = waiting \/ \E kind \in Kinds : Enqueue(f, kind)
    BY <1>6 DEF Update, TimerFires, Ask, Kinds, Saves
  <2>. QED  BY <1>2, <1>3, <2>1
<1>7. CASE \E w \in waiting[f] : Begin(f, w) \/ Refuse(f, w)
  BY <1>1, <1>7 DEF Begin, Refuse
<1>8. CASE Ends(f)
  BY <1>8, EndTypes
<1>9. CASE \/ Mint(f) \/ Start(f) \/ Seed(f) \/ Load(f)
           \/ Reload(f) \/ PurgeDeletes(f) \/ OtherErrs(f)
  BY <1>2, <1>9 DEF Mint, Start, Seed, Load, Reload, PurgeDeletes, OtherErrs
<1>10. CASE SaveCreds(f) \/ SaveCredsErrs(f)
  <2>1. Ends(f) \/ waiting' = waiting
    BY <1>10 DEF SaveCreds, SaveCredsErrs, Succeeds, Ends
  <2>. QED  BY <1>2, <1>8, <2>1
<1>11. CASE ClassifyWriteMiss(f) \/ CheckKeys(f) \/ SetKeys(f) \/ PurgeCommits(f)
  <2>1. Ends(f) \/ waiting' = waiting
    BY <1>11 DEF ClassifyWriteMiss, CheckKeys, SetKeys, PurgeCommits, Ends
  <2>. QED  BY <1>2, <1>8, <2>1
<1>. QED
  BY <1>4, <1>5, <1>6, <1>7, <1>9, <1>10, <1>11 DEF Runs, Writes

LEMMA OpMoves ==
    ASSUME AuthAssumption, TypeOK, NEW f \in Fences, Runs(f) \/ Writes(f)
    PROVE  \E o \in Ops : op' = [op EXCEPT ![f] = o]
<1>1. op[f] \in Ops /\ store[f] \in Stores /\ waiting[f] \in SUBSET Requests /\ row.version \in Nat
  BY DEF TypeOK
<1>. DEFINE Put(o) == o \in Ops /\ op' = [op EXCEPT ![f] = o]
<1>2. ASSUME op' = op PROVE \E o \in Ops : Put(o)
  BY <1>1, <1>2 DEF TypeOK
<1>3. ASSUME op' = [op EXCEPT ![f] = Idle] PROVE \E o \in Ops : Put(o)
  BY <1>3, Blanks
<1>4. CASE Runs(f)
  BY <1>2, <1>3, <1>4 DEF Runs, Mint, Start, Seed, Load, Stop, Crash, Update, TimerFires, Ask
<1>5. CASE \E w \in waiting[f] : Begin(f, w)
  <2>1. PICK w \in waiting[f] : Begin(f, w)
    BY <1>5
  <2>2. Put([kind |-> w.kind, pc |-> "write", expected |-> w.expected, tries |-> 0,
             sealed |-> store[f].creds])
    BY <1>1, <2>1 DEF Begin, Requests, Ops, Stores
  <2>. QED  BY <2>2
<1>6. CASE Ends(f)
  BY <1>3, <1>6, EndTypes
<1>7. ASSUME NEW pc \in {"classify", "redis"}, op' = [op EXCEPT ![f].pc = pc]
      PROVE  \E o \in Ops : Put(o)
  <2>1. Put([op[f] EXCEPT !.pc = pc])
    BY <1>1, <1>7 DEF Ops
  <2>. QED  BY <2>1
<1>8. CASE ClassifyWriteMiss(f)
  <2>1. Ends(f) \/ op' = [op EXCEPT ![f].pc = "reload", ![f].tries = @ + 1]
    BY <1>8 DEF ClassifyWriteMiss, Ends
  <2>2. ASSUME op' = [op EXCEPT ![f].pc = "reload", ![f].tries = @ + 1] PROVE \E o \in Ops : Put(o)
    <3>1. op[f].tries + 1 \in Nat
      BY <1>1 DEF Ops
    <3>. DEFINE n == op[f].tries + 1
    <3>2. op' = [op EXCEPT ![f].pc = "reload", ![f].tries = n]
      BY <1>1, <2>2
    <3>. HIDE DEF n
    <3>3. Put([op[f] EXCEPT !.pc = "reload", !.tries = n])
      BY <1>1, <3>1, <3>2 DEF Ops, n
    <3>. QED  BY <3>3
  <2>. QED  BY <1>6, <2>1, <2>2
<1>9. CASE Reload(f)
  <2>1. Put([op[f] EXCEPT !.pc = "write", !.expected = row.version, !.sealed = store[f].creds])
    BY <1>1, <1>9 DEF Reload, Ops, Stores
  <2>. QED  BY <2>1
<1>10. CASE SaveCreds(f)
  BY <1>3, <1>7, <1>10 DEF SaveCreds, Succeeds, Done
<1>11. CASE CheckKeys(f) \/ SetKeys(f) \/ PurgeCommits(f)
  <2>1. Ends(f) \/ op' = [op EXCEPT ![f].pc = "redis"] \/ op' = [op EXCEPT ![f] = Idle]
    BY <1>11 DEF CheckKeys, SetKeys, PurgeCommits, Ends, Done
  <2>. QED  BY <1>3, <1>6, <1>7, <2>1
<1>12. CASE SaveCredsErrs(f) \/ PurgeDeletes(f) \/ OtherErrs(f)
            \/ \E w \in waiting[f] : Refuse(f, w)
  <2>1. Ends(f) \/ op' = op \/ op' = [op EXCEPT ![f] = Idle]
    BY <1>12 DEF SaveCredsErrs, PurgeDeletes, OtherErrs, Refuse, Ends, Done
  <2>. QED  BY <1>2, <1>3, <1>6, <2>1
<1>. QED
  BY <1>4, <1>5, <1>8, <1>9, <1>10, <1>11, <1>12 DEF Writes

\* What a step of f may do to the lease, the row and the epoch.
Shared(f) ==
    /\ \/ lease'.fence = lease.fence /\ (lease'.owned => lease.owned)
       \/ Mint(f)
    /\ epoch' \in Nat /\ epoch <= epoch'
    /\ \/ row' = row /\ epoch' = epoch
       \/ row' = Absent
       \/ Lands(f) /\ row' = Upserted(f) /\ lease' = lease /\ epoch' = epoch

LEMMA SharedMoves ==
    ASSUME AuthAssumption, TypeOK, NEW f \in Fences, Runs(f) \/ Writes(f)
    PROVE  Shared(f)
<1>1. lease \in [fence : Nat, owned : BOOLEAN] /\ epoch \in Nat
  BY DEF TypeOK
<1>2. epoch + 1 \in Nat /\ epoch <= epoch + 1
  BY <1>1
<1>3. Released(f).fence = lease.fence /\ (Released(f).owned => lease.owned)
  BY <1>1 DEF Released
<1>4. CASE Runs(f)
  BY <1>1, <1>3, <1>4
     DEF Runs, Shared, Mint, Start, Seed, Load, Stop, Crash, Update, TimerFires, Ask, db
<1>5. CASE \E w \in waiting[f] : Begin(f, w) \/ Refuse(f, w)
  BY <1>1, <1>5 DEF Shared, Begin, Refuse, db
<1>6. CASE SaveCreds(f) \/ SaveCredsErrs(f)
  BY <1>1, <1>6 DEF Shared, SaveCreds, SaveCredsErrs
<1>7. CASE ClassifyWriteMiss(f) \/ CheckKeys(f) \/ SetKeys(f) \/ PurgeCommits(f)
  <2>1. (lease' = lease \/ lease' = Released(f)) /\ (row' = row \/ row' = Absent)
        /\ (epoch' = epoch \/ epoch' = epoch + 1) /\ (epoch' = epoch \/ row' = Absent)
    BY <1>7 DEF ClassifyWriteMiss, CheckKeys, SetKeys, PurgeCommits, SelfFence
  <2>. QED  BY <1>1, <1>2, <1>3, <2>1 DEF Shared
<1>8. CASE Reload(f) \/ PurgeDeletes(f) \/ OtherErrs(f)
  <2>1. lease' = lease /\ (row' = row \/ row' = Absent)
        /\ (epoch' = epoch \/ epoch' = epoch + 1) /\ (epoch' = epoch \/ row' = Absent)
    BY <1>8 DEF Reload, PurgeDeletes, OtherErrs, db
  <2>. QED  BY <1>1, <1>2, <2>1 DEF Shared
<1>. QED  BY <1>4, <1>5, <1>6, <1>7, <1>8 DEF Writes

LEMMA SharedTypes ==
    ASSUME AuthAssumption, TypeOK, NEW f \in Fences, Runs(f) \/ Writes(f)
    PROVE  /\ lease' \in [fence : Nat, owned : BOOLEAN] /\ epoch' \in Nat /\ updates' \in Nat
           /\ row' \in [there : BOOLEAN, version : Nat, owner : Nat, epoch : Nat, creds : Nat]
           /\ signal' \in [gate : Nat, keys : Nat]
<1>1. f \in Nat /\ lease \in [fence : Nat, owned : BOOLEAN] /\ updates \in Nat
      /\ row \in [there : BOOLEAN, version : Nat, owner : Nat, epoch : Nat, creds : Nat]
      /\ signal \in [gate : Nat, keys : Nat] /\ store[f] \in Stores /\ op[f] \in Ops
  BY DEF AuthAssumption, TypeOK
<1>2. Shared(f)
  BY SharedMoves
<1>3. lease' \in [fence : Nat, owned : BOOLEAN]
  <2>1. Mint(f) \/ lease' = lease \/ lease' = Released(f)
    BY DEF Runs, Start, Seed, Load, Stop, Crash, Update, TimerFires, Ask, db, Writes, Begin, Refuse,
           SaveCreds, SaveCredsErrs, ClassifyWriteMiss, Reload, CheckKeys, SetKeys, PurgeCommits,
           PurgeDeletes, OtherErrs, SelfFence
  <2>2. Released(f) \in [fence : Nat, owned : BOOLEAN]
    <3>. DEFINE b == lease.owned /\ lease.fence # f
    <3>1. b \in BOOLEAN /\ Released(f) = [lease EXCEPT !.owned = b]
      BY DEF Released
    <3>. HIDE DEF b
    <3>. QED  BY <1>1, <3>1
  <2>3. Mint(f) => lease' \in [fence : Nat, owned : BOOLEAN]
    BY <1>1 DEF Mint
  <2>. QED  BY <1>1, <2>1, <2>2, <2>3
<1>4. updates' \in Nat
  <2>1. updates' = updates \/ updates' = updates + 1
    BY DEF Runs, Mint, Start, Seed, Load, Stop, Crash, Update, TimerFires, Ask, Writes, Begin, Refuse,
           SaveCreds, SaveCredsErrs, ClassifyWriteMiss, Reload, CheckKeys, SetKeys, PurgeCommits,
           PurgeDeletes, OtherErrs
  <2>. QED  BY <1>1, <2>1
<1>5. row' \in [there : BOOLEAN, version : Nat, owner : Nat, epoch : Nat, creds : Nat]
  <2>1. row.version + 1 \in Nat /\ store[f].epoch \in Nat /\ op[f].sealed \in Nat
    BY <1>1 DEF Stores, Ops
  <2>2. Absent \in [there : BOOLEAN, version : Nat, owner : Nat, epoch : Nat, creds : Nat]
    BY DEF Absent
  <2>3. Upserted(f) \in [there : BOOLEAN, version : Nat, owner : Nat, epoch : Nat, creds : Nat]
    BY <1>1, <2>1 DEF Upserted
  <2>. QED  BY <1>1, <1>2, <2>2, <2>3 DEF Shared
<1>6. signal' \in [gate : Nat, keys : Nat]
  <2>1. signal' = signal \/ signal' = Purged \/ signal' = [gate |-> f, keys |-> f]
    BY DEF Runs, Mint, Start, Seed, Load, Stop, Crash, Update, TimerFires, Ask, db, Writes, Begin,
           Refuse, SaveCreds, SaveCredsErrs, ClassifyWriteMiss, Reload, CheckKeys, SetKeys,
           PurgeCommits, PurgeDeletes, OtherErrs
  <2>. QED  BY <1>1, <2>1 DEF Purged
<1>. QED  BY <1>2, <1>3, <1>4, <1>5, <1>6 DEF Shared

LEMMA StepTypes ==
    ASSUME AuthAssumption, TypeOK, NEW f \in Fences, Runs(f) \/ Writes(f)
    PROVE  TypeOK' /\ Frame(f)
<1>1. PICK s \in Stores : store' = [store EXCEPT ![f] = s]
  BY StoreMoves
<1>2. PICK w \in SUBSET Requests : waiting' = [waiting EXCEPT ![f] = w]
  BY WaitingMoves
<1>3. PICK o \in Ops : op' = [op EXCEPT ![f] = o]
  BY OpMoves
<1>4. /\ store' \in [Fences -> Stores]
      /\ waiting' \in [Fences -> SUBSET Requests]
      /\ op' \in [Fences -> Ops]
  BY <1>1, <1>2, <1>3 DEF TypeOK
<1>5. Frame(f)
  BY <1>1, <1>2, <1>3 DEF TypeOK, Frame
<1>. QED  BY <1>4, <1>5, SharedTypes DEF TypeOK

-----------------------------------------------------------------------------
(* A purge is final. *)

LEMMA RowIsOwners ==
    ASSUME AuthAssumption, TypeOK, PurgeIsFinal, NEW f \in Fences, Runs(f) \/ Writes(f)
    PROVE  PurgeIsFinal'
<1>1. Shared(f)
  BY SharedMoves
<1>2. lease.fence \in Nat /\ row.owner \in Nat
  BY DEF TypeOK
<1>3. lease.fence <= lease'.fence
  BY <1>1, <1>2 DEF Shared, Mint
<1>4. CASE row' = row /\ epoch' = epoch
  <2>1. f \in Nat /\ (Mint(f) => lease'.fence \in Nat)
    BY DEF Mint, AuthAssumption
  <2>2. lease'.fence \in Nat
    BY <1>1, <1>2, <2>1 DEF Shared
  <2>3. row.there => row.owner <= lease'.fence
    BY <1>2, <1>3, <2>2 DEF PurgeIsFinal
  <2>. QED  BY <1>4, <2>3 DEF PurgeIsFinal
<1>5. CASE row' = Absent
  BY <1>5 DEF PurgeIsFinal, Absent
<1>6. CASE Lands(f) /\ row' = Upserted(f) /\ lease' = lease /\ epoch' = epoch
  BY <1>2, <1>6 DEF Lands, MayWrite, Owns, Upserted, PurgeIsFinal
<1>. QED  BY <1>1, <1>4, <1>5, <1>6 DEF Shared

\* A row that outlives its session, or is older than the epoch, would be what a
\* store writes that a purge has overtaken: session-creds-upsert asks for the
\* lease and the epoch in the statement that writes.
THEOREM PurgesAreFinal == ASSUME AuthAssumption PROVE Spec => []PurgeIsFinal
<1>1. Init => TypeOK /\ PurgeIsFinal
  BY AuthInit DEF Init, PurgeIsFinal, Absent
<1>2. TypeOK /\ PurgeIsFinal /\ [Next]_vars => TypeOK' /\ PurgeIsFinal'
  <2>1. ASSUME TypeOK, PurgeIsFinal, Next PROVE TypeOK' /\ PurgeIsFinal'
    BY <2>1, StepTypes, RowIsOwners DEF Next
  <2>2. ASSUME TypeOK, PurgeIsFinal, UNCHANGED vars PROVE TypeOK' /\ PurgeIsFinal'
    BY <2>2 DEF vars, db, TypeOK, PurgeIsFinal
  <2>. QED  BY <2>1, <2>2
<1>. QED  BY <1>1, <1>2, PTL DEF Spec

-----------------------------------------------------------------------------
(* The life of a store: what is not live yet has nothing to write. *)

Early == {"unborn", "minted", "started", "seeded"}

Ages(f) == store[f].epoch <= epoch /\ (store[f].pc # "unborn" => f <= lease.fence)

Quiet(f) ==
    store[f].pc \in Early =>
        op[f] = Idle /\ waiting[f] = {} /\ ~store[f].down /\ ~store[f].timer

LifeInv == \A f \in Fences : Ages(f) /\ Quiet(f)

\* How the stores that the actions build differ from the one they start from.
LEMMA Built ==
    ASSUME NEW s \in Stores, NEW kind, NEW v
    PROVE  /\ Pushed(s).pc = s.pc /\ Pushed(s).epoch = s.epoch
           /\ TornDown(s).pc = "torn" /\ TornDown(s).epoch = s.epoch
           /\ Failed(s, kind).pc = s.pc /\ Failed(s, kind).epoch = s.epoch
           /\ Fenced(s, kind).pc = "torn" /\ Fenced(s, kind).epoch = s.epoch
           /\ Saved(s, kind, v).pc = s.pc /\ Saved(s, kind, v).epoch = s.epoch
  BY DEF Stores, Pushed, TornDown, Failed, Fenced, Saved

LEMMA EndsKeep ==
    ASSUME TypeOK, NEW f \in Fences, Ends(f)
    PROVE  store'[f].pc \in {store[f].pc, "torn"} /\ store'[f].epoch = store[f].epoch
<1>1. store[f] \in Stores /\ store \in [Fences -> Stores]
  BY DEF TypeOK
<1>. DEFINE t == Failed(store[f], op[f].kind)
<1>2. t \in Stores
  BY <1>1 DEF Failed, Stores
<1>3. t.pc = store[f].pc /\ t.epoch = store[f].epoch
  BY <1>1, Built
<1>. DEFINE Is(s) == store' = [store EXCEPT ![f] = s]
<1>4. \/ store' = store \/ Is(Pushed(store[f])) \/ Is([store[f] EXCEPT !.timer = TRUE])
      \/ Is(TornDown(store[f])) \/ Is(t) \/ Is(TornDown(t)) \/ Is(Fenced(store[f], op[f].kind))
  <2>1. CASE Unavailable(f)
    <3>1. \/ store' = store \/ Is(Pushed(store[f])) \/ Is([store[f] EXCEPT !.timer = TRUE])
          \/ Is(TornDown(store[f]))
      BY <1>1, <2>1 DEF Unavailable, Teardown
    <3>. QED  BY <3>1
  <2>2. CASE Rejects(f, op[f].kind, store[f], FALSE)
    <3>1. store' = store \/ Is(t) \/ Is(TornDown(t))
      BY <2>2 DEF Rejects, Teardown
    <3>. QED  BY <3>1
  <2>3. CASE SelfFence(f)
    BY <2>3 DEF SelfFence
  <2>. QED  BY <2>1, <2>2, <2>3 DEF Ends, Errs
<1>. HIDE DEF t
<1>. QED  BY <1>1, <1>2, <1>3, <1>4, Built DEF Stores

\* A write is under way or waits in a live store or one that was torn down.
LEMMA WritersLive ==
    ASSUME TypeOK, LifeInv, NEW f \in Fences, Writes(f)
    PROVE  store[f].pc \in {"live", "torn"}
<1>1. op[f] # Idle \/ waiting[f] # {}
  <2>1. CASE \E w \in waiting[f] : Begin(f, w) \/ Refuse(f, w)
    BY <2>1
  <2>2. CASE op[f].kind # "none"
    BY <2>2 DEF Idle
  <2>3. CASE op[f].kind = "none"
    BY <2>1, <2>3 DEF Writes, SaveCreds, SaveCredsErrs, ClassifyWriteMiss, Reload, CheckKeys,
           SetKeys, PurgeCommits, PurgeDeletes, OtherErrs, At, Saves
  <2>. QED  BY <2>2, <2>3
<1>2. store[f].pc \notin Early
  BY <1>1 DEF LifeInv, Quiet
<1>. QED  BY <1>2 DEF TypeOK, Stores, Early

LEMMA WritesKeep ==
    ASSUME TypeOK, NEW f \in Fences, Writes(f)
    PROVE  store'[f].pc \in {store[f].pc, "torn"} /\ store'[f].epoch = store[f].epoch
<1>1. store[f] \in Stores /\ store \in [Fences -> Stores]
  BY DEF TypeOK
<1>2. CASE store' = store
  BY <1>2
<1>3. CASE \E w \in waiting[f] : Refuse(f, w)
  <2>1. PICK w \in waiting[f] : Refuse(f, w)
    BY <1>3
  <2>2. store'[f] = TornDown(store[f]) \/ store'[f] = Failed(store[f], w.kind)
    BY <1>1, <2>1 DEF Refuse
  <2>. QED  BY <1>1, <2>2, Built
<1>4. CASE SaveCreds(f)
  <2>1. store' = store \/ store'[f] = Saved(store[f], op[f].kind, row.version + 1)
    BY <1>1, <1>4 DEF SaveCreds, Succeeds
  <2>. QED  BY <1>1, <2>1, Built
<1>5. CASE PurgeDeletes(f)
  BY <1>1, <1>5 DEF PurgeDeletes, Stores
<1>6. CASE SaveCredsErrs(f) \/ ClassifyWriteMiss(f) \/ CheckKeys(f) \/ SetKeys(f) \/ PurgeCommits(f)
  <2>1. Ends(f) \/ store' = store
    BY <1>6 DEF SaveCredsErrs, ClassifyWriteMiss, CheckKeys, SetKeys, PurgeCommits, Ends
  <2>. QED  BY <1>2, <2>1, EndsKeep
<1>7. CASE Reload(f) \/ OtherErrs(f) \/ \E w \in waiting[f] : Begin(f, w)
  BY <1>2, <1>7 DEF Reload, OtherErrs, Begin
<1>. QED  BY <1>3, <1>4, <1>5, <1>6, <1>7 DEF Writes

\* A store that is on its way goes on or is torn down.
LEMMA RunsKeep ==
    ASSUME TypeOK, LifeInv, NEW f \in Fences, Runs(f),
           ~(Mint(f) \/ Start(f) \/ Seed(f) \/ Load(f))
    PROVE  store[f].pc # "unborn" /\ store'[f].epoch = store[f].epoch
           /\ (store'[f].pc = "torn" \/ (store'[f].pc = store[f].pc /\ store[f].pc \in {"live", "torn"}))
<1>0. store[f] \in Stores /\ store \in [Fences -> Stores]
  BY DEF TypeOK
<1>1. CASE Stop(f)
  BY <1>0, <1>1, Built DEF Stop, Teardown
<1>2. CASE Crash(f)
  BY <1>0, <1>2 DEF Crash, Unborn
<1>3. CASE Update(f)
  <2>. DEFINE s == [store[f] EXCEPT !.creds = updates + 1]
  <2>1. s \in Stores /\ s.pc = store[f].pc /\ s.epoch = store[f].epoch
    BY <1>0 DEF TypeOK, Stores
  <2>2. store'[f] = (IF s.down THEN Pushed(s) ELSE s) /\ store[f].pc \in {"live", "torn"}
    BY <1>0, <1>3 DEF Update
  <2>. HIDE DEF s
  <2>. QED  BY <2>1, <2>2, Built
<1>4. CASE TimerFires(f)
  <2>1. store[f].pc \notin Early
    BY <1>4 DEF TimerFires, LifeInv, Quiet
  <2>2. store'[f] = [store[f] EXCEPT !.timer = FALSE]
    BY <1>0, <1>4 DEF TimerFires
  <2>. QED  BY <1>0, <2>1, <2>2 DEF Early, Stores
<1>5. CASE \E kind \in {"open", "keys", "purge"} : Ask(f, kind)
  BY <1>5 DEF Ask
<1>. QED  BY <1>1, <1>2, <1>3, <1>4, <1>5 DEF Runs

LEMMA OwnLife ==
    ASSUME AuthAssumption, TypeOK, LifeInv, NEW f \in Fences, Runs(f) \/ Writes(f)
    PROVE  Ages(f)' /\ Quiet(f)'
<1>1. store[f] \in Stores /\ store \in [Fences -> Stores] /\ epoch \in Nat
      /\ f \in Nat /\ lease.fence \in Nat
  BY DEF TypeOK, AuthAssumption
<1>2. store[f].epoch \in Nat /\ store[f].epoch <= epoch /\ (store[f].pc # "unborn" => f <= lease.fence)
  BY <1>1 DEF LifeInv, Ages, Stores
<1>3. Shared(f)
  BY SharedMoves
<1>4. ~Mint(f) => lease'.fence = lease.fence
  BY <1>3 DEF Shared
<1>5. epoch' \in Nat /\ epoch <= epoch'
  BY <1>3 DEF Shared
<1>6. CASE Mint(f)
  <2>1. store'[f] = [store[f] EXCEPT !.pc = "minted"] /\ lease'.fence = f
        /\ op' = op /\ waiting' = waiting
    BY <1>1, <1>6 DEF Mint
  <2>2. store[f].pc = "unborn"
    BY <1>1, <1>2, <1>6 DEF Mint
  <2>. QED  BY <1>1, <1>2, <1>5, <2>1, <2>2 DEF Ages, Quiet, LifeInv, Early, Stores
<1>7. CASE Start(f) \/ Seed(f) \/ Load(f)
  <2>1. op' = op /\ waiting' = waiting /\ ~Mint(f)
    BY <1>1, <1>7 DEF Start, Seed, Load, Mint, db
  <2>2. store[f].pc \in Early /\ store'[f].pc # "unborn" /\ store[f].pc # "unborn"
        /\ store'[f].down = store[f].down /\ store'[f].timer = store[f].timer
        /\ store'[f].epoch \in {epoch, store[f].epoch}
    BY <1>1, <1>7 DEF Start, Seed, Load, Stores, Early
  <2>. QED  BY <1>1, <1>2, <1>4, <1>5, <2>1, <2>2 DEF Ages, Quiet, LifeInv
<1>8. CASE Runs(f) /\ ~(Mint(f) \/ Start(f) \/ Seed(f) \/ Load(f))
  <2>1. store[f].pc # "unborn" /\ store'[f].epoch = store[f].epoch
        /\ (store'[f].pc = "torn" \/ (store'[f].pc = store[f].pc /\ store[f].pc \in {"live", "torn"}))
    BY <1>8, RunsKeep
  <2>. QED  BY <1>1, <1>2, <1>4, <1>5, <1>8, <2>1 DEF Ages, Quiet, Early
<1>9. CASE Writes(f)
  <2>1. store[f].pc \in {"live", "torn"}
    BY <1>9, WritersLive
  <2>2. store'[f].pc \in {"live", "torn"} /\ store'[f].epoch = store[f].epoch
    BY <1>9, <2>1, WritesKeep
  <2>3. f <= lease'.fence
    <3>1. ~Mint(f)
      BY <1>1, <1>2, <2>1 DEF Mint
    <3>. QED  BY <1>2, <1>4, <2>1, <3>1
  <2>. QED  BY <1>1, <1>2, <1>5, <2>2, <2>3 DEF Ages, Quiet, Early
<1>. QED  BY <1>6, <1>7, <1>8, <1>9

LEMMA LifeNext ==
    ASSUME AuthAssumption, TypeOK, LifeInv, NEW f \in Fences, Runs(f) \/ Writes(f)
    PROVE  LifeInv'
<1>. SUFFICES ASSUME NEW g \in Fences, g # f PROVE Ages(g)' /\ Quiet(g)'
  BY OwnLife DEF LifeInv
<1>1. store'[g] = store[g] /\ op'[g] = op[g] /\ waiting'[g] = waiting[g]
  BY StepTypes DEF Frame
<1>2. epoch \in Nat /\ epoch' \in Nat /\ epoch <= epoch' /\ store[g].epoch \in Nat
  BY SharedMoves DEF Shared, TypeOK, Stores
<1>3. lease.fence \in Nat /\ lease'.fence \in Nat /\ lease.fence <= lease'.fence /\ g \in Nat
  <2>1. f \in Nat /\ g \in Nat /\ lease.fence \in Nat
    BY DEF AuthAssumption, TypeOK
  <2>. QED  BY <2>1, SharedMoves DEF Shared, Mint
<1>. QED  BY <1>1, <1>2, <1>3 DEF LifeInv, Ages, Quiet

-----------------------------------------------------------------------------
(* One retry is enough.  A save that is on its second try has loaded the    *)
(* version, which no other may change as long as its store may write.       *)

Tried(f) ==
    /\ op[f].tries <= 1
    /\ op[f].tries = 1 /\ op[f].pc = "write" =>
         (MayWrite(f) /\ row.there => row.version = op[f].expected)
    /\ op[f].tries = 1 /\ op[f].pc = "classify" => ~MayWrite(f)

RetryInv == TypeOK /\ PurgeIsFinal /\ LifeInv /\ \A f \in Fences : Tried(f)

LEMMA IdleIsTried == ASSUME NEW f \in Fences, op'[f].tries = 0 PROVE Tried(f)'
  BY DEF Tried

\* A store that may not write never may again.
LEMMA OnceLost ==
    ASSUME AuthAssumption, TypeOK, LifeInv, NEW f \in Fences, NEW g \in Fences,
           Runs(g) \/ Writes(g), store[f].pc \in {"live", "torn"}, MayWrite(f)'
    PROVE  MayWrite(f)
<1>1. Shared(g) /\ Frame(g)
  BY SharedMoves, StepTypes
<1>2. epoch \in Nat /\ epoch' \in Nat /\ epoch <= epoch' /\ store[f].epoch \in Nat
      /\ store[f].epoch <= epoch /\ f <= lease.fence /\ f \in Nat /\ lease.fence \in Nat
      /\ lease \in [fence : Nat, owned : BOOLEAN]
  BY <1>1 DEF Shared, LifeInv, Ages, TypeOK, Stores, AuthAssumption
<1>3. store'[f].epoch = store[f].epoch
  <2>1. CASE g # f
    BY <1>1, <2>1 DEF Frame
  <2>2. CASE g = f /\ Writes(f)
    BY <2>2, WritesKeep
  <2>3. CASE g = f /\ Runs(f)
    <3>1. ~(Start(f) \/ Seed(f) \/ Load(f) \/ Mint(f))
      <4>1. ~Mint(f)
        BY <1>2 DEF Mint
      <4>. QED  BY <4>1 DEF Start, Seed, Load
    <3>. QED  BY <2>3, <3>1, RunsKeep
  <2>. QED  BY <2>1, <2>2, <2>3
<1>4. ~Mint(g)
  <2>. SUFFICES ASSUME Mint(g) PROVE FALSE
    OBVIOUS
  <2>1. lease' = [fence |-> g, owned |-> TRUE] /\ g = lease.fence + 1
    BY DEF Mint
  <2>2. f = g
    BY <2>1 DEF MayWrite, Owns
  <2>. QED  BY <1>2, <2>1, <2>2
<1>5. lease'.fence = lease.fence /\ (lease'.owned => lease.owned)
  BY <1>1, <1>4 DEF Shared
<1>6. Owns(f)
  BY <1>2, <1>5 DEF MayWrite, Owns
<1>7. store[f].epoch = epoch
  BY <1>2, <1>3 DEF MayWrite
<1>. QED  BY <1>6, <1>7 DEF MayWrite

\* No step but its own disturbs a save.
LEMMA StaysTried ==
    ASSUME AuthAssumption, RetryInv, NEW f \in Fences, NEW g \in Fences,
           Runs(g) \/ Writes(g), op'[f] = op[f], g # f \/ row' = row
    PROVE  Tried(f)'
<1>. USE DEF RetryInv
<1>1. op[f].tries \in Nat /\ op[f].tries <= 1
  BY DEF Tried, TypeOK, Ops
<1>2. CASE op[f].tries = 0
  BY <1>2, IdleIsTried
<1>3. CASE op[f].tries = 1
  <2>1. store[f].pc \in {"live", "torn"}
    <3>1. op[f] # Idle
      BY <1>3 DEF Idle
    <3>2. store[f].pc \notin Early
      BY <3>1 DEF LifeInv, Quiet
    <3>. QED  BY <3>2 DEF TypeOK, Stores, Early
  <2>2. MayWrite(f)' => MayWrite(f)
    BY <2>1, OnceLost
  <2>3. MayWrite(f)' /\ row'.there => row' = row
    <3>1. Shared(g)
      BY SharedMoves
    <3>2. g # f /\ Lands(g) /\ lease' = lease => ~MayWrite(f)'
      BY DEF Lands, MayWrite, Owns
    <3>. QED  BY <3>1, <3>2 DEF Shared, Absent
  <2>. QED  BY <1>3, <2>2, <2>3 DEF Tried
<1>. QED  BY <1>1, <1>2, <1>3

LEMMA OwnTried ==
    ASSUME AuthAssumption, RetryInv, NEW f \in Fences, Runs(f) \/ Writes(f)
    PROVE  Tried(f)'
<1>. USE DEF RetryInv
<1>1. op[f] \in Ops /\ op \in [Fences -> Ops] /\ op[f].tries \in Nat /\ Tried(f)
  BY DEF TypeOK, Ops
<1>2. op[f].tries \in {0, 1}
  BY <1>1 DEF Tried
<1>3. ASSUME op' = [op EXCEPT ![f] = Idle] PROVE Tried(f)'
  BY <1>1, <1>3, IdleIsTried DEF Idle
<1>4. CASE op' = op /\ row' = row
  BY <1>4, StaysTried
<1>5. CASE Ends(f)
  BY <1>1, <1>3, <1>5 DEF Ends, Errs, Unavailable, SelfFence, Done
<1>6. CASE \E w \in waiting[f] : Begin(f, w)
  BY <1>1, <1>6, IdleIsTried DEF Begin
<1>7. CASE SaveCreds(f) /\ Lands(f)
  BY <1>3, <1>7 DEF SaveCreds, Succeeds, Done
<1>8. CASE SaveCreds(f) /\ ~Lands(f)
  <2>1. op'[f] = [op[f] EXCEPT !.pc = "classify"] /\ row' = row /\ store' = store
        /\ lease' = lease /\ epoch' = epoch /\ op[f].pc = "write"
    BY <1>1, <1>8 DEF SaveCreds, At
  <2>2. op[f].tries = 1 => ~MayWrite(f)
    <3>. SUFFICES ASSUME op[f].tries = 1, MayWrite(f) PROVE FALSE
      OBVIOUS
    <3>1. row.there => row.version = op[f].expected
      BY <1>1, <2>1 DEF Tried
    <3>2. row.there => row.owner <= f
      BY DEF PurgeIsFinal, MayWrite, Owns
    <3>. QED  BY <1>8, <3>1, <3>2 DEF Lands
  <2>3. op'[f].tries = op[f].tries /\ op'[f].pc = "classify"
    BY <1>1, <2>1 DEF Ops
  <2>. QED  BY <1>2, <2>1, <2>2, <2>3 DEF Tried, MayWrite, Owns
<1>9. CASE ClassifyWriteMiss(f)
  <2>1. CASE ~MayWrite(f) \/ ~(op[f].tries + 1 < MaxTries)
    <3>1. Ends(f)
      BY <1>9, <2>1 DEF ClassifyWriteMiss, Ends
    <3>. QED  BY <1>5, <3>1
  <2>2. CASE MayWrite(f) /\ op[f].tries + 1 < MaxTries
    <3>1. op[f].pc = "classify" /\ op' = [op EXCEPT ![f].pc = "reload", ![f].tries = @ + 1]
      BY <1>9, <2>2 DEF ClassifyWriteMiss, At
    <3>2. op[f].tries = 0
      BY <1>1, <1>2, <2>2, <3>1 DEF Tried
    <3>3. op'[f].tries = 1 /\ op'[f].pc = "reload"
      BY <1>1, <3>1, <3>2 DEF Ops
    <3>. QED  BY <3>3 DEF Tried
  <2>. QED  BY <2>1, <2>2
<1>10. CASE Reload(f)
  <2>1. op'[f].tries = op[f].tries /\ op'[f].pc = "write" /\ op'[f].expected = row.version
        /\ row' = row
    BY <1>1, <1>10 DEF Reload, Ops, db
  <2>. QED  BY <1>2, <2>1 DEF Tried
<1>11. ASSUME op' = [op EXCEPT ![f].pc = "redis"] PROVE Tried(f)'
  <2>1. op'[f].tries = op[f].tries /\ op'[f].pc = "redis"
    BY <1>1, <1>11 DEF Ops
  <2>. QED  BY <1>2, <2>1 DEF Tried
<1>12. CASE CheckKeys(f) \/ SetKeys(f) \/ PurgeCommits(f)
  <2>1. Ends(f) \/ op' = [op EXCEPT ![f].pc = "redis"] \/ op' = [op EXCEPT ![f] = Idle]
    BY <1>12 DEF CheckKeys, SetKeys, PurgeCommits, Ends, Done
  <2>. QED  BY <1>3, <1>5, <1>11, <2>1
<1>13. CASE SaveCredsErrs(f) \/ PurgeDeletes(f) \/ OtherErrs(f)
  <2>1. Ends(f) \/ op' = [op EXCEPT ![f] = Idle]
    BY <1>13 DEF SaveCredsErrs, PurgeDeletes, OtherErrs, Ends, Done
  <2>. QED  BY <1>3, <1>5, <2>1
<1>14. CASE \E w \in waiting[f] : Refuse(f, w)
  BY <1>4, <1>14 DEF Refuse, db
<1>15. CASE Runs(f)
  BY <1>3, <1>4, <1>15 DEF Runs, Mint, Start, Seed, Load, Stop, Crash, Update, TimerFires, Ask, db
<1>. QED
  BY <1>6, <1>7, <1>8, <1>9, <1>10, <1>12, <1>13, <1>14, <1>15 DEF Writes

LEMMA RetryNext == ASSUME AuthAssumption PROVE RetryInv /\ [Next]_vars => RetryInv'
<1>1. ASSUME RetryInv, UNCHANGED vars PROVE RetryInv'
  <2>1. TypeOK' /\ PurgeIsFinal'
    BY <1>1 DEF RetryInv, vars, db, TypeOK, PurgeIsFinal
  <2>2. LifeInv'
    BY <1>1 DEF RetryInv, vars, db, LifeInv, Ages, Quiet
  <2>3. \A f \in Fences : Tried(f)'
    BY <1>1 DEF RetryInv, vars, db, Tried, MayWrite, Owns
  <2>. QED  BY <2>1, <2>2, <2>3 DEF RetryInv
<1>2. ASSUME RetryInv, NEW g \in Fences, Runs(g) \/ Writes(g) PROVE RetryInv'
  <2>1. TypeOK' /\ PurgeIsFinal' /\ LifeInv' /\ Frame(g)
    BY <1>2, StepTypes, RowIsOwners, LifeNext DEF RetryInv
  <2>2. ASSUME NEW f \in Fences PROVE Tried(f)'
    <3>1. CASE f = g
      BY <1>2, <3>1, OwnTried
    <3>2. CASE f # g
      <4>1. op'[f] = op[f]
        BY <2>1, <3>2 DEF Frame
      <4>. QED  BY <1>2, <3>2, <4>1, StaysTried
    <3>. QED  BY <3>1, <3>2
  <2>. QED  BY <2>1, <2>2 DEF RetryInv
<1>. QED  BY <1>1, <1>2 DEF Next

\* However many owners, saves and flushes there are, CredsSaveExhaustedError is
\* never thrown: after one version conflict a save lands or is fenced.
THEOREM OneRetryIsEnough == ASSUME AuthAssumption PROVE Spec => []RetryIsEnough
<1>1. Init => RetryInv
  <2>. SUFFICES ASSUME Init PROVE RetryInv
    OBVIOUS
  <2>1. TypeOK
    BY AuthInit
  <2>2. PurgeIsFinal
    BY DEF Init, PurgeIsFinal, Absent
  <2>3. ASSUME NEW f \in Fences PROVE Ages(f) /\ Quiet(f) /\ Tried(f)
    <3>1. store[f] = Unborn /\ op[f] = Idle /\ waiting[f] = {} /\ epoch = 1
      BY DEF Init
    <3>2. op[f].tries = 0
      BY <3>1 DEF Idle
    <3>. QED  BY <3>1, <3>2 DEF Ages, Quiet, Tried, Unborn
  <2>. QED  BY <2>1, <2>2, <2>3 DEF RetryInv, LifeInv
<1>2. RetryInv /\ [Next]_vars => RetryInv'
  BY RetryNext
<1>3. RetryInv => RetryIsEnough
  BY DEF RetryInv, Tried, RetryIsEnough
<1>. QED  BY <1>1, <1>2, <1>3, PTL DEF Spec

-----------------------------------------------------------------------------
(* What is buffered is retried.  The timer alone is not enough: when it      *)
(* fires, a flush must follow, and does because the buffer is not empty.     *)

Held(s) == s.down => s.entries > 0

Served(f) ==
    \/ store[f].timer \/ op[f].kind = "flush"
    \/ \E w \in waiting[f] : w.kind = "flush"

Retried(f) == store[f].pc = "live" /\ store[f].down => Served(f)

BufferInv == TypeOK /\ LifeInv /\ \A f \in Fences : Held(store[f]) /\ Retried(f)

LEMMA BuiltHeld ==
    ASSUME AuthAssumption, NEW s \in Stores, Held(s), NEW kind, NEW v
    PROVE  /\ Held(Pushed(s)) /\ Pushed(s).timer
           /\ Held(TornDown(s)) /\ Held(Failed(s, kind)) /\ Held(Fenced(s, kind))
           /\ Held(Saved(s, kind, v)) /\ Held([s EXCEPT !.timer = TRUE])
           /\ kind = "flush" => ~Failed(s, kind).down /\ ~Saved(s, kind, v).down
           /\ kind # "flush" => /\ Failed(s, kind).down = s.down
                                /\ Saved(s, kind, v).down = s.down
                                /\ Saved(s, kind, v).timer = s.timer
           /\ Failed(s, kind).timer = s.timer
<1>1. Held(Pushed(s)) /\ Pushed(s).timer
  BY DEF AuthAssumption, Pushed, Held, Stores
<1>2. /\ Failed(s, kind).timer = s.timer
      /\ kind = "flush" => ~Failed(s, kind).down /\ ~Saved(s, kind, v).down
      /\ kind # "flush" => /\ Failed(s, kind).down = s.down
                           /\ Saved(s, kind, v).down = s.down
                           /\ Saved(s, kind, v).timer = s.timer
  BY DEF Failed, Saved, Stores
<1>3. Held(TornDown(s)) /\ Held(Failed(s, kind)) /\ Held(Fenced(s, kind))
      /\ Held(Saved(s, kind, v)) /\ Held([s EXCEPT !.timer = TRUE])
  BY DEF Held, TornDown, Failed, Fenced, Saved, Stores
<1>. QED  BY <1>1, <1>2, <1>3

\* A write that ends with an error leaves a timer, a store that is torn down, or
\* a buffer that it was not there to empty.
LEMMA EndsRetried ==
    ASSUME AuthAssumption, BufferInv, NEW f \in Fences, Ends(f)
    PROVE  Held(store'[f]) /\ Retried(f)'
<1>1. store[f] \in Stores /\ store \in [Fences -> Stores] /\ Held(store[f]) /\ Retried(f)
  BY DEF BufferInv, TypeOK
<1>. DEFINE t == Failed(store[f], op[f].kind)
<1>2. t \in Stores /\ Held(t)
  BY <1>1, BuiltHeld DEF Failed, Stores
<1>3. CASE store' = store /\ waiting' = waiting /\ op[f].kind # "flush"
  BY <1>1, <1>3 DEF Retried, Served
<1>4. CASE store'[f] = TornDown(store[f]) \/ store'[f] = TornDown(t)
            \/ store'[f] = Fenced(store[f], op[f].kind)
  <2>1. Held(TornDown(store[f])) /\ Held(TornDown(t)) /\ Held(Fenced(store[f], op[f].kind))
    BY <1>1, <1>2, BuiltHeld
  <2>2. store'[f].pc = "torn"
    BY <1>1, <1>2, <1>4, Built
  <2>. QED  BY <1>4, <2>1, <2>2 DEF Retried
<1>5. CASE store'[f] = Pushed(store[f]) \/ store'[f] = [store[f] EXCEPT !.timer = TRUE]
  BY <1>1, <1>5, BuiltHeld DEF Retried, Served, Stores
<1>. HIDE DEF t
<1>6. CASE Unavailable(f)
  <2>1. CASE op[f].kind \in {"live", "flush", "open"}
    BY <1>1, <1>4, <1>5, <1>6, <2>1 DEF Unavailable, Teardown
  <2>2. CASE op[f].kind \notin {"live", "flush", "open"}
    BY <1>3, <1>6, <2>2 DEF Unavailable
  <2>. QED  BY <2>1, <2>2
<1>7. CASE Rejects(f, op[f].kind, store[f], FALSE)
  <2>1. CASE op[f].kind \in {"live", "flush", "open"}
    BY <1>1, <1>4, <1>7, <2>1 DEF Rejects, Teardown, t
  <2>2. CASE op[f].kind \notin {"live", "flush", "open"}
    BY <1>3, <1>7, <2>2 DEF Rejects
  <2>. QED  BY <2>1, <2>2
<1>8. CASE SelfFence(f)
  BY <1>1, <1>4, <1>8 DEF SelfFence
<1>. QED  BY <1>6, <1>7, <1>8 DEF Ends, Errs

LEMMA OwnRetried ==
    ASSUME AuthAssumption, BufferInv, NEW f \in Fences, Runs(f) \/ Writes(f)
    PROVE  Held(store'[f]) /\ Retried(f)'
<1>1. /\ store[f] \in Stores /\ store \in [Fences -> Stores] /\ Held(store[f]) /\ Retried(f)
      /\ op[f] \in Ops /\ op \in [Fences -> Ops] /\ waiting \in [Fences -> SUBSET Requests]
  BY DEF BufferInv, TypeOK
<1>2. CASE Mint(f) \/ Start(f) \/ Seed(f) \/ Load(f)
  <2>1. store'[f].down = store[f].down
    BY <1>1, <1>2 DEF Mint, Start, Seed, Load, Stores
  <2>2. ~store[f].down
    <3>1. f \in Nat /\ lease.fence \in Nat
      BY DEF AuthAssumption, BufferInv, TypeOK
    <3>2. store[f].pc \in Early
      BY <1>1, <1>2, <3>1 DEF BufferInv, LifeInv, Ages, Mint, Start, Seed, Load, Early
    <3>. QED  BY <3>2 DEF BufferInv, LifeInv, Quiet
  <2>. QED  BY <2>1, <2>2 DEF Held, Retried
<1>3. CASE Stop(f)
  BY <1>1, <1>3, BuiltHeld, Built DEF Stop, Teardown, Retried
<1>4. CASE Crash(f)
  BY <1>1, <1>4 DEF Crash, Unborn, Held, Retried
<1>5. CASE Update(f)
  <2>. DEFINE s == [store[f] EXCEPT !.creds = updates + 1]
  <2>1. s \in Stores /\ Held(s) /\ s.down = store[f].down
    BY <1>1 DEF BufferInv, TypeOK, Held, Stores
  <2>2. store'[f] = IF s.down THEN Pushed(s) ELSE s
    BY <1>1, <1>5 DEF Update
  <2>. HIDE DEF s
  <2>3. CASE s.down
    <3>1. store'[f] = Pushed(s)
      BY <2>2, <2>3
    <3>2. Held(Pushed(s)) /\ Pushed(s).timer
      BY <2>1, BuiltHeld
    <3>. QED  BY <3>1, <3>2 DEF Retried, Served
  <2>4. CASE ~s.down
    BY <2>1, <2>2, <2>4 DEF Retried
  <2>. QED  BY <2>3, <2>4
<1>6. CASE \E kind \in {"open", "keys", "purge"} : Ask(f, kind)
  <2>1. store' = store /\ op' = op /\ waiting[f] \subseteq waiting'[f]
    BY <1>1, <1>6 DEF Ask, Enqueue
  <2>. QED  BY <1>1, <2>1 DEF Retried, Served
<1>7. CASE TimerFires(f)
  <2>1. store'[f] = [store[f] EXCEPT !.timer = FALSE]
    BY <1>1, <1>7 DEF TimerFires
  <2>2. store'[f].down = store[f].down /\ store'[f].entries = store[f].entries
    BY <1>1, <2>1 DEF Stores
  <2>3. CASE store[f].entries > 0
    <3>1. [kind |-> "flush", expected |-> store[f].version] \in waiting'[f]
      BY <1>1, <1>7, <2>3 DEF TimerFires, Enqueue
    <3>2. \E w \in waiting'[f] : w.kind = "flush"
      BY <3>1
    <3>. QED  BY <2>2, <2>3, <3>2 DEF Held, Retried, Served
  <2>4. CASE ~(store[f].entries > 0)
    BY <1>1, <2>2, <2>4 DEF Held, Retried
  <2>. QED  BY <2>3, <2>4
<1>8. CASE \E w \in waiting[f] : Begin(f, w)
  <2>1. PICK w \in waiting[f] : Begin(f, w)
    BY <1>8
  <2>2. store' = store /\ op[f].kind = "none" /\ op'[f].kind = w.kind
        /\ waiting'[f] = waiting[f] \ {w}
    BY <1>1, <2>1 DEF Begin, Idle
  <2>. QED  BY <1>1, <2>2 DEF Retried, Served
<1>9. CASE \E w \in waiting[f] : Refuse(f, w)
  <2>1. PICK w \in waiting[f] : Refuse(f, w)
    BY <1>9
  <2>2. op' = op /\ waiting'[f] = waiting[f] \ {w}
    BY <1>1, <2>1 DEF Refuse
  <2>3. CASE store'[f] = TornDown(store[f])
    BY <1>1, <2>3, BuiltHeld, Built DEF Retried
  <2>4. CASE store'[f] = Failed(store[f], w.kind)
    <3>1. Held(store'[f]) /\ store'[f].timer = store[f].timer /\ store'[f].pc = store[f].pc
      BY <1>1, <2>4 DEF Failed, Held, Stores
    <3>2. CASE w.kind = "flush"
      <4>1. ~store'[f].down
        BY <1>1, <2>4, <3>2 DEF Failed, Stores
      <4>. QED  BY <3>1, <4>1 DEF Retried
    <3>3. CASE w.kind # "flush"
      <4>1. store'[f].down = store[f].down
        BY <1>1, <2>4, <3>3 DEF Failed, Stores
      <4>. QED  BY <1>1, <2>2, <3>1, <3>3, <4>1 DEF Retried, Served
    <3>. QED  BY <3>2, <3>3
  <2>. QED  BY <1>1, <2>1, <2>3, <2>4 DEF Refuse
<1>10. CASE SaveCreds(f) /\ Lands(f)
  <2>1. store'[f] = Saved(store[f], op[f].kind, row.version + 1) /\ waiting' = waiting
    BY <1>1, <1>10 DEF SaveCreds, Succeeds
  <2>2. Held(store'[f]) /\ store'[f].pc = store[f].pc
    BY <1>1, <2>1 DEF Saved, Held, Stores
  <2>3. CASE op[f].kind = "flush"
    <3>1. ~store'[f].down
      BY <1>1, <2>1, <2>3 DEF Saved, Stores
    <3>. QED  BY <2>2, <3>1 DEF Retried
  <2>4. CASE op[f].kind # "flush"
    <3>1. store'[f].down = store[f].down /\ store'[f].timer = store[f].timer
      BY <1>1, <2>1, <2>4 DEF Saved, Stores
    <3>. QED  BY <1>1, <2>1, <2>2, <2>4, <3>1 DEF Retried, Served
  <2>. QED  BY <2>3, <2>4
<1>11. CASE Ends(f)
  BY <1>11, EndsRetried
<1>12. ASSUME store' = store, waiting' = waiting, op'[f].kind = op[f].kind \/ op[f].kind # "flush"
       PROVE  Held(store'[f]) /\ Retried(f)'
  BY <1>1, <1>12 DEF Retried, Served
<1>13. CASE SaveCreds(f) /\ ~Lands(f)
  BY <1>1, <1>12, <1>13 DEF SaveCreds, Ops
<1>14. CASE SaveCredsErrs(f)
  BY <1>11, <1>14 DEF SaveCredsErrs, Ends
<1>15. CASE ClassifyWriteMiss(f) \/ Reload(f)
  <2>1. \/ Ends(f)
        \/ /\ store' = store /\ waiting' = waiting
           /\ \/ op' = [op EXCEPT ![f].pc = "reload", ![f].tries = @ + 1]
              \/ op' = [op EXCEPT ![f].pc = "write", ![f].expected = row.version,
                                  ![f].sealed = store[f].creds]
    BY <1>15 DEF ClassifyWriteMiss, Reload, Ends
  <2>. QED  BY <1>1, <1>11, <1>12, <2>1 DEF Ops
<1>16. CASE CheckKeys(f) \/ SetKeys(f) \/ PurgeCommits(f) \/ OtherErrs(f)
  <2>1. Ends(f) \/ (store' = store /\ waiting' = waiting)
    BY <1>16 DEF CheckKeys, SetKeys, PurgeCommits, OtherErrs, Ends
  <2>2. op[f].kind # "flush"
    BY <1>16 DEF CheckKeys, SetKeys, PurgeCommits, OtherErrs, At
  <2>. QED  BY <1>11, <1>12, <2>1, <2>2
<1>17. CASE PurgeDeletes(f)
  <2>1. store'[f] = [store[f] EXCEPT !.fenced = TRUE] /\ waiting' = waiting /\ op[f].kind = "purge"
    BY <1>1, <1>17 DEF PurgeDeletes, At
  <2>. QED  BY <1>1, <2>1 DEF Held, Retried, Served, Stores
<1>. QED
  BY <1>2, <1>3, <1>4, <1>5, <1>6, <1>7, <1>8, <1>9, <1>10, <1>13, <1>14, <1>15, <1>16, <1>17
     DEF Runs, Writes

LEMMA BufferNext == ASSUME AuthAssumption PROVE BufferInv /\ [Next]_vars => BufferInv'
<1>1. ASSUME BufferInv, UNCHANGED vars PROVE BufferInv'
  BY <1>1 DEF BufferInv, vars, db, TypeOK, LifeInv, Ages, Quiet, Held, Retried, Served
<1>2. ASSUME BufferInv, NEW g \in Fences, Runs(g) \/ Writes(g) PROVE BufferInv'
  <2>1. TypeOK' /\ LifeInv' /\ Frame(g)
    BY <1>2, StepTypes, LifeNext DEF BufferInv
  <2>2. ASSUME NEW f \in Fences PROVE Held(store'[f]) /\ Retried(f)'
    <3>1. CASE f = g
      BY <1>2, <3>1, OwnRetried
    <3>2. CASE f # g
      BY <1>2, <2>1, <3>2 DEF BufferInv, Frame, Retried, Served
    <3>. QED  BY <3>1, <3>2
  <2>. QED  BY <2>1, <2>2 DEF BufferInv
<1>. QED  BY <1>1, <1>2 DEF Next

\* While the buffer of a live session takes its saves, the retry timer is set or
\* a flush waits or is under way: armRetry is not called when the timer fires,
\* so that a flush must be what it leaves behind.
THEOREM BufferedSavesAreRetried == ASSUME AuthAssumption PROVE Spec => []BufferedIsRetried
<1>1. Init => BufferInv
  <2>. SUFFICES ASSUME Init PROVE BufferInv
    OBVIOUS
  <2>1. TypeOK
    BY AuthInit
  <2>2. ASSUME NEW f \in Fences PROVE Ages(f) /\ Quiet(f) /\ Held(store[f]) /\ Retried(f)
    <3>1. store[f] = Unborn /\ op[f] = Idle /\ waiting[f] = {} /\ epoch = 1
      BY DEF Init
    <3>. QED  BY <3>1 DEF Ages, Quiet, Held, Retried, Unborn
  <2>. QED  BY <2>1, <2>2 DEF BufferInv, LifeInv
<1>2. BufferInv /\ [Next]_vars => BufferInv'
  BY BufferNext
<1>3. BufferInv => BufferedIsRetried
  BY DEF BufferInv, Retried, Served, BufferedIsRetried
<1>. QED  BY <1>1, <1>2, <1>3, PTL DEF Spec

-----------------------------------------------------------------------------
(* ConnectBudget, which shares no state with AuthStore and is an instance of *)
(* its own.  The count alone is not inductive: what has been taken and what  *)
(* is left must together not exceed a full bucket and the refill so far.     *)

CONSTANTS
    Workers, Takers, WorkerOf, Rates, MaxRate, GateRate, Burst, Ttl, Steps

VARIABLES
    now, bucket, gate, queue, armed, at, from, given, passed

G == INSTANCE ConnectBudget

\* What is left and what was taken since the window opened, of a bucket of this
\* capacity and at most this rate.
Fits(b, used, cap, rate) ==
    /\ b.tokens <= 1000 * cap /\ b.last <= now
    /\ b.last < from => used = 0
    /\ b.last >= from =>
         b.tokens + 1000 * used <= 1000 * cap + rate * (b.last - from)

BudgetTypes ==
    /\ now \in Nat
    /\ bucket \in [tokens : Nat, last : Int]
    /\ gate \in [Workers -> [tokens : Nat, last : Int]]
    /\ queue \in [Workers -> Seq(Takers)]
    /\ armed \in [Workers -> BOOLEAN]
    /\ at \in [Takers -> G!Stages]
    /\ from \in Nat /\ from <= now
    /\ given \in Nat /\ passed \in [Workers -> Nat]

BudgetInv ==
    /\ BudgetTypes
    /\ Fits(bucket, given, MaxRate, MaxRate)
    /\ \A w \in Workers : Fits(gate[w], passed[w], Burst, GateRate)

-----------------------------------------------------------------------------
(* Arithmetic. *)

LEMMA Distributes ==
    ASSUME NEW r \in Nat, NEW x \in Int, NEW y \in Int
    PROVE  r * (x + y) = r * x + r * y
  BY SMT

LEMMA Monotone ==
    ASSUME NEW r \in Nat, NEW s \in Nat, NEW x \in Nat, r <= s
    PROVE  r * x <= s * x /\ r * x \in Nat
<1>1. s = r + (s - r) /\ s - r \in Nat
  OBVIOUS
<1>2. PICK d \in Nat : s = r + d
  BY <1>1
<1>3. s * x = r * x + d * x
  BY <1>2, SMT
<1>4. d * x \in Nat /\ r * x \in Nat
  BY SMT
<1>. QED  BY <1>3, <1>4

\* A bucket that is refilled at the rate or below still fits.
LEMMA RefillFits ==
    ASSUME NEW b \in [tokens : Nat, last : Int], NEW used \in Nat,
           NEW cap \in Nat, NEW rate \in Nat, NEW c \in Nat, NEW r \in Nat,
           c <= cap, r <= rate,
           now \in Nat, from \in Nat, from <= now,
           Fits(b, used, cap, rate)
    PROVE  /\ G!Refilled(b, c, r) \in [tokens : Nat, last : Int]
           /\ Fits(G!Refilled(b, c, r), used, cap, rate)
           /\ G!Refilled(b, c, r).last = now
<1>. DEFINE f == G!Refilled(b, c, r)
<1>1. CASE now <= b.last
  BY <1>1 DEF G!Refilled, Fits
<1>2. CASE now > b.last
  <2>. DEFINE e == now - b.last
  <2>1. e \in Nat /\ now = b.last + e
    BY <1>2
  <2>2. e * r \in Nat /\ e * r <= rate * e
    <3>1. r * e <= rate * e /\ r * e \in Nat
      BY <2>1, Monotone
    <3>2. e * r = r * e
      BY <2>1, SMT
    <3>. QED  BY <3>1, <3>2
  <2>3. f = [tokens |-> G!Lesser(1000 * c, b.tokens + e * r), last |-> now]
    BY <1>2 DEF G!Refilled
  <2>4. f.tokens \in Nat /\ f.tokens <= 1000 * c /\ f.tokens <= b.tokens + e * r /\ f.last = now
    BY <2>2, <2>3 DEF G!Lesser
  <2>5. f.tokens <= 1000 * cap /\ f.last <= now
    BY <2>4
  <2>6. f.tokens + 1000 * used <= 1000 * cap + rate * (now - from)
    <3>1. CASE b.last < from
      <4>1. now - from \in Nat
        OBVIOUS
      <4>. DEFINE C == rate * (now - from)
      <4>2. C \in Nat
        BY <4>1, Monotone
      <4>3. used = 0 /\ f.tokens <= 1000 * cap /\ f.tokens \in Nat
        BY <2>4, <2>5, <3>1 DEF Fits
      <4>. HIDE DEF C, f
      <4>4. f.tokens + 1000 * used <= 1000 * cap + C
        BY <4>2, <4>3
      <4>. QED  BY <4>4 DEF C
    <3>2. CASE b.last >= from
      <4>1. now - from = (b.last - from) + e
        BY <2>1
      <4>2. rate * ((b.last - from) + e) = rate * (b.last - from) + rate * e
        BY <2>1, Distributes
      <4>3. b.tokens + 1000 * used <= 1000 * cap + rate * (b.last - from)
        BY <3>2 DEF Fits
      <4>4. rate * (now - from) = rate * (b.last - from) + rate * e
        BY <4>1, <4>2
      <4>5. rate * e \in Int /\ rate * (b.last - from) \in Int
        BY <2>1, SMT
      <4>. DEFINE A == rate * e
                  B == rate * (b.last - from)
                  C == rate * (now - from)
                  D == e * r
      <4>6. A \in Int /\ B \in Int /\ C = B + A /\ D \in Nat /\ D <= A
            /\ b.tokens + 1000 * used <= 1000 * cap + B /\ f.tokens <= b.tokens + D
            /\ f.tokens \in Nat
        BY <2>2, <2>4, <4>3, <4>4, <4>5
      <4>7. b.tokens \in Nat
        OBVIOUS
      <4>. HIDE DEF A, B, C, D, f
      <4>8. f.tokens + 1000 * used <= 1000 * cap + C
        BY <4>6, <4>7
      <4>. QED  BY <4>8 DEF C
    <3>. QED  BY <3>1, <3>2
  <2>7. f.last >= from
    BY <2>4
  <2>. QED  BY <2>3, <2>4, <2>5, <2>6, <2>7 DEF Fits
<1>. QED  BY <1>1, <1>2

\* What is taken is counted.
LEMMA TakingFits ==
    ASSUME NEW b \in [tokens : Nat, last : Int], NEW used \in Nat, NEW n \in Nat,
           NEW cap \in Nat, NEW rate \in Nat,
           1000 * n <= b.tokens, b.last >= from,
           from \in Nat, now \in Nat,
           Fits(b, used, cap, rate)
    PROVE  /\ G!Taken(b, n) \in [tokens : Nat, last : Int]
           /\ Fits(G!Taken(b, n), used + n, cap, rate)
<1>1. G!Taken(b, n) = [tokens |-> b.tokens - 1000 * n, last |-> b.last]
  BY DEF G!Taken
<1>2. b.tokens + 1000 * used <= 1000 * cap + rate * (b.last - from)
  BY DEF Fits
<1>3. rate * (b.last - from) \in Int
  BY SMT
<1>. DEFINE B == rate * (b.last - from)
<1>4. (b.tokens - 1000 * n) + 1000 * (used + n) <= 1000 * cap + B
  <2>. HIDE DEF B
  <2>1. b.tokens + 1000 * used <= 1000 * cap + B /\ B \in Int
    BY <1>2, <1>3 DEF B
  <2>. QED  BY <2>1
<1>. QED  BY <1>1, <1>4 DEF Fits

-----------------------------------------------------------------------------
(* The invariant. *)

LEMMA BudgetInit == ASSUME G!BudgetAssumption
    PROVE  G!Init => BudgetInv
<1>. SUFFICES ASSUME G!Init PROVE BudgetInv
  OBVIOUS
<1>1. BudgetTypes
  BY DEF G!BudgetAssumption, G!Init, BudgetTypes, G!Stages
<1>2. Fits(bucket, given, MaxRate, MaxRate)
  BY DEF G!BudgetAssumption, G!Init, Fits
<1>3. ASSUME NEW w \in Workers PROVE Fits(gate[w], passed[w], Burst, GateRate)
  <2>1. GateRate * (0 - 0) = 0
    BY DEF G!BudgetAssumption
  <2>. QED  BY <2>1 DEF G!BudgetAssumption, G!Init, Fits
<1>. QED  BY <1>1, <1>2, <1>3 DEF BudgetInv

\* The gate a worker finds, and the bucket that the script finds.
LEMMA OpenedFits ==
    ASSUME G!BudgetAssumption, BudgetInv, NEW w \in Workers
    PROVE  /\ G!Opened(w) \in [tokens : Nat, last : Int]
           /\ Fits(G!Opened(w), passed[w], Burst, GateRate)
           /\ G!Opened(w).last >= from
<1>1. gate[w] \in [tokens : Nat, last : Int] /\ passed[w] \in Nat
      /\ now \in Nat /\ from \in Nat /\ from <= now
  BY DEF BudgetInv, BudgetTypes
<1>2. Fits(gate[w], passed[w], Burst, GateRate) /\ Burst \in Nat /\ GateRate \in Nat
  BY DEF BudgetInv, G!BudgetAssumption
<1>3. /\ G!Refilled(gate[w], Burst, GateRate) \in [tokens : Nat, last : Int]
      /\ Fits(G!Refilled(gate[w], Burst, GateRate), passed[w], Burst, GateRate)
      /\ G!Refilled(gate[w], Burst, GateRate).last = now
  BY <1>1, <1>2, RefillFits
<1>. QED  BY <1>1, <1>3 DEF G!Opened

LEMMA FoundFits ==
    ASSUME G!BudgetAssumption, BudgetInv, NEW rate \in Rates
    PROVE  /\ G!Found(rate) \in [tokens : Nat, last : Int]
           /\ Fits(G!Found(rate), given, MaxRate, MaxRate)
           /\ G!Found(rate).last >= from
<1>1. bucket \in [tokens : Nat, last : Int] /\ given \in Nat
      /\ now \in Nat /\ from \in Nat /\ from <= now
  BY DEF BudgetInv, BudgetTypes
<1>2. Fits(bucket, given, MaxRate, MaxRate)
  BY DEF BudgetInv
<1>3. rate \in Nat /\ rate <= MaxRate /\ MaxRate \in Nat /\ Ttl \in Nat /\ Ttl >= 1000
  BY DEF G!BudgetAssumption
<1>4. CASE now - bucket.last < Ttl
  <2>1. G!Found(rate) = G!Refilled(bucket, rate, rate)
    BY <1>1, <1>3, <1>4 DEF G!Found
  <2>2. /\ G!Refilled(bucket, rate, rate) \in [tokens : Nat, last : Int]
        /\ Fits(G!Refilled(bucket, rate, rate), given, MaxRate, MaxRate)
        /\ G!Refilled(bucket, rate, rate).last = now
    BY <1>1, <1>2, <1>3, RefillFits
  <2>. QED  BY <1>1, <2>1, <2>2
<1>5. CASE now - bucket.last >= Ttl
  <2>. DEFINE e == now - bucket.last
              A == MaxRate * e
              B == MaxRate * (bucket.last - from)
              C == MaxRate * (now - from)
  <2>1. G!Found(rate) = [tokens |-> 1000 * rate, last |-> now]
    BY <1>5 DEF G!Found
  <2>2. e \in Nat /\ e >= 1000
    BY <1>1, <1>3, <1>5
  <2>3. A \in Nat /\ A >= 1000 * MaxRate
    <3>1. 1000 * MaxRate <= e * MaxRate /\ e * MaxRate \in Nat
      <4>1. e * MaxRate \in Nat
        BY <1>3, <2>2, Monotone
      <4>. QED  BY <1>3, <2>2, <4>1, Monotone
    <3>2. e * MaxRate = MaxRate * e
      BY <1>3, <2>2, SMT
    <3>. QED  BY <3>1, <3>2
  <2>4. C \in Nat
    BY <1>1, <1>3, Monotone
  <2>5. 1000 * rate + 1000 * given <= 1000 * MaxRate + C
    <3>1. CASE bucket.last < from
      <4>1. given = 0
        BY <1>2, <3>1 DEF Fits
      <4>. HIDE DEF C
      <4>. QED  BY <1>3, <2>4, <4>1
    <3>2. CASE bucket.last >= from
      <4>1. bucket.tokens + 1000 * given <= 1000 * MaxRate + B
        BY <1>2, <3>2 DEF Fits
      <4>2. B \in Int /\ MaxRate * ((bucket.last - from) + e) = B + A
        BY <1>1, <1>3, <2>2, Distributes
      <4>3. now - from = (bucket.last - from) + e
        BY <1>1
      <4>4. C = B + A
        BY <4>2, <4>3
      <4>5. bucket.tokens \in Nat
        BY <1>1
      <4>. HIDE DEF A, B, C
      <4>. QED  BY <1>1, <1>3, <2>3, <4>1, <4>2, <4>4, <4>5
    <3>. QED  BY <1>1, <3>1, <3>2
  <2>6. 1000 * rate <= 1000 * MaxRate /\ 1000 * rate \in Nat
    BY <1>3
  <2>7. Fits(G!Found(rate), given, MaxRate, MaxRate)
    BY <1>1, <2>1, <2>5, <2>6 DEF Fits
  <2>. QED  BY <1>1, <2>1, <2>6, <2>7
<1>. QED  BY <1>1, <1>3, <1>4, <1>5

LEMMA ArriveKeeps ==
    ASSUME G!BudgetAssumption, BudgetInv, NEW t \in Takers, G!Arrive(t)
    PROVE  BudgetInv'
<1>. DEFINE w == WorkerOf[t]
            free == queue[w] = <<>> /\ G!Opened(w).tokens >= 1000
<1>1. w \in Workers
  BY DEF G!BudgetAssumption
<1>2. /\ G!Opened(w) \in [tokens : Nat, last : Int]
      /\ Fits(G!Opened(w), passed[w], Burst, GateRate)
      /\ G!Opened(w).last >= from
  BY <1>1, OpenedFits
<1>3. /\ now \in Nat /\ from \in Nat /\ from <= now
      /\ passed[w] \in Nat /\ Burst \in Nat /\ GateRate \in Nat
  BY <1>1 DEF BudgetInv, BudgetTypes, G!BudgetAssumption
<1>4. free => /\ G!Taken(G!Opened(w), 1) \in [tokens : Nat, last : Int]
              /\ Fits(G!Taken(G!Opened(w), 1), passed[w] + 1, Burst, GateRate)
  <2>. SUFFICES ASSUME free PROVE /\ G!Taken(G!Opened(w), 1) \in [tokens : Nat, last : Int]
                                  /\ Fits(G!Taken(G!Opened(w), 1), passed[w] + 1, Burst, GateRate)
    OBVIOUS
  <2>1. 1000 * 1 <= G!Opened(w).tokens
    OBVIOUS
  <2>. QED  BY <1>2, <1>3, <2>1, TakingFits
<1>5. /\ gate' = [gate EXCEPT ![w] = IF free THEN G!Taken(G!Opened(w), 1) ELSE G!Opened(w)]
      /\ at' = [at EXCEPT ![t] = IF free THEN "fleet" ELSE "queued"]
      /\ queue' = IF free THEN queue ELSE [queue EXCEPT ![w] = Append(@, t)]
      /\ armed' = [armed EXCEPT ![w] = @ \/ ~free]
      /\ passed' = IF free THEN [passed EXCEPT ![w] = @ + 1] ELSE passed
      /\ now' = now /\ bucket' = bucket /\ from' = from /\ given' = given
  BY DEF G!Arrive
<1>. HIDE DEF free, w
<1>a. passed' \in [Workers -> Nat]
  BY <1>1, <1>3, <1>5 DEF BudgetInv, BudgetTypes
<1>b. gate' \in [Workers -> [tokens : Nat, last : Int]]
  BY <1>1, <1>2, <1>4, <1>5 DEF BudgetInv, BudgetTypes
<1>c. queue' \in [Workers -> Seq(Takers)]
  <2>1. queue[w] \in Seq(Takers) /\ Append(queue[w], t) \in Seq(Takers)
    BY <1>1 DEF BudgetInv, BudgetTypes
  <2>. QED  BY <1>1, <1>5, <2>1 DEF BudgetInv, BudgetTypes
<1>d. armed' \in [Workers -> BOOLEAN] /\ at' \in [Takers -> G!Stages]
  BY <1>5 DEF BudgetInv, BudgetTypes, G!Stages
<1>6. BudgetTypes'
  BY <1>3, <1>5, <1>a, <1>b, <1>c, <1>d DEF BudgetInv, BudgetTypes
<1>7. from' = from /\ given' = given
      /\ \A v \in Workers : v # w => passed'[v] = passed[v] /\ gate'[v] = gate[v]
  BY <1>5 DEF BudgetInv, BudgetTypes
<1>8. Fits(bucket, given, MaxRate, MaxRate)'
  BY <1>5, <1>7 DEF BudgetInv, Fits
<1>9. ASSUME NEW v \in Workers PROVE Fits(gate[v], passed[v], Burst, GateRate)'
  <2>1. CASE v # w
    BY <1>5, <1>7, <2>1 DEF BudgetInv, Fits
  <2>2. CASE v = w /\ free
    <3>1. gate'[v] = G!Taken(G!Opened(w), 1) /\ passed'[v] = passed[w] + 1
      BY <1>1, <1>5, <2>2 DEF BudgetInv, BudgetTypes
    <3>. QED  BY <1>4, <1>5, <1>7, <2>2, <3>1 DEF Fits
  <2>3. CASE v = w /\ ~free
    <3>1. gate'[v] = G!Opened(w) /\ passed'[v] = passed[w]
      BY <1>1, <1>5, <2>3 DEF BudgetInv, BudgetTypes
    <3>. QED  BY <1>2, <1>5, <1>7, <3>1 DEF Fits
  <2>. QED  BY <2>1, <2>2, <2>3
<1>. QED  BY <1>6, <1>8, <1>9 DEF BudgetInv

LEMMA DrainQueueKeeps ==
    ASSUME G!BudgetAssumption, BudgetInv, NEW w \in Workers, G!DrainQueue(w)
    PROVE  BudgetInv'
<1>1. PICK n \in 0 .. Len(queue[w]) :
         /\ G!LetsIn(w, n)
         /\ gate' = [gate EXCEPT ![w] = G!Taken(G!Opened(w), n)]
         /\ queue' = [queue EXCEPT ![w] = SubSeq(@, n + 1, Len(@))]
         /\ armed' = [armed EXCEPT ![w] = n < Len(queue[w])]
         /\ at' = [t \in Takers |-> IF \E i \in 1 .. n : queue[w][i] = t THEN "fleet" ELSE at[t]]
         /\ passed' = [passed EXCEPT ![w] = @ + n]
  BY DEF G!DrainQueue
<1>2. now' = now /\ bucket' = bucket /\ from' = from /\ given' = given
  BY DEF G!DrainQueue
<1>3. /\ G!Opened(w) \in [tokens : Nat, last : Int]
      /\ Fits(G!Opened(w), passed[w], Burst, GateRate)
      /\ G!Opened(w).last >= from
  BY OpenedFits
<1>4. /\ now \in Nat /\ from \in Nat /\ from <= now
      /\ passed[w] \in Nat /\ Burst \in Nat /\ GateRate \in Nat
      /\ queue[w] \in Seq(Takers)
  BY DEF BudgetInv, BudgetTypes, G!BudgetAssumption
<1>5. n \in Nat /\ 1000 * n <= G!Opened(w).tokens
  BY <1>1, <1>4 DEF G!LetsIn
<1>6. /\ G!Taken(G!Opened(w), n) \in [tokens : Nat, last : Int]
      /\ Fits(G!Taken(G!Opened(w), n), passed[w] + n, Burst, GateRate)
  BY <1>3, <1>4, <1>5, TakingFits
<1>7. SubSeq(queue[w], n + 1, Len(queue[w])) \in Seq(Takers)
  BY <1>4, <1>5
<1>8. /\ queue' \in [Workers -> Seq(Takers)]
      /\ gate' \in [Workers -> [tokens : Nat, last : Int]]
  BY <1>1, <1>6, <1>7 DEF BudgetInv, BudgetTypes
<1>9. passed' \in [Workers -> Nat] /\ from' = from /\ given' = given
      /\ passed'[w] = passed[w] + n
      /\ \A v \in Workers : v # w => passed'[v] = passed[v]
  <2>1. passed' = [passed EXCEPT ![w] = @ + n] /\ from' = from /\ given' = given
    BY <1>1, <1>2
  <2>2. passed \in [Workers -> Nat] /\ passed[w] + n \in Nat
    BY <1>4, <1>5 DEF BudgetInv, BudgetTypes
  <2>. QED  BY <2>1, <2>2
<1>10. armed' \in [Workers -> BOOLEAN] /\ at' \in [Takers -> G!Stages]
  BY <1>1 DEF BudgetInv, BudgetTypes, G!Stages
<1>11. BudgetTypes'
  BY <1>2, <1>4, <1>8, <1>9, <1>10 DEF BudgetInv, BudgetTypes
<1>12. Fits(bucket, given, MaxRate, MaxRate)'
  BY <1>2, <1>9 DEF BudgetInv, Fits
<1>13. ASSUME NEW v \in Workers PROVE Fits(gate[v], passed[v], Burst, GateRate)'
  <2>1. CASE v # w
    <3>1. gate'[v] = gate[v]
      BY <1>1, <2>1 DEF BudgetInv, BudgetTypes
    <3>. QED  BY <1>2, <1>9, <2>1, <3>1 DEF BudgetInv, Fits
  <2>2. CASE v = w
    <3>1. gate'[v] = G!Taken(G!Opened(w), n)
      BY <1>1, <2>2 DEF BudgetInv, BudgetTypes
    <3>. QED  BY <1>2, <1>6, <1>9, <2>2, <3>1 DEF Fits
  <2>. QED  BY <2>1, <2>2
<1>. QED  BY <1>11, <1>12, <1>13 DEF BudgetInv

LEMMA TakeTokenKeeps ==
    ASSUME G!BudgetAssumption, BudgetInv, NEW t \in Takers, NEW rate \in Rates, G!TakeToken(t, rate)
    PROVE  BudgetInv'
<1>. DEFINE got == G!Found(rate).tokens >= 1000
<1>1. /\ G!Found(rate) \in [tokens : Nat, last : Int]
      /\ Fits(G!Found(rate), given, MaxRate, MaxRate)
      /\ G!Found(rate).last >= from
  BY FoundFits
<1>2. /\ now \in Nat /\ from \in Nat /\ given \in Nat /\ MaxRate \in Nat
  BY DEF BudgetInv, BudgetTypes, G!BudgetAssumption
<1>3. /\ bucket' = IF got THEN G!Taken(G!Found(rate), 1) ELSE G!Found(rate)
      /\ at' = IF got THEN [at EXCEPT ![t] = "idle"] ELSE at
      /\ given' = IF got THEN given + 1 ELSE given
      /\ now' = now /\ gate' = gate /\ queue' = queue /\ armed' = armed
      /\ from' = from /\ passed' = passed
  BY DEF G!TakeToken
<1>4. got => /\ G!Taken(G!Found(rate), 1) \in [tokens : Nat, last : Int]
             /\ Fits(G!Taken(G!Found(rate), 1), given + 1, MaxRate, MaxRate)
  <2>. SUFFICES ASSUME got PROVE /\ G!Taken(G!Found(rate), 1) \in [tokens : Nat, last : Int]
                                 /\ Fits(G!Taken(G!Found(rate), 1), given + 1, MaxRate, MaxRate)
    OBVIOUS
  <2>. DEFINE b == G!Found(rate)
  <2>1. 1000 * 1 <= b.tokens
    OBVIOUS
  <2>2. b \in [tokens : Nat, last : Int] /\ Fits(b, given, MaxRate, MaxRate) /\ b.last >= from
    BY <1>1
  <2>. HIDE DEF b
  <2>3. G!Taken(b, 1) \in [tokens : Nat, last : Int] /\ Fits(G!Taken(b, 1), given + 1, MaxRate, MaxRate)
    BY <1>2, <2>1, <2>2, TakingFits
  <2>. QED  BY <2>3 DEF b
<1>. HIDE DEF got
<1>a. given' \in Nat
  BY <1>2, <1>3
<1>b. bucket' \in [tokens : Nat, last : Int]
  BY <1>1, <1>3, <1>4
<1>c. at' \in [Takers -> G!Stages]
  BY <1>3 DEF BudgetInv, BudgetTypes, G!Stages
<1>5. BudgetTypes'
  BY <1>3, <1>a, <1>b, <1>c DEF BudgetInv, BudgetTypes
<1>6. from' = from /\ passed' = passed
      /\ given' = IF got THEN given + 1 ELSE given
  BY <1>3 DEF BudgetInv, BudgetTypes
<1>7. Fits(bucket, given, MaxRate, MaxRate)'
  <2>1. CASE got
    <3>1. bucket' = G!Taken(G!Found(rate), 1) /\ given' = given + 1
      BY <1>3, <1>6, <2>1
    <3>. QED  BY <1>3, <1>4, <1>6, <2>1, <3>1 DEF Fits
  <2>2. CASE ~got
    <3>1. bucket' = G!Found(rate) /\ given' = given
      BY <1>3, <1>6, <2>2
    <3>. QED  BY <1>1, <1>3, <1>6, <3>1 DEF Fits
  <2>. QED  BY <2>1, <2>2
<1>8. ASSUME NEW v \in Workers PROVE Fits(gate[v], passed[v], Burst, GateRate)'
  BY <1>3, <1>6 DEF BudgetInv, Fits
<1>. QED  BY <1>5, <1>7, <1>8 DEF BudgetInv

\* Time passes, or a window is opened.
LEMMA ClockKeeps ==
    ASSUME G!BudgetAssumption, BudgetInv, G!Tick \/ G!OpenWindow
    PROVE  BudgetInv'
<1>1. CASE G!Tick
  <2>1. now' \in Nat /\ now' >= now
    BY <1>1 DEF G!Tick, BudgetInv, BudgetTypes, G!BudgetAssumption
  <2>2. BudgetTypes'
    BY <1>1, <2>1 DEF G!Tick, BudgetInv, BudgetTypes, G!counts
  <2>3. Fits(bucket, given, MaxRate, MaxRate)'
    BY <1>1, <2>1 DEF G!Tick, BudgetInv, BudgetTypes, Fits, G!counts
  <2>4. ASSUME NEW v \in Workers PROVE Fits(gate[v], passed[v], Burst, GateRate)'
    BY <1>1, <2>1 DEF G!Tick, BudgetInv, BudgetTypes, Fits, G!counts
  <2>. QED  BY <2>2, <2>3, <2>4 DEF BudgetInv
<1>2. CASE G!OpenWindow
  <2>1. BudgetTypes'
    BY <1>2 DEF G!OpenWindow, BudgetInv, BudgetTypes
  <2>2. \A r \in Nat : r * (now - now) = 0
    BY DEF BudgetInv, BudgetTypes
  <2>3. Fits(bucket, given, MaxRate, MaxRate)'
    <3>1. CASE bucket.last < now
      BY <1>2, <3>1 DEF G!OpenWindow, BudgetInv, BudgetTypes, Fits
    <3>2. CASE bucket.last = now
      BY <1>2, <2>2, <3>2 DEF G!OpenWindow, BudgetInv, BudgetTypes, Fits, G!BudgetAssumption
    <3>. QED  BY <3>1, <3>2 DEF BudgetInv, BudgetTypes, Fits
  <2>4. ASSUME NEW v \in Workers PROVE Fits(gate[v], passed[v], Burst, GateRate)'
    <3>1. CASE gate[v].last < now
      BY <1>2, <3>1 DEF G!OpenWindow, BudgetInv, BudgetTypes, Fits
    <3>2. CASE gate[v].last = now
      BY <1>2, <2>2, <3>2 DEF G!OpenWindow, BudgetInv, BudgetTypes, Fits, G!BudgetAssumption
    <3>. QED  BY <3>1, <3>2 DEF BudgetInv, BudgetTypes, Fits
  <2>. QED  BY <2>1, <2>3, <2>4 DEF BudgetInv
<1>. QED  BY <1>1, <1>2

LEMMA BudgetNext == ASSUME G!BudgetAssumption
    PROVE  BudgetInv /\ [G!Next]_G!vars => BudgetInv'
<1>. SUFFICES ASSUME BudgetInv, [G!Next]_G!vars PROVE BudgetInv'
  OBVIOUS
<1>1. CASE UNCHANGED G!vars
  BY <1>1 DEF G!vars, G!counts, BudgetInv, BudgetTypes, Fits
<1>2. ASSUME NEW t \in Takers, G!Arrive(t) PROVE BudgetInv'
  BY <1>2, ArriveKeeps
<1>3. ASSUME NEW t \in Takers, G!Abort(t) PROVE BudgetInv'
  BY <1>3 DEF G!Abort, G!counts, BudgetInv, BudgetTypes, Fits, G!Stages
<1>4. ASSUME NEW t \in Takers, NEW rate \in Rates, G!TakeToken(t, rate) PROVE BudgetInv'
  BY <1>4, TakeTokenKeeps
<1>5. ASSUME NEW w \in Workers, G!DrainQueue(w) PROVE BudgetInv'
  BY <1>5, DrainQueueKeeps
<1>6. CASE G!Tick \/ G!OpenWindow
  BY <1>6, ClockKeeps
<1>. QED  BY <1>1, <1>2, <1>3, <1>4, <1>5, <1>6 DEF G!Next

\* What fits leaves the count within its bound.
LEMMA BudgetBounds == ASSUME G!BudgetAssumption
    PROVE  BudgetInv => G!FleetRate /\ G!GateKeeps
<1>1. ASSUME NEW b \in [tokens : Nat, last : Int], NEW used \in Nat, NEW cap \in Nat,
             NEW rate \in Nat, now \in Nat, from \in Nat, from <= now,
             Fits(b, used, cap, rate)
      PROVE  1000 * used <= 1000 * cap + rate * (now - from)
  <2>1. rate * (now - from) \in Nat
    BY <1>1, Monotone
  <2>2. CASE b.last < from
    <3>1. used = 0
      BY <1>1, <2>2 DEF Fits
    <3>. DEFINE C == rate * (now - from)
    <3>. HIDE DEF C
    <3>2. C \in Nat
      BY <2>1 DEF C
    <3>3. 1000 * used <= 1000 * cap + C
      BY <3>1, <3>2
    <3>. QED  BY <3>3 DEF C
  <2>3. CASE b.last >= from
    <3>. DEFINE B == rate * (b.last - from)
                C == rate * (now - from)
                D == rate * (now - b.last)
    <3>1. b.tokens + 1000 * used <= 1000 * cap + B /\ b.last <= now
      BY <1>1, <2>3 DEF Fits
    <3>2. B \in Nat /\ D \in Nat
      BY <1>1, <2>3, <3>1, Monotone
    <3>3. C = B + D
      <4>1. now - from = (b.last - from) + (now - b.last)
        BY <1>1
      <4>2. rate * ((b.last - from) + (now - b.last)) = B + D
        BY <1>1, Distributes
      <4>. QED  BY <4>1, <4>2
    <3>. HIDE DEF B, C, D
    <3>4. 1000 * used <= 1000 * cap + C
      BY <1>1, <3>1, <3>2, <3>3
    <3>. QED  BY <3>4 DEF C
  <2>. QED  BY <1>1, <2>2, <2>3
<1>2. BudgetInv => G!FleetRate
  BY <1>1 DEF BudgetInv, BudgetTypes, G!FleetRate, G!BudgetAssumption
<1>3. BudgetInv => G!GateKeeps
  <2>. SUFFICES ASSUME BudgetInv, NEW w \in Workers
                PROVE  1000 * passed[w] <= 1000 * Burst + GateRate * (now - from)
    BY DEF G!GateKeeps
  <2>1. /\ gate[w] \in [tokens : Nat, last : Int] /\ passed[w] \in Nat
        /\ now \in Nat /\ from \in Nat /\ from <= now
        /\ Burst \in Nat /\ GateRate \in Nat /\ Fits(gate[w], passed[w], Burst, GateRate)
    BY DEF BudgetInv, BudgetTypes, G!BudgetAssumption
  <2>. QED  BY <1>1, <2>1
<1>. QED  BY <1>2, <1>3

-----------------------------------------------------------------------------
(* The theorems. *)

\* In any stretch of time the fleet connects as often as a full bucket and its
\* refill allow: what createFleetTokenBucket limits, under every change of rate
\* and every expiry of the key.
THEOREM ConnectsAreLimited == ASSUME G!BudgetAssumption
    PROVE  G!Spec => []G!FleetRate
<1>1. G!Init => BudgetInv
  BY BudgetInit
<1>2. BudgetInv /\ [G!Next]_G!vars => BudgetInv'
  BY BudgetNext
<1>3. BudgetInv => G!FleetRate
  BY BudgetBounds
<1>. QED  BY <1>1, <1>2, <1>3, PTL DEF G!Spec

\* The same of createPerWorkerConnectGate, whose tokens both a take and the timer
\* of its queue spend.
THEOREM GatesAreLimited == ASSUME G!BudgetAssumption
    PROVE  G!Spec => []G!GateKeeps
<1>1. G!Init => BudgetInv
  BY BudgetInit
<1>2. BudgetInv /\ [G!Next]_G!vars => BudgetInv'
  BY BudgetNext
<1>3. BudgetInv => G!GateKeeps
  BY BudgetBounds
<1>. QED  BY <1>1, <1>2, <1>3, PTL DEF G!Spec

LEMMA TimersStaySet ==
    ASSUME G!BudgetAssumption, BudgetInv, G!NobodyForgotten, [G!Next]_G!vars
    PROVE  G!NobodyForgotten'
<1>1. ASSUME NEW t \in Takers, G!Arrive(t) PROVE G!NobodyForgotten'
  <2>. SUFFICES ASSUME NEW w \in Workers, queue'[w] # <<>> PROVE armed'[w]
    BY DEF G!NobodyForgotten
  <2>1. CASE w = WorkerOf[t]
    BY <1>1, <2>1, ZenonT(60) DEF G!Arrive, G!NobodyForgotten, BudgetInv, BudgetTypes
  <2>2. CASE w # WorkerOf[t]
    BY <1>1, <2>2 DEF G!Arrive, G!NobodyForgotten, BudgetInv, BudgetTypes
  <2>. QED  BY <2>1, <2>2
<1>2. ASSUME NEW v \in Workers, G!DrainQueue(v) PROVE G!NobodyForgotten'
  <2>. SUFFICES ASSUME NEW w \in Workers, queue'[w] # <<>> PROVE armed'[w]
    BY DEF G!NobodyForgotten
  <2>1. PICK n \in 0 .. Len(queue[v]) :
          /\ queue' = [queue EXCEPT ![v] = SubSeq(@, n + 1, Len(@))]
          /\ armed' = [armed EXCEPT ![v] = n < Len(queue[v])]
    BY <1>2 DEF G!DrainQueue
  <2>2. queue \in [Workers -> Seq(Takers)] /\ armed \in [Workers -> BOOLEAN]
    BY DEF BudgetInv, BudgetTypes
  <2>3. CASE w # v
    BY <2>1, <2>2, <2>3 DEF G!NobodyForgotten
  <2>4. CASE w = v
    <3>1. queue'[v] = SubSeq(queue[v], n + 1, Len(queue[v])) /\ queue[v] \in Seq(Takers)
      BY <2>1, <2>2
    <3>2. n # Len(queue[v])
      <4>. SUFFICES ASSUME n = Len(queue[v]) PROVE FALSE
        OBVIOUS
      <4>1. Len(SubSeq(queue[v], n + 1, Len(queue[v]))) = 0
        BY <3>1
      <4>2. SubSeq(queue[v], n + 1, Len(queue[v])) = <<>>
        BY <3>1, <4>1
      <4>. QED  BY <2>4, <3>1, <4>2
    <3>3. Len(queue[v]) \in Nat
      BY <3>1
    <3>4. n < Len(queue[v])
      BY <3>2, <3>3
    <3>5. armed'[v] = (n < Len(queue[v]))
      BY <2>1, <2>2
    <3>. QED  BY <2>4, <3>4, <3>5
  <2>. QED  BY <2>3, <2>4
<1>3. CASE \E t \in Takers : G!Abort(t) \/ \E rate \in Rates : G!TakeToken(t, rate)
  BY <1>3 DEF G!Abort, G!TakeToken, G!NobodyForgotten
<1>4. CASE G!Tick \/ G!OpenWindow \/ UNCHANGED G!vars
  BY <1>4 DEF G!Tick, G!OpenWindow, G!vars, G!NobodyForgotten
<1>. QED  BY <1>1, <1>2, <1>3, <1>4 DEF G!Next

\* No taker is left in a queue for which no timer is set: drainQueue clears the
\* timer and armDrainTimerIfNeeded sets it for those it leaves behind.
THEOREM QueuesAreDrained == ASSUME G!BudgetAssumption
    PROVE  G!Spec => []G!NobodyForgotten
<1>1. G!Init => BudgetInv /\ G!NobodyForgotten
  BY BudgetInit DEF G!Init, G!NobodyForgotten
<1>2. BudgetInv /\ G!NobodyForgotten /\ [G!Next]_G!vars => BudgetInv' /\ G!NobodyForgotten'
  BY BudgetNext, TimersStaySet
<1>. QED  BY <1>1, <1>2, PTL DEF G!Spec
=============================================================================
