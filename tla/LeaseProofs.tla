---------------------------- MODULE LeaseProofs ----------------------------
(***************************************************************************)
(* Theorems about Lease, for any number of workers, any timing constants   *)
(* and any number of fences.  The last four, on exclusive sockets and on   *)
(* SessionContract, take the timing as a hypothesis (Timely), and either   *)
(* two workers or behaviours in which no row is released.                  *)
(***************************************************************************)
EXTENDS Lease, TLAPS

\* The bounds of the timers, in the form the type proofs use them.
LEMMA Ranges ==
    /\ 0 \in 0 .. RedisTimeout /\ RedisTimeout \in 0 .. RedisTimeout
    /\ 0 \in 0 .. TakeoverGrace /\ TakeoverGrace \in 0 .. TakeoverGrace
    /\ 0 \in 0 .. Watchdog /\ 0 \in 0 .. Heartbeat
    /\ RedisTimeout \in Nat /\ PgTimeout \in Nat
  BY TimingAssumption

\* A countdown stays within its bound.
LEMMA LessBound ==
    ASSUME NEW m \in Nat, NEW n \in 0 .. m PROVE Less(n) \in 0 .. m
  BY DEF Less

\* What every script and its possible losses leave in the key: a key of the
\* right type that is the old one, is gone, or belongs to the caller.
LEMMA ScriptKey ==
    ASSUME key \in Keys, NEW w \in Workers, NEW f \in Nat,
           NEW c \in Command(key, AcquireScript(key, w))
                \cup Command(key, SetFenceScript(key, w, f))
                \cup Command(key, RenewScript(key, w, f))
                \cup Command(key, ReleaseScript(key, w, f))
    PROVE  /\ c.key \in Keys
           /\ c.reply \in Replies
  BY StoreAssumption
     DEF Command, AcquireScript, SetFenceScript, RenewScript, ReleaseScript,
         Executed, Keys, KeyOf, NoKey, Pending, Carries, Replies

\* Every outcome of the three transactions leaves a row of the right type.
LEMMA TransactionRow ==
    ASSUME row \in Rows, NEW w \in Workers, NEW f \in Nat,
           NEW t \in Transaction(row, MintRow(row, w))
                \cup Transaction(row, RenewRow(row, w, f))
                \cup Transaction(row, ReleaseRow(row, w, f))
    PROVE  t.row \in Rows
<1>1. MintRow(row, w) \in Rows
  BY StoreAssumption DEF MintRow, Rows
<1>2. RenewRow(row, w, f) \in Rows
  BY StoreAssumption DEF RenewRow, Rows
<1>3. ReleaseRow(row, w, f) \in Rows
  BY DEF ReleaseRow, Rows
<1> QED BY <1>1, <1>2, <1>3 DEF Transaction

\* The empty session, heartbeat and release are of their types.
LEMMA IdleTypes ==
    /\ NoSession \in Sessions
    /\ IdleBeat \in Beats
    /\ NoRelease \in Releases
    /\ NoStray \in Strays
  BY Ranges DEF NoSession, Sessions, IdleBeat, Beats, Replies, NoRelease, Releases,
                NoStray, Strays

\* LeaseHeartbeat.remove keeps the heartbeat's type.
LEMMA ForgetType == ASSUME NEW h \in Beats PROVE Forget(h) \in Beats
  BY Ranges DEF Forget, Beats

\* EndSession leaves sessions and late builds of the right type.
LEMMA EndSessionType ==
    ASSUME TypeOK, NEW w \in Workers, EndSession(w)
    PROVE  /\ sess' \in [Workers -> Sessions]
           /\ stray' \in [Workers -> Strays]
<1>1. [at |-> "building", fence |-> sess[w].fence] \in Strays
  BY DEF TypeOK, Sessions, Strays
<1> QED BY <1>1, IdleTypes DEF TypeOK, EndSession

\* Type correctness of every reachable state.
THEOREM TypeCorrect == Spec => []TypeOK
<1>1. Init => TypeOK
  BY StoreAssumption, IdleTypes DEF Init, TypeOK, NoKey, Pending, Keys, NoRow, Rows
<1>2. TypeOK /\ [Next]_vars => TypeOK'
  <2> SUFFICES ASSUME TypeOK, [Next]_vars PROVE TypeOK'
    OBVIOUS
  <2> USE DEF TypeOK
  <2>1. ASSUME NEW w \in Workers, Scan(w) PROVE TypeOK'
    BY <2>1 DEF Scan, Sessions, Acquiring
  <2>2. ASSUME NEW w \in Workers, PassOver(w) PROVE TypeOK'
    BY <2>2, IdleTypes DEF PassOver
  <2>3. ASSUME NEW w \in Workers, Place(w) PROVE TypeOK'
    <3>1. key' \in Keys
      BY <2>3, ScriptKey, 0 \in Nat DEF Place
    <3>2. sess' \in [Workers -> Sessions]
      <4>1. [NoSession EXCEPT !.pc = "placed"] \in Sessions
        BY IdleTypes DEF Sessions, Acquiring
      <4> QED BY <2>3, <4>1, IdleTypes DEF Place
    <3> QED BY <2>3, <3>1, <3>2 DEF Place
  <2>4. ASSUME NEW w \in Workers, Mint(w) PROVE TypeOK'
    <3>1. row' \in Rows
      BY <2>4, TransactionRow, 0 \in Nat DEF Mint
    <3>2. sess' \in [Workers -> Sessions]
      <4>1. \A g \in Graces(row) :
              [NoSession EXCEPT !.pc = "minted", !.fence = row.fence + 1,
                                !.grace = g] \in Sessions
        <5>1. row.fence + 1 \in Nat
          BY DEF Rows
        <5>2. Graces(row) \subseteq 0 .. TakeoverGrace
          BY Ranges DEF Graces
        <5> QED BY <5>1, <5>2, IdleTypes DEF Sessions, Acquiring
      <4>2. [NoSession EXCEPT !.pc = "undoing"] \in Sessions
        BY IdleTypes DEF Sessions, Acquiring
      <4> QED BY <2>4, <4>1, <4>2 DEF Mint
    <3> QED BY <2>4, <3>1, <3>2 DEF Mint
  <2>5. ASSUME NEW w \in Workers, UndoPlace(w) PROVE TypeOK'
    <3>1. key' \in Keys
      BY <2>5, ScriptKey DEF UndoPlace, Pending
    <3> QED BY <2>5, <3>1, IdleTypes DEF UndoPlace
  <2>6. ASSUME NEW w \in Workers, SetFence(w) PROVE TypeOK'
    <3>1. key' \in Keys
      BY <2>6, ScriptKey DEF SetFence, Sessions
    <3>2. sess' \in [Workers -> Sessions]
      <4>1. [sess EXCEPT ![w] = [@ EXCEPT !.pc = "fencing", !.wait = RedisTimeout]]
              \in [Workers -> Sessions]
        BY Ranges DEF Sessions, Acquiring
      <4>2. [sess EXCEPT ![w] = NoSession] \in [Workers -> Sessions]
        BY IdleTypes
      <4> QED BY <2>6, <4>1, <4>2 DEF SetFence
    <3> QED BY <2>6, <3>1, <3>2 DEF SetFence
  <2>7. ASSUME NEW w \in Workers, AddLease(w) PROVE TypeOK'
    <3>1. sess' \in [Workers -> Sessions]
      <4>1. [sess EXCEPT ![w] = [@ EXCEPT !.pc = "reading", !.wait = 0]] \in [Workers -> Sessions]
        BY Ranges DEF Sessions, Acquiring
      <4> QED BY <2>7, <4>1 DEF AddLease
    <3>2. beat' \in [Workers -> Beats]
      <4>1. ASSUME NEW p \in 0 .. Heartbeat
            PROVE  [beat[w] EXCEPT !.held = sess[w].fence, !.since = 0,
                                   !.phase = p] \in Beats
        BY Ranges, ZenonT(60) DEF Sessions, Beats
      <4>2. beat[w].phase \in 0 .. Heartbeat
        BY DEF Beats
      <4> QED BY <2>7, <4>1, <4>2 DEF AddLease
    <3> QED BY <2>7, <3>1, <3>2 DEF AddLease
  <2>8. ASSUME NEW w \in Workers,
               Register(w) \/ EpochReadFails(w) \/ BeginBuild(w)
               \/ FinishBuild(w) \/ Disconnect(w)
        PROVE TypeOK'
    <3>1. CASE EpochReadFails(w)
      BY <3>1, IdleTypes DEF EpochReadFails
    <3>2. CASE Register(w) \/ BeginBuild(w) \/ FinishBuild(w) \/ Disconnect(w)
      <4>1. PICK p \in Registered : sess' = [sess EXCEPT ![w].pc = p]
        BY <3>2 DEF Register, BeginBuild, FinishBuild, Disconnect, Registered
      <4>2. sess' \in [Workers -> Sessions]
        BY <4>1 DEF Sessions
      <4>3. UNCHANGED <<key, row, beat, rel, stray, drain>>
        BY <3>2 DEF Register, BeginBuild, FinishBuild, Disconnect
      <4> QED BY <4>2, <4>3
    <3> QED BY <2>8, <3>1, <3>2
  <2>22. ASSUME NEW w \in Workers, TeardownNoRelease(w) PROVE TypeOK'
    <3>1. beat' \in [Workers -> Beats]
      BY <2>22, ForgetType DEF TeardownNoRelease
    <3> QED BY <2>22, <3>1, EndSessionType DEF TeardownNoRelease
  <2>9. ASSUME NEW w \in Workers, TeardownWithRelease(w) PROVE TypeOK'
    <3>1. beat' \in [Workers -> Beats]
      BY <2>9, ForgetType DEF TeardownWithRelease
    <3>2. rel' \in [Workers -> Releases]
      BY <2>9 DEF TeardownWithRelease, Releases, Sessions
    <3> QED BY <2>9, <3>1, <3>2, EndSessionType DEF TeardownWithRelease
  <2>10. ASSUME NEW w \in Workers, ReleaseRedis(w) PROVE TypeOK'
    <3>1. key' \in Keys
      BY <2>10, ScriptKey DEF ReleaseRedis, Releases
    <3>2. sess' \in [Workers -> Sessions]
      BY <2>10 DEF ReleaseRedis, Sessions, Registered
    <3> QED BY <2>10, <3>1, <3>2 DEF ReleaseRedis, Releases
  <2>11. ASSUME NEW w \in Workers, ReleasePg(w) PROVE TypeOK'
    <3>1. row' \in Rows
      BY <2>11, TransactionRow DEF ReleasePg, Releases
    <3> QED BY <2>11, <3>1, IdleTypes DEF ReleasePg
  <2>12. ASSUME NEW w \in Workers, DrainEnd(w) PROVE TypeOK'
    <3>1. beat' \in [Workers -> Beats]
      BY <2>12, ForgetType DEF DrainEnd
    <3> QED BY <2>12, <3>1, EndSessionType DEF DrainEnd
  <2>13. ASSUME NEW w \in Workers, DrainRelease(w) PROVE TypeOK'
    BY <2>13 DEF DrainRelease, Releases, Beats
  <2>14. ASSUME NEW w \in Workers, StrayOpens(w) \/ StrayEnds(w) PROVE TypeOK'
    BY <2>14, IdleTypes DEF StrayOpens, StrayEnds, Strays
  <2>23. ASSUME NEW w \in Workers, StrayTearsDown(w) PROVE TypeOK'
    <3>1. beat' \in [Workers -> Beats]
      BY <2>23, ForgetType DEF StrayTearsDown
    <3>2. Orphaned(sess[w]) \in Strays
      BY IdleTypes DEF Orphaned, Strays, Sessions
    <3>3. rel' \in [Workers -> Releases]
      BY <2>23, SMTT(30) DEF StrayTearsDown, Releases, Strays
    <3> QED BY <2>23, <3>1, <3>2, <3>3, IdleTypes DEF StrayTearsDown
  <2>15. ASSUME NEW w \in Workers, Crash(w) PROVE TypeOK'
    BY <2>15, IdleTypes DEF Crash
  <2>16. ASSUME NEW w \in Workers, BeatStart(w) PROVE TypeOK'
    <3>1. PICK c \in Command(key, RenewScript(key, w, beat[w].held)) :
            /\ key' = c.key
            /\ beat' = [beat EXCEPT ![w] = [@ EXCEPT
                          !.phase = 0, !.leg = "redis", !.left = RedisTimeout,
                          !.snap = beat[w].held, !.renewed = c.reply]]
      BY <2>16 DEF BeatStart
    <3>2. c.key \in Keys /\ c.reply \in Replies
      BY ScriptKey DEF Beats
    <3>3. beat' \in [Workers -> Beats]
      <4>1. [beat[w] EXCEPT !.phase = 0, !.leg = "redis", !.left = RedisTimeout,
               !.snap = beat[w].held, !.renewed = c.reply] \in Beats
        BY <3>2, Ranges, ZenonT(60) DEF Beats
      <4> QED BY <3>1, <4>1
    <3> QED BY <2>16, <3>1, <3>2, <3>3 DEF BeatStart
  <2>17. ASSUME NEW w \in Workers, BeatSkip(w) PROVE TypeOK'
    BY <2>17, Ranges DEF BeatSkip, Beats
  <2>18. ASSUME NEW w \in Workers, BeatRedisReply(w) PROVE TypeOK'
    <3>1. row' \in Rows
      BY <2>18, TransactionRow DEF BeatRedisReply, Beats
    <3>2. beat' \in [Workers -> Beats]
      <4>1. ASSUME NEW n \in {0, beat[w].since}, NEW p \in {"ok", "conflict", "error"}
            PROVE  [beat[w] EXCEPT !.leg = "pg", !.left = PgTimeout,
                                   !.since = n, !.pg = p] \in Beats
        BY Ranges, ZenonT(60) DEF Beats
      <4> DEFINE n == IF beat[w].renewed = "yes" /\ beat[w].held # 0
                        THEN 0 ELSE beat[w].since
                 p(t) == IF ~t.ok THEN "error"
                         ELSE IF OwnsRow(row, w, beat[w].snap) THEN "ok"
                                                               ELSE "conflict"
      <4>2. PICK t \in Transaction(row, RenewRow(row, w, beat[w].snap)) : beat' = [beat EXCEPT ![w] = [beat[w] EXCEPT
                         !.leg = "pg", !.left = PgTimeout, !.since = n, !.pg = p(t)]]
        BY <2>18 DEF BeatRedisReply
      <4>3. n \in {0, beat[w].since} /\ p(t) \in {"ok", "conflict", "error"}
        OBVIOUS
      <4> HIDE DEF n, p
      <4> QED BY <4>1, <4>2, <4>3
    <3> QED BY <2>18, <3>1, <3>2 DEF BeatRedisReply
  <2>19. ASSUME NEW w \in Workers, BeatEnd(w) PROVE TypeOK'
    <3>1. beat' \in [Workers -> Beats]
      <4> DEFINE h == beat[w]
                 rest == [h EXCEPT !.leg = "none", !.left = 0, !.snap = 0,
                            !.renewed = "lost", !.pg = "ok"]
      <4>1. rest \in Beats
        BY ZenonT(60) DEF Beats, Replies
      <4>2. Forget(rest) \in Beats
        BY <4>1, ForgetType
      <4>3. beat' \in {[beat EXCEPT ![w] = Forget(rest)], [beat EXCEPT ![w] = rest]}
        BY <2>19 DEF BeatEnd
      <4> HIDE DEF rest
      <4> QED BY <4>1, <4>2, <4>3
    <3>2. /\ sess' \in [Workers -> Sessions]
          /\ stray' \in [Workers -> Strays]
      BY <2>19, EndSessionType DEF BeatEnd
    <3> QED BY <2>19, <3>1, <3>2 DEF BeatEnd
  <2>20. CASE Tick
    <3>1. key' \in Keys
      BY <2>20, StoreAssumption DEF Tick, AgeKey, Keys, NoKey, Pending
    <3>2. row' \in Rows
      BY <2>20, StoreAssumption DEF Tick, AgeRow, Rows
    <3>3. sess' \in [Workers -> Sessions]
      <4>1. ASSUME NEW w \in Workers PROVE AgeSession(sess[w]) \in Sessions
        <5>1. Less(sess[w].grace) \in 0 .. TakeoverGrace
          BY LessBound, TimingAssumption DEF Sessions
        <5>2. Less(sess[w].wait) \in 0 .. RedisTimeout
          BY LessBound, TimingAssumption DEF Sessions
        <5> QED BY <5>1, <5>2 DEF AgeSession, Sessions
      <4> QED BY <2>20, <4>1 DEF Tick
    <3>4. ASSUME NEW w \in Workers PROVE AgeBeat(w) \in Beats
      <4>1. Timed(w) => beat[w].phase # Heartbeat
        BY <2>20 DEF Tick, Overdue, Fired
      <4>2. (IF Timed(w) THEN beat[w].phase + 1 ELSE 0) \in 0 .. Heartbeat
        <5>1. beat[w].phase \in 0 .. Heartbeat
          BY DEF Beats
        <5> QED BY <5>1, <4>1, TimingAssumption
      <4>3. Less(beat[w].left) \in Nat
        BY DEF Less, Beats
      <4>4. (IF beat[w].held # 0 /\ beat[w].since < Watchdog
               THEN beat[w].since + 1 ELSE beat[w].since) \in 0 .. Watchdog
        <5>1. beat[w].since \in 0 .. Watchdog
          BY DEF Beats
        <5> QED BY <5>1, TimingAssumption
      <4> QED BY <4>2, <4>3, <4>4, ZenonT(60) DEF AgeBeat, Beats
    <3> QED BY <2>20, <3>1, <3>2, <3>3, <3>4 DEF Tick
  <2>21. CASE UNCHANGED vars
    BY <2>21 DEF vars
  <2> QED
    BY <2>1, <2>2, <2>3, <2>4, <2>5, <2>6, <2>7, <2>8, <2>9, <2>10, <2>11,
       <2>12, <2>13, <2>14, <2>15, <2>16, <2>17, <2>18, <2>19, <2>20, <2>21,
       <2>22, <2>23 DEF Next, Work
<1> QED BY <1>1, <1>2, PTL DEF Spec

-----------------------------------------------------------------------------
(* Fences.  FenceUnique and RowIsAuthority are inductive together: a fence  *)
(* enters use by a mint, which takes it beyond every fence there is, and    *)
(* every other step only moves fences about inside one worker, drops them,  *)
(* or writes one of the worker's own into the key.                          *)

FenceInv == FenceUnique /\ RowIsAuthority

\* Only set-fence can bring a fence into the key, and it is the caller's; the
\* other scripts leave the fence that was there, a placeholder or no key.
LEMMA ScriptFence ==
    ASSUME key \in Keys, NEW w \in Workers, NEW f \in Nat
    PROVE  /\ \A c \in Command(key, AcquireScript(key, w)) :
                 \/ c.key.fence = 0
                 \/ c.key.fence = key.fence /\ c.key.owner = key.owner
           /\ \A c \in Command(key, RenewScript(key, w, f)) :
                 c.key.fence = key.fence /\ c.key.owner = key.owner
           /\ \A c \in Command(key, ReleaseScript(key, w, f)) :
                 \/ c.key.fence = 0
                 \/ c.key.fence = key.fence /\ c.key.owner = key.owner
           /\ \A c \in Command(key, SetFenceScript(key, w, f)) :
                 \/ c.key.fence = key.fence /\ c.key.owner = key.owner
                 \/ c.key.fence = f /\ c.key.owner = w
  BY DEF Command, AcquireScript, SetFenceScript, RenewScript, ReleaseScript,
         Executed, Keys, KeyOf, NoKey, Pending, Carries

\* Any step in which no worker takes up a fence, Postgres keeps its fence and
\* the key takes at most a fence its new owner already acts under.
LEMMA NoNewFence ==
    ASSUME TypeOK, TypeOK', FenceInv,
           \A v \in Workers : Fences(v)' \subseteq Fences(v),
           row'.fence = row.fence,
           row'.owner \in {row.owner, NoWorker},
           \/ key'.fence = 0
           \/ key'.fence = key.fence /\ key'.owner = key.owner
           \/ key'.owner \in Workers /\ key'.fence \in Fences(key'.owner)
    PROVE  FenceInv'
<1>1. FenceUnique'
  <2> SUFFICES ASSUME NEW w \in Workers
               PROVE /\ \A v \in Workers \ {w} : Fences(v)' \cap Fences(w)' = {}
                     /\ key'.fence \in Fences(w)' => key'.owner = w
    BY DEF FenceUnique
  <2>1. \A v \in Workers \ {w} : Fences(v) \cap Fences(w) = {}
    BY DEF FenceInv, FenceUnique
  <2>2. key.fence \in Fences(w) => key.owner = w
    BY DEF FenceInv, FenceUnique
  <2>3. 0 \notin Fences(w)
    BY DEF Fences
  <2> QED BY <2>1, <2>2, <2>3
<1>2. RowIsAuthority'
  <2>1. \A w \in Workers : \A f \in Fences(w) : f <= row.fence
    BY DEF FenceInv, RowIsAuthority
  <2>2. key'.fence <= row'.fence
    BY <2>1 DEF FenceInv, RowIsAuthority, TypeOK, Rows, Keys
  <2>3. ASSUME NEW w \in Workers
        PROVE  /\ \A f \in Fences(w)' : f <= row'.fence
               /\ row'.fence \in Fences(w)' => row'.owner \in {w, NoWorker}
    BY <2>1 DEF FenceInv, RowIsAuthority
  <2> QED BY <2>2, <2>3 DEF RowIsAuthority
<1> QED BY <1>1, <1>2 DEF FenceInv

\* An empty session, heartbeat or release carries no fence, and remove drops
\* only the held one.
LEMMA IdleFences ==
    /\ NoSession.fence = 0 /\ NoRelease.fence = 0
    /\ IdleBeat.held = 0 /\ IdleBeat.snap = 0 /\ NoStray.fence = 0
    /\ \A h \in Beats : Forget(h).held = 0 /\ Forget(h).snap = h.snap
  BY DEF NoSession, NoRelease, NoStray, IdleBeat, Forget, Beats

\* Ending a session gives its fence up, to a build that outlives it if to any,
\* and touches no other session's.
LEMMA EndSessionFence ==
    ASSUME TypeOK, NEW w \in Workers, EndSession(w), NEW v \in Workers
    PROVE  /\ sess'[v].fence \in {0, sess[v].fence}
           /\ stray'[v].fence \in {sess[v].fence, stray[v].fence}
  BY IdleFences DEF EndSession, TypeOK

\* LeaseManager.acquire step 2: the minted fence is above every fence in use,
\* so it is shared with nobody and the row names its owner.
LEMMA MintFence ==
    ASSUME TypeOK, TypeOK', FenceInv, NEW w \in Workers, Mint(w)
    PROVE  FenceInv'
<1> DEFINE m == row.fence + 1
<1>1. row.fence \in Nat /\ key.fence \in Nat
  BY DEF TypeOK, Rows, Keys
<1>2. \A v \in Workers : Fences(v)' \subseteq Fences(v) \cup {m}
  BY IdleFences DEF Mint, Fences, TypeOK, Sessions, NoSession
<1>3. \A v \in Workers \ {w} : Fences(v)' = Fences(v)
  BY DEF Mint, Fences, TypeOK
<1>4. \A v \in Workers : Fences(v) \subseteq Nat /\ \A f \in Fences(v) : f <= row.fence
  BY DEF FenceInv, RowIsAuthority, Fences, TypeOK, Sessions, Beats, Releases, Strays
<1>5. key' = key
  BY DEF Mint
<1>6. /\ row'.fence \in {row.fence, m}
      /\ row'.fence = m => row'.owner = w
      /\ row'.fence = row.fence => row'.owner = row.owner
      /\ m \in Fences(w)' => row'.fence = m
  <2>1. PICK t \in Transaction(row, MintRow(row, w)) :
          row' = t.row /\ (m \in Fences(w)' => t.ok)
    <3>1. m \notin Fences(w)
      BY <1>1, <1>4
    <3>2. PICK t \in Transaction(row, MintRow(row, w)) :
            /\ row' = t.row
            /\ ~t.ok => sess'[w].fence = 0
      BY DEF Mint, TypeOK, NoSession
    <3>3. sess'[w].fence = 0 => Fences(w)' \subseteq Fences(w)
      BY DEF Mint, Fences
    <3> QED BY <3>1, <3>2, <3>3
  <2> QED BY <2>1, <1>1 DEF Transaction, MintRow
<1>7. FenceUnique'
  <2> SUFFICES ASSUME NEW v \in Workers
               PROVE /\ \A u \in Workers \ {v} : Fences(u)' \cap Fences(v)' = {}
                     /\ key'.fence \in Fences(v)' => key'.owner = v
    BY DEF FenceUnique
  <2>1. \A u \in Workers \ {v} : Fences(u) \cap Fences(v) = {}
    BY DEF FenceInv, FenceUnique
  <2>2. key.fence \in Fences(v) => key.owner = v
    BY DEF FenceInv, FenceUnique
  <2>3. \A u \in Workers : m \notin Fences(u)
    BY <1>1, <1>4
  <2>4. key.fence # m
    BY <1>1 DEF FenceInv, RowIsAuthority
  <2> HIDE DEF m
  <2> QED BY <1>2, <1>3, <1>5, <2>1, <2>2, <2>3, <2>4
<1>8. RowIsAuthority'
  <2>1. key'.fence <= row'.fence
    BY <1>1, <1>5, <1>6 DEF FenceInv, RowIsAuthority
  <2>2. ASSUME NEW v \in Workers
        PROVE  /\ \A f \in Fences(v)' : f <= row'.fence
               /\ row'.fence \in Fences(v)' => row'.owner \in {v, NoWorker}
    <3>1. \A f \in Fences(v)' : f <= row'.fence
      BY <1>1, <1>2, <1>3, <1>4, <1>6
    <3>2. row.fence \in Fences(v) => row.owner \in {v, NoWorker}
      BY DEF FenceInv, RowIsAuthority
    <3>3. m \notin Fences(v)
      BY <1>1, <1>4
    <3> QED BY <1>1, <1>2, <1>3, <1>6, <3>1, <3>2, <3>3
  <2> QED BY <2>1, <2>2 DEF RowIsAuthority
<1> QED BY <1>7, <1>8 DEF FenceInv

\* Every step of discovery and of acquire but the mint moves a fence only within
\* its worker, and set-fence writes into the key the fence its caller carries.
LEMMA AcquireFence ==
    ASSUME TypeOK, TypeOK', FenceInv, NEW w \in Workers,
           Scan(w) \/ PassOver(w) \/ Place(w) \/ UndoPlace(w) \/ SetFence(w)
           \/ AddLease(w)
    PROVE  FenceInv'
<1>1. CASE Scan(w) \/ PassOver(w)
  <2>1. \A v \in Workers : Fences(v)' \subseteq Fences(v)
    BY <1>1, IdleFences DEF Scan, PassOver, Fences, TypeOK, Sessions
  <2> QED BY <1>1, <2>1, NoNewFence DEF Scan, PassOver
<1>2. CASE Place(w)
  <2>1. \A v \in Workers : Fences(v)' \subseteq Fences(v)
    BY <1>2, IdleFences DEF Place, Fences, TypeOK, NoSession
  <2>2. \/ key'.fence = 0
        \/ key'.fence = key.fence /\ key'.owner = key.owner
    <3>1. PICK c \in Command(key, AcquireScript(key, w)) : key' = c.key
      BY <1>2 DEF Place
    <3>2. \/ c.key.fence = 0
          \/ c.key.fence = key.fence /\ c.key.owner = key.owner
      <4>1. Pending \in Nat
        BY DEF Pending
      <4> QED BY <4>1, ScriptFence DEF TypeOK
    <3> QED BY <3>1, <3>2
  <2> QED BY <1>2, <2>1, <2>2, NoNewFence DEF Place
<1>3. CASE UndoPlace(w)
  <2>1. \A v \in Workers : Fences(v)' \subseteq Fences(v)
    BY <1>3, IdleFences DEF UndoPlace, Fences, TypeOK
  <2>2. \/ key'.fence = 0
        \/ key'.fence = key.fence /\ key'.owner = key.owner
    <3>1. PICK c \in Command(key, ReleaseScript(key, w, Pending)) : key' = c.key
      BY <1>3 DEF UndoPlace
    <3>2. \/ c.key.fence = 0
          \/ c.key.fence = key.fence /\ c.key.owner = key.owner
      <4>1. Pending \in Nat
        BY DEF Pending
      <4> QED BY <4>1, ScriptFence DEF TypeOK
    <3> QED BY <3>1, <3>2
  <2> QED BY <1>3, <2>1, <2>2, NoNewFence DEF UndoPlace
<1>4. CASE SetFence(w)
  <2>1. \A v \in Workers : Fences(v)' \subseteq Fences(v)
    BY <1>4, IdleFences DEF SetFence, Fences, TypeOK, Sessions
  <2>2. \/ key'.fence = key.fence /\ key'.owner = key.owner
        \/ key'.fence = sess[w].fence /\ key'.owner = w
    BY <1>4, ScriptFence DEF SetFence, TypeOK, Sessions
  <2>3. sess[w].fence = 0 \/ sess[w].fence \in Fences(w)
    BY DEF Fences
  <2> QED BY <1>4, <2>1, <2>2, <2>3, NoNewFence DEF SetFence
<1>5. CASE AddLease(w)
  <2>1. \A v \in Workers : Fences(v)' \subseteq Fences(v)
    <3>1. \A v \in Workers : sess'[v].fence = sess[v].fence
      BY <1>5 DEF AddLease, TypeOK, Sessions
    <3>2. \A v \in Workers : /\ beat'[v].snap = beat[v].snap
                             /\ beat'[v].held \in {beat[v].held, sess[v].fence}
      <4>1. ASSUME NEW p
            PROVE  LET h == [beat[w] EXCEPT !.held = sess[w].fence,
                                            !.since = 0, !.phase = p]
                   IN h.held = sess[w].fence /\ h.snap = beat[w].snap
        BY DEF TypeOK, Beats
      <4>2. PICK p : beat' = [beat EXCEPT ![w] = [beat[w] EXCEPT
                        !.held = sess[w].fence, !.since = 0, !.phase = p]]
        BY <1>5 DEF AddLease
      <4> QED BY <4>1, <4>2 DEF TypeOK
    <3> QED BY <1>5, <3>1, <3>2 DEF AddLease, Fences
  <2> QED BY <1>5, <2>1, NoNewFence DEF AddLease
<1> QED BY <1>1, <1>2, <1>3, <1>4, <1>5

\* The runner's steps on a lease it has: register, build, open, close, give up.
LEMMA RunnerFence ==
    ASSUME TypeOK, TypeOK', FenceInv, NEW w \in Workers,
           Register(w) \/ EpochReadFails(w) \/ BeginBuild(w) \/ FinishBuild(w)
           \/ Disconnect(w) \/ StrayOpens(w) \/ StrayEnds(w) \/ Crash(w)
    PROVE  FenceInv'
<1>1. \A v \in Workers : Fences(v)' \subseteq Fences(v)
  <2>1. CASE Register(w) \/ EpochReadFails(w) \/ BeginBuild(w) \/ FinishBuild(w)
             \/ Disconnect(w)
    <3>1. UNCHANGED <<beat, rel, stray>>
      BY <2>1 DEF Register, EpochReadFails, BeginBuild, FinishBuild, Disconnect
    <3>2. CASE EpochReadFails(w)
      BY <3>1, <3>2, IdleFences DEF EpochReadFails, Fences, TypeOK
    <3>3. CASE Register(w) \/ BeginBuild(w) \/ FinishBuild(w) \/ Disconnect(w)
      <4>1. PICK p : sess' = [sess EXCEPT ![w].pc = p]
        BY <3>3 DEF Register, BeginBuild, FinishBuild, Disconnect
      <4>2. \A v \in Workers : sess'[v].fence = sess[v].fence
        BY <4>1 DEF TypeOK, Sessions
      <4> QED BY <3>1, <4>2 DEF Fences
    <3> QED BY <2>1, <3>2, <3>3
  <2>2. CASE StrayOpens(w) \/ StrayEnds(w)
    BY <2>2, IdleFences DEF StrayOpens, StrayEnds, Fences, TypeOK, Strays
  <2>3. CASE Crash(w)
    BY <2>3, IdleFences DEF Crash, Fences, TypeOK
  <2> QED BY <2>1, <2>2, <2>3
<1>2. UNCHANGED <<key, row>>
  BY DEF Register, EpochReadFails, BeginBuild, FinishBuild, Disconnect,
         StrayOpens, StrayEnds, Crash
<1> QED BY <1>1, <1>2, NoNewFence

\* Teardown, release, drain and crash only pass a fence on within the worker or
\* give it up, and what release.lua and lease-release write is a deletion.
LEMMA TeardownFence ==
    ASSUME TypeOK, TypeOK', FenceInv, NEW w \in Workers,
           TeardownWithRelease(w) \/ TeardownNoRelease(w) \/ ReleaseRedis(w)
           \/ ReleasePg(w) \/ DrainEnd(w) \/ DrainRelease(w) \/ StrayTearsDown(w)
    PROVE  FenceInv'
<1>6. CASE TeardownNoRelease(w)
  <2>1. \A v \in Workers : /\ sess'[v].fence \in {0, sess[v].fence}
                           /\ stray'[v].fence \in {sess[v].fence, stray[v].fence}
    BY <1>6, EndSessionFence DEF TeardownNoRelease
  <2>2. \A v \in Workers : Fences(v)' \subseteq Fences(v)
    BY <1>6, <2>1, IdleFences DEF TeardownNoRelease, Fences, TypeOK
  <2> QED BY <1>6, <2>2, NoNewFence DEF TeardownNoRelease
<1>7. CASE StrayTearsDown(w)
  <2>1. \A v \in Workers : /\ sess'[v].fence \in {0, sess[v].fence}
                           /\ stray'[v].fence \in {0, sess[v].fence, stray[v].fence}
    <3>1. Orphaned(sess[w]).fence \in {0, sess[w].fence}
      BY IdleFences DEF Orphaned
    <3> QED BY <1>7, <3>1, IdleFences DEF StrayTearsDown, TypeOK
  <2>2. \A v \in Workers : Fences(v)' \subseteq Fences(v)
    BY <1>7, <2>1, IdleFences DEF StrayTearsDown, Fences, TypeOK
  <2> QED BY <1>7, <2>2, NoNewFence DEF StrayTearsDown
<1>1. CASE TeardownWithRelease(w)
  <2>1. \A v \in Workers : /\ sess'[v].fence \in {0, sess[v].fence}
                           /\ stray'[v].fence \in {sess[v].fence, stray[v].fence}
    BY <1>1, EndSessionFence DEF TeardownWithRelease
  <2>2. \A v \in Workers : Fences(v)' \subseteq Fences(v)
    BY <1>1, <2>1, IdleFences DEF TeardownWithRelease, Fences, TypeOK
  <2> QED BY <1>1, <2>2, NoNewFence DEF TeardownWithRelease
<1>2. CASE ReleaseRedis(w)
  <2>1. \A v \in Workers : Fences(v)' \subseteq Fences(v)
    <3>1. \A v \in Workers : sess'[v].fence = sess[v].fence
      BY <1>2 DEF ReleaseRedis, TypeOK, Sessions
    <3> QED BY <1>2, <3>1 DEF ReleaseRedis, Fences, TypeOK, Releases
  <2>2. \/ key'.fence = 0
        \/ key'.fence = key.fence /\ key'.owner = key.owner
    BY <1>2, ScriptFence DEF ReleaseRedis, TypeOK, Releases
  <2> QED BY <1>2, <2>1, <2>2, NoNewFence DEF ReleaseRedis
<1>3. CASE ReleasePg(w)
  <2>1. \A v \in Workers : Fences(v)' \subseteq Fences(v)
    BY <1>3, IdleFences DEF ReleasePg, Fences, TypeOK
  <2>2. row'.fence = row.fence /\ row'.owner \in {row.owner, NoWorker}
    <3>1. PICK t \in Transaction(row, ReleaseRow(row, w, rel[w].fence)) : row' = t.row
      BY <1>3 DEF ReleasePg
    <3>2. /\ ReleaseRow(row, w, rel[w].fence).fence = row.fence
          /\ ReleaseRow(row, w, rel[w].fence).owner \in {row.owner, NoWorker}
      BY DEF ReleaseRow, TypeOK, Rows
    <3> QED BY <3>1, <3>2 DEF Transaction
  <2> QED BY <1>3, <2>1, <2>2, NoNewFence DEF ReleasePg
<1>4. CASE DrainEnd(w)
  <2>1. \A v \in Workers : /\ sess'[v].fence \in {0, sess[v].fence}
                           /\ stray'[v].fence \in {sess[v].fence, stray[v].fence}
    BY <1>4, EndSessionFence DEF DrainEnd
  <2>2. \A v \in Workers : Fences(v)' \subseteq Fences(v)
    BY <1>4, <2>1, IdleFences DEF DrainEnd, Fences, TypeOK
  <2> QED BY <1>4, <2>2, NoNewFence DEF DrainEnd
<1>5. CASE DrainRelease(w)
  <2>1. \A v \in Workers : Fences(v)' \subseteq Fences(v)
    BY <1>5 DEF DrainRelease, Fences, TypeOK, Releases
  <2> QED BY <1>5, <2>1, NoNewFence DEF DrainRelease
<1> QED BY <1>1, <1>2, <1>3, <1>4, <1>5, <1>6, <1>7

\* The heartbeat snapshots the fence it holds and its renewals write no fence.
LEMMA BeatFence ==
    ASSUME TypeOK, TypeOK', FenceInv, NEW w \in Workers,
           BeatStart(w) \/ BeatSkip(w) \/ BeatRedisReply(w) \/ BeatEnd(w)
    PROVE  FenceInv'
<1>1. CASE BeatStart(w)
  <2>1. \A v \in Workers : Fences(v)' \subseteq Fences(v)
    <3>1. \A v \in Workers : /\ beat'[v].held = beat[v].held
                             /\ beat'[v].snap \in {beat[v].held, beat[v].snap}
      <4>1. ASSUME NEW c
            PROVE  LET h == [beat[w] EXCEPT !.phase = 0, !.leg = "redis",
                               !.left = RedisTimeout, !.snap = beat[w].held,
                               !.renewed = c.reply]
                   IN h.held = beat[w].held /\ h.snap = beat[w].held
        BY DEF TypeOK, Beats
      <4>2. PICK c : beat' = [beat EXCEPT ![w] = [beat[w] EXCEPT
                        !.phase = 0, !.leg = "redis", !.left = RedisTimeout,
                        !.snap = beat[w].held, !.renewed = c.reply]]
        BY <1>1 DEF BeatStart
      <4> QED BY <4>1, <4>2 DEF TypeOK
    <3> QED BY <1>1, <3>1 DEF BeatStart, Fences
  <2>2. \/ key'.fence = 0
        \/ key'.fence = key.fence /\ key'.owner = key.owner
    <3>1. PICK c \in Command(key, RenewScript(key, w, beat[w].held)) : key' = c.key
      BY <1>1 DEF BeatStart
    <3>2. beat[w].held \in Nat
      BY DEF TypeOK, Beats
    <3> QED BY <3>1, <3>2, ScriptFence DEF TypeOK
  <2> QED BY <1>1, <2>1, <2>2, NoNewFence DEF BeatStart
<1>2. CASE BeatSkip(w)
  <2>1. \A v \in Workers : Fences(v)' \subseteq Fences(v)
    BY <1>2 DEF BeatSkip, Fences, TypeOK, Beats
  <2> QED BY <1>2, <2>1, NoNewFence DEF BeatSkip
<1>3. CASE BeatRedisReply(w)
  <2>1. \A v \in Workers : Fences(v)' \subseteq Fences(v)
    <3>1. \A v \in Workers : /\ beat'[v].held = beat[v].held
                             /\ beat'[v].snap = beat[v].snap
      <4>1. ASSUME NEW n, NEW p
            PROVE  LET h == [beat[w] EXCEPT !.leg = "pg", !.left = PgTimeout,
                                            !.since = n, !.pg = p]
                   IN h.held = beat[w].held /\ h.snap = beat[w].snap
        BY DEF TypeOK, Beats
      <4>2. PICK n, p : beat' = [beat EXCEPT ![w] = [beat[w] EXCEPT !.leg = "pg",
                                   !.left = PgTimeout, !.since = n, !.pg = p]]
        BY <1>3, ZenonT(60) DEF BeatRedisReply
      <4> QED BY <4>1, <4>2 DEF TypeOK
    <3> QED BY <1>3, <3>1 DEF BeatRedisReply, Fences
  <2>2. row'.fence = row.fence /\ row'.owner = row.owner
    BY <1>3 DEF BeatRedisReply, Transaction, RenewRow, TypeOK, Rows
  <2> QED BY <1>3, <2>1, <2>2, NoNewFence DEF BeatRedisReply
<1>4. CASE BeatEnd(w)
  <2>1. \A v \in Workers : /\ sess'[v].fence \in {0, sess[v].fence}
                           /\ stray'[v].fence \in {sess[v].fence, stray[v].fence}
    BY <1>4, EndSessionFence DEF BeatEnd
  <2>2. \A v \in Workers :
          beat'[v].held \in {0, beat[v].held} /\ beat'[v].snap \in {0, beat[v].snap}
    <3> DEFINE h == beat[w]
               rest == [h EXCEPT !.leg = "none", !.left = 0, !.snap = 0,
                          !.renewed = "lost", !.pg = "ok"]
    <3>1. /\ rest.held = h.held /\ rest.snap = 0
          /\ Forget(rest).held = 0 /\ Forget(rest).snap = 0
      BY DEF TypeOK, Beats, Forget
    <3>2. beat' \in {[beat EXCEPT ![w] = Forget(rest)], [beat EXCEPT ![w] = rest]}
      BY <1>4 DEF BeatEnd
    <3> HIDE DEF rest
    <3> QED BY <3>1, <3>2 DEF TypeOK
  <2>3. \A v \in Workers : Fences(v)' \subseteq Fences(v)
    BY <1>4, <2>1, <2>2 DEF BeatEnd, Fences
  <2> QED BY <1>4, <2>3, NoNewFence DEF BeatEnd
<1> QED BY <1>1, <1>2, <1>3, <1>4

\* Time changes no fence; a key that expires takes its fence with it.
LEMMA TickFence == ASSUME TypeOK, TypeOK', FenceInv, Tick PROVE FenceInv'
<1>1. \A v \in Workers : Fences(v)' \subseteq Fences(v)
  <2> TAKE v \in Workers
  <2>1. sess'[v].fence = sess[v].fence
    BY DEF Tick, AgeSession, TypeOK, Sessions
  <2>2. AgeBeat(v).held = beat[v].held /\ AgeBeat(v).snap = beat[v].snap
    BY DEF AgeBeat, TypeOK, Beats
  <2> QED BY <2>1, <2>2 DEF Tick, Fences
<1>2. row'.fence = row.fence /\ row'.owner = row.owner
  <2>1. AgeRow(row).fence = row.fence /\ AgeRow(row).owner = row.owner
    BY DEF AgeRow, TypeOK, Rows
  <2> QED BY <2>1 DEF Tick
<1>3. \/ key'.fence = 0
      \/ key'.fence = key.fence /\ key'.owner = key.owner
  <2>1. \/ AgeKey(key).fence = 0
        \/ AgeKey(key).fence = key.fence /\ AgeKey(key).owner = key.owner
    <3>1. CASE key.ttl <= 1
      BY <3>1 DEF AgeKey, NoKey, Pending
    <3>2. CASE ~(key.ttl <= 1)
      <4>1. AgeKey(key) = [key EXCEPT !.ttl = @ - 1]
        BY <3>2 DEF AgeKey
      <4> QED BY <4>1 DEF TypeOK, Keys
    <3> QED BY <3>1, <3>2
  <2> QED BY <2>1 DEF Tick
<1> QED BY <1>1, <1>2, <1>3, NoNewFence

\* A fence identifies one worker: whatever is lost, retried, crashed or late,
\* no two workers act under the same fence, the key names the only worker that
\* acts under its fence, and the row's fence is the highest and its owner's.
THEOREM FencesIdentifyOwners == Spec => [](FenceUnique /\ RowIsAuthority)
<1>1. Init => FenceInv
  BY IdleFences
     DEF Init, FenceInv, FenceUnique, RowIsAuthority, Fences, NoKey, NoRow, Pending
<1>2. TypeOK /\ TypeOK' /\ FenceInv /\ [Next]_vars => FenceInv'
  <2> SUFFICES ASSUME TypeOK, TypeOK', FenceInv, [Next]_vars PROVE FenceInv'
    OBVIOUS
  <2>1. CASE Tick
    BY <2>1, TickFence
  <2>2. ASSUME NEW w \in Workers, Work(w) PROVE FenceInv'
    BY <2>2, MintFence, AcquireFence, RunnerFence, TeardownFence, BeatFence DEF Work
  <2>3. CASE UNCHANGED vars
    BY <2>3 DEF vars, FenceInv, FenceUnique, RowIsAuthority, Fences
  <2> QED BY <2>1, <2>2, <2>3 DEF Next
<1> QED BY <1>1, <1>2, TypeCorrect, PTL DEF Spec, FenceInv

\* No worker acts under a later fence than the row's, and who acts under the row's is its
\* owner: mint-fence's row decides, whatever Redis has forgotten meanwhile.
THEOREM RowDecides == Spec => []RowIsAuthority
  BY FencesIdentifyOwners, PTL

-----------------------------------------------------------------------------
(* Releases.  A row is released under a fence that no session carries any    *)
(* more: the release was started by giving the session up, and a later       *)
(* session of the same worker carries a later fence.                         *)

Fenced == {"minted", "fencing", "reading"} \cup Registered

ReleaseInv ==
    /\ row.owner # NoWorker => row.fence # 0
    /\ row.released =>
         row.fence # 0 /\ \A w \in Workers : sess[w].fence # row.fence
    /\ \A w \in Workers :
         /\ rel[w].leg # "none" => rel[w].fence # 0 /\ sess[w].fence # rel[w].fence
         /\ stray[w].at # "none" =>
              stray[w].fence # 0 /\ sess[w].fence # stray[w].fence
         /\ drain[w] => sess[w] = NoSession
         /\ sess[w].pc \in Fenced => sess[w].fence # 0

\* Any step that takes up no fence and starts no release.
LEMMA NoNewRelease ==
    ASSUME ReleaseInv,
           row'.fence = row.fence, row'.owner = row.owner,
           row'.released = row.released,
           \A v \in Workers :
              /\ rel'[v].leg # "none" => rel'[v].fence = rel[v].fence /\ rel[v].leg # "none"
              /\ stray'[v].at # "none" =>
                   \/ stray[v].at # "none" /\ stray'[v].fence = stray[v].fence
                   \/ stray'[v].fence # 0 /\ sess'[v].fence = 0
              /\ drain'[v] => sess'[v] = NoSession
              /\ sess'[v].fence \in {0, sess[v].fence}
              /\ sess'[v].pc \in Fenced => sess'[v].fence # 0
    PROVE  ReleaseInv'
  BY DEF ReleaseInv

\* What each action that changes w's session alone must show of it.
LEMMA OneSession ==
    ASSUME TypeOK, ReleaseInv, NEW w \in Workers, NEW s,
           sess' = [sess EXCEPT ![w] = s],
           s = NoSession \/ (/\ sess[w] # NoSession \/ ~drain[w]
                             /\ s.fence \in {0, sess[w].fence}
                             /\ s.pc \in Fenced => s.fence # 0),
           UNCHANGED <<row, rel, stray, drain>>
    PROVE  ReleaseInv'
<1>1. NoSession.fence = 0 /\ NoSession.pc \notin Fenced
  BY DEF NoSession, Fenced, Registered
<1>2. ASSUME NEW v \in Workers
      PROVE  /\ drain'[v] => sess'[v] = NoSession
             /\ sess'[v].fence \in {0, sess[v].fence}
             /\ sess'[v].pc \in Fenced => sess'[v].fence # 0
  <2>1. CASE v = w
    BY <2>1, <1>1 DEF TypeOK, ReleaseInv
  <2>2. CASE v # w
    BY <2>2 DEF TypeOK, ReleaseInv
  <2> QED BY <2>1, <2>2
<1> QED BY <1>2, NoNewRelease

\* Acquire and the runner start no release and keep the session's fence.
LEMMA AcquireRelease ==
    ASSUME TypeOK, TypeOK', FenceInv, ReleaseInv, NEW w \in Workers,
           Scan(w) \/ PassOver(w) \/ Place(w) \/ UndoPlace(w) \/ SetFence(w)
           \/ AddLease(w) \/ Register(w) \/ EpochReadFails(w) \/ BeginBuild(w)
           \/ FinishBuild(w) \/ Disconnect(w)
    PROVE  ReleaseInv'
<1> DEFINE s == sess[w]
<1>1. s \in Sessions
  BY DEF TypeOK
<1>2. CASE PassOver(w) \/ UndoPlace(w) \/ EpochReadFails(w)
  BY <1>2, OneSession DEF PassOver, UndoPlace, EpochReadFails
<1>3. CASE Scan(w)
  <2>1. [s EXCEPT !.pc = "found"].fence = s.fence /\ [s EXCEPT !.pc = "found"].pc \notin Fenced
    BY <1>1 DEF Sessions, Fenced, Registered
  <2> QED BY <1>3, <2>1, OneSession DEF Scan
<1>4. CASE Place(w)
  <2>1. LET p == [NoSession EXCEPT !.pc = "placed"] IN p.fence = 0 /\ p.pc \notin Fenced
    BY DEF NoSession, Fenced, Registered
  <2>2. sess[w] # NoSession
    BY <1>4 DEF Place, NoSession
  <2> QED BY <1>4, <2>1, <2>2, OneSession DEF Place
<1>5. CASE SetFence(w) \/ AddLease(w) \/ Register(w) \/ BeginBuild(w)
           \/ FinishBuild(w) \/ Disconnect(w)
  <2>1. sess[w].pc \in Fenced
    BY <1>5 DEF SetFence, AddLease, Register, BeginBuild, FinishBuild, Disconnect,
                Fenced, Registered
  <2>2. sess[w].fence # 0 /\ sess[w] # NoSession
    BY <2>1 DEF ReleaseInv, Fenced, Registered, NoSession
  <2>3. PICK t : sess' = [sess EXCEPT ![w] = t] /\ (t = NoSession \/ t.fence = sess[w].fence)
    <3>1. CASE SetFence(w)
      <4> DEFINE t == [sess[w] EXCEPT !.pc = "fencing", !.wait = RedisTimeout]
      <4>1. t.fence = sess[w].fence
        BY <1>1 DEF Sessions
      <4>2. sess' \in {[sess EXCEPT ![w] = t], [sess EXCEPT ![w] = NoSession]}
        BY <3>1 DEF SetFence
      <4> HIDE DEF t
      <4> QED BY <4>1, <4>2
    <3>2. CASE AddLease(w)
      <4> DEFINE t == [sess[w] EXCEPT !.pc = "reading", !.wait = 0]
      <4>1. t.fence = sess[w].fence
        BY <1>1 DEF Sessions
      <4>2. sess' \in {[sess EXCEPT ![w] = t], [sess EXCEPT ![w] = NoSession]}
        BY <3>2 DEF AddLease
      <4> HIDE DEF t
      <4> QED BY <4>1, <4>2
    <3>3. CASE Register(w) \/ BeginBuild(w) \/ FinishBuild(w) \/ Disconnect(w)
      <4>1. PICK p : sess' = [sess EXCEPT ![w] = [sess[w] EXCEPT !.pc = p]]
        BY <3>3 DEF Register, BeginBuild, FinishBuild, Disconnect
      <4>2. [sess[w] EXCEPT !.pc = p].fence = sess[w].fence
        BY <1>1 DEF Sessions
      <4> QED BY <4>1, <4>2
    <3> QED BY <1>5, <3>1, <3>2, <3>3
  <2>4. UNCHANGED <<row, rel, stray, drain>>
    BY <1>5 DEF SetFence, AddLease, Register, BeginBuild, FinishBuild, Disconnect
  <2> QED BY <2>2, <2>3, <2>4, OneSession
<1> QED BY <1>2, <1>3, <1>4, <1>5

\* A mint clears released_at and its fence is in no release under way.
LEMMA MintRelease ==
    ASSUME TypeOK, TypeOK', FenceInv, ReleaseInv, NEW w \in Workers, Mint(w)
    PROVE  ReleaseInv'
<1> DEFINE m == row.fence + 1
<1>1. PICK t \in Transaction(row, MintRow(row, w)), g \in Graces(row) :
        /\ row' = t.row
        /\ sess' = [sess EXCEPT ![w] =
                      IF t.ok THEN [NoSession EXCEPT !.pc = "minted", !.fence = m, !.grace = g]
                              ELSE [NoSession EXCEPT !.pc = "undoing"]]
  BY DEF Mint
<1>2. /\ NoSession.fence = 0
      /\ LET u == [NoSession EXCEPT !.pc = "undoing"] IN u.fence = 0 /\ u.pc \notin Fenced
      /\ [NoSession EXCEPT !.pc = "minted", !.fence = m, !.grace = g].fence = m
  BY DEF NoSession, Fenced, Registered
<1>3. /\ row.fence \in Nat /\ m # 0
      /\ \A v \in Workers :
           sess[v].fence # m /\ rel[v].fence # m /\ stray[v].fence # m
  <2>1. /\ row.fence \in Nat
        /\ \A v \in Workers : /\ sess[v].fence \in Nat
                              /\ rel[v].fence \in Nat
                              /\ stray[v].fence \in Nat
    BY DEF TypeOK, Rows, Sessions, Releases, Strays
  <2>2. \A v \in Workers : /\ sess[v].fence <= row.fence
                           /\ rel[v].fence <= row.fence
                           /\ stray[v].fence <= row.fence
    BY <2>1 DEF FenceInv, RowIsAuthority, Fences
  <2> QED BY <2>1, <2>2
<1>4. \/ row' = row /\ ~t.ok
      \/ row'.fence = m /\ row'.released = FALSE
  BY <1>1 DEF Transaction, MintRow
<1>5. ~drain[w] /\ UNCHANGED <<rel, stray, drain>>
  BY DEF Mint, ReleaseInv, NoSession
<1> HIDE DEF m
<1>6. ASSUME NEW v \in Workers
      PROVE  /\ sess'[v].fence \in {0, m, sess[v].fence}
             /\ ~t.ok => sess'[v].fence \in {0, sess[v].fence}
             /\ v # w => sess'[v] = sess[v]
             /\ v = w => sess'[v].fence \in {0, m}
             /\ sess'[v].pc \in Fenced => sess'[v].fence # 0
  <2>1. CASE v = w
    BY <2>1, <1>1, <1>2, <1>3 DEF TypeOK
  <2>2. CASE v # w
    BY <2>2, <1>1 DEF TypeOK, ReleaseInv
  <2> QED BY <2>1, <2>2
<1> QED BY <1>3, <1>4, <1>5, <1>6 DEF ReleaseInv

\* Ending a session leaves at most a build with that session's own fence.
LEMMA EndSessionStray ==
    ASSUME TypeOK, ReleaseInv, NEW w \in Workers, sess[w].pc \in Registered,
           EndSession(w), NEW v \in Workers, stray'[v].at # "none"
    PROVE  \/ stray[v].at # "none" /\ stray'[v].fence = stray[v].fence
           \/ stray'[v].fence # 0 /\ sess'[v].fence = 0
<1>1. CASE stray'[v] = stray[v]
  BY <1>1
<1>2. CASE stray'[v] # stray[v]
  <2>1. v = w /\ stray'[w] = [at |-> "building", fence |-> sess[w].fence]
    BY <1>2 DEF EndSession, TypeOK
  <2>2. sess[w].fence # 0 /\ sess'[w] = NoSession
    BY DEF EndSession, TypeOK, ReleaseInv, Fenced
  <2> QED BY <2>1, <2>2, IdleFences
<1> QED BY <1>1, <1>2

\* A teardown that starts no release keeps ReleaseInv.
LEMMA EndWithoutRelease ==
    ASSUME TypeOK, TypeOK', ReleaseInv, NEW w \in Workers,
           TeardownNoRelease(w) \/ DrainEnd(w) \/ BeatEnd(w)
    PROVE  ReleaseInv'
<1>1. NoSession.fence = 0 /\ NoSession.pc \notin Fenced
  BY DEF NoSession, Fenced, Registered
<1>2. UNCHANGED <<row, rel>>
  BY DEF TeardownNoRelease, DrainEnd, BeatEnd
<1>3. \/ UNCHANGED <<sess, stray>>
      \/ sess[w].pc \in Registered /\ EndSession(w)
  BY DEF TeardownNoRelease, DrainEnd, BeatEnd
<1>4. drain' = drain \/ (drain' = [drain EXCEPT ![w] = TRUE] /\ sess'[w] = NoSession)
  BY DEF TeardownNoRelease, DrainEnd, BeatEnd, EndSession, TypeOK
<1>5. ASSUME NEW v \in Workers
      PROVE  /\ sess'[v] \in {sess[v], NoSession}
             /\ drain'[v] => sess'[v] = NoSession
             /\ sess'[v].fence \in {0, sess[v].fence}
             /\ sess'[v].pc \in Fenced => sess'[v].fence # 0
  <2>1. sess'[v] \in {sess[v], NoSession}
    BY <1>3 DEF EndSession, TypeOK
  <2>2. drain'[v] => drain[v] \/ sess'[v] = NoSession
    BY <1>4 DEF TypeOK
  <2> QED BY <2>1, <2>2, <1>1 DEF ReleaseInv
<1>6. ASSUME NEW v \in Workers, stray'[v].at # "none"
      PROVE  \/ stray[v].at # "none" /\ stray'[v].fence = stray[v].fence
             \/ stray'[v].fence # 0 /\ sess'[v].fence = 0
  BY <1>3, <1>6, EndSessionStray
<1> QED BY <1>2, <1>5, <1>6, NoNewRelease

\* A release starts with the session's or the stray's fence, which no session
\* of the worker carries any more.
LEMMA StartRelease ==
    ASSUME TypeOK, TypeOK', FenceInv, ReleaseInv, NEW w \in Workers,
           TeardownWithRelease(w) \/ DrainRelease(w) \/ StrayTearsDown(w)
    PROVE  ReleaseInv'
<1>1. NoSession.fence = 0 /\ NoSession.pc \notin Fenced
  BY DEF NoSession, Fenced, Registered
<1>2. UNCHANGED row /\ \A v \in Workers : drain'[v] => drain[v]
  BY DEF TeardownWithRelease, DrainRelease, StrayTearsDown, TypeOK
<1>3. sess' \in {sess, [sess EXCEPT ![w] = NoSession]}
  BY DEF TeardownWithRelease, DrainRelease, StrayTearsDown, EndSession
<1>4. \A v \in Workers : /\ sess'[v].fence \in {0, sess[v].fence}
                         /\ sess'[v].pc \in Fenced => sess'[v].fence # 0
                         /\ drain[v] => sess'[v] = NoSession
  BY <1>1, <1>3 DEF TypeOK, ReleaseInv
<1>5. ASSUME NEW v \in Workers
      PROVE  rel'[v].leg # "none" => rel'[v].fence # 0 /\ sess'[v].fence # rel'[v].fence
  <2>1. CASE TeardownWithRelease(w)
    <3>1. sess[w].fence # 0
      BY <2>1 DEF TeardownWithRelease, ReleaseInv, Fenced
    <3>2. /\ rel' = [rel EXCEPT ![w] = [leg |-> "redis", fence |-> sess[w].fence]]
          /\ sess' = [sess EXCEPT ![w] = NoSession]
      BY <2>1 DEF TeardownWithRelease, EndSession
    <3> QED BY <1>1, <1>4, <3>1, <3>2 DEF TypeOK, ReleaseInv
  <2>2. CASE DrainRelease(w)
    <3>1. /\ sess' = sess
          /\ rel' = [rel EXCEPT ![w] = IF beat[w].held = 0 THEN @
                                ELSE [leg |-> "redis", fence |-> beat[w].held]]
      BY <2>2 DEF DrainRelease
    <3>2. sess[w].fence = 0
      BY <2>2, <1>1 DEF DrainRelease, ReleaseInv
    <3> QED BY <1>4, <3>1, <3>2 DEF TypeOK, ReleaseInv
  <2>3. CASE StrayTearsDown(w)
    <3>1. stray[w].fence # 0 /\ sess[w].fence # stray[w].fence
      BY <2>3 DEF StrayTearsDown, ReleaseInv
    <3>2. rel' \in {rel, [rel EXCEPT ![w] = [leg |-> "redis", fence |-> stray[w].fence]]}
      BY <2>3 DEF StrayTearsDown
    <3> QED BY <1>4, <3>1, <3>2 DEF TypeOK, ReleaseInv
  <2> QED BY <2>1, <2>2, <2>3
<1>6. ASSUME NEW v \in Workers, stray'[v].at # "none"
      PROVE  \/ stray[v].at # "none" /\ stray'[v].fence = stray[v].fence
             \/ stray'[v].fence # 0 /\ sess'[v].fence = 0
  <2>1. CASE TeardownWithRelease(w)
    BY <1>6, <2>1, EndSessionStray DEF TeardownWithRelease
  <2>2. CASE DrainRelease(w)
    BY <1>6, <2>2 DEF DrainRelease
  <2>3. CASE StrayTearsDown(w)
    <3>1. CASE v = w
      <4>1. sess[w].pc \in Registered
        BY <1>6, <2>3, <3>1 DEF StrayTearsDown, NoStray, TypeOK
      <4>2. stray'[w] = Orphaned(sess[w]) /\ sess'[w] = NoSession
        BY <2>3, <4>1 DEF StrayTearsDown, TypeOK
      <4>3. sess[w].fence # 0
        BY <4>1 DEF ReleaseInv, Fenced
      <4>4. stray'[w].fence = sess[w].fence
        BY <1>6, <3>1, <4>2 DEF Orphaned, NoStray
      <4> QED BY <1>1, <3>1, <4>2, <4>3, <4>4
    <3>2. CASE v # w
      BY <1>6, <2>3, <3>2 DEF StrayTearsDown, TypeOK
    <3> QED BY <3>1, <3>2
  <2> QED BY <2>1, <2>2, <2>3
<1> QED BY <1>2, <1>4, <1>5, <1>6 DEF ReleaseInv

\* The step that releases the row: the fence released is the row's, so only w
\* could have carried it, and w does not.
LEMMA ReleasePgRelease ==
    ASSUME TypeOK, TypeOK', FenceInv, ReleaseInv, NEW w \in Workers, ReleasePg(w)
    PROVE  ReleaseInv'
<1>1. PICK t \in Transaction(row, ReleaseRow(row, w, rel[w].fence)) : row' = t.row
  BY DEF ReleasePg
<1>2. /\ rel[w].fence # 0 /\ rel[w].leg # "none"
      /\ UNCHANGED <<sess, stray, drain>>
      /\ rel' = [rel EXCEPT ![w] = NoRelease]
  BY DEF ReleasePg, ReleaseInv
<1>3. \A v \in Workers : sess[v].fence # rel[w].fence
  <2> TAKE v \in Workers
  <2>1. CASE v = w
    BY <2>1, <1>2 DEF ReleaseInv
  <2>2. CASE v # w
    <3>1. rel[w].fence \in Fences(w)
      BY <1>2 DEF Fences
    <3>2. rel[w].fence \notin Fences(v)
      BY <2>2, <3>1 DEF FenceInv, FenceUnique
    <3> QED BY <3>2, <1>2 DEF Fences
  <2> QED BY <2>1, <2>2
<1>4. \/ row' = row
      \/ row.fence = rel[w].fence /\ row'.fence = row.fence /\ row'.owner = NoWorker
  <2>1. LET r == ReleaseRow(row, w, rel[w].fence)
        IN \/ r = row
           \/ row.fence = rel[w].fence /\ r.fence = row.fence /\ r.owner = NoWorker
    BY DEF ReleaseRow, OwnsRow, TypeOK, Rows
  <2> QED BY <2>1, <1>1 DEF Transaction
<1>5. \A v \in Workers : rel'[v].leg # "none" => rel'[v] = rel[v]
  BY <1>2 DEF TypeOK, NoRelease
<1> QED BY <1>2, <1>3, <1>4, <1>5 DEF ReleaseInv

\* The remaining steps of a worker start no release and leave the row's fence,
\* owner and released_at alone.
LEMMA OtherRelease ==
    ASSUME TypeOK, TypeOK', ReleaseInv, NEW w \in Workers,
           ReleaseRedis(w) \/ StrayOpens(w) \/ StrayEnds(w) \/ Crash(w)
           \/ BeatStart(w) \/ BeatSkip(w) \/ BeatRedisReply(w)
    PROVE  ReleaseInv'
<1>1. /\ NoSession.fence = 0 /\ NoSession.pc \notin Fenced /\ NoRelease.leg = "none"
      /\ NoStray.at = "none"
  BY DEF NoSession, Fenced, Registered, NoRelease, NoStray
<1>2. /\ row'.fence = row.fence /\ row'.owner = row.owner
      /\ row'.released = row.released
  <2>1. CASE BeatRedisReply(w)
    BY <2>1 DEF BeatRedisReply, Transaction, RenewRow, TypeOK, Rows
  <2>2. CASE ~BeatRedisReply(w)
    BY <2>2 DEF ReleaseRedis, StrayOpens, StrayEnds, Crash, BeatStart, BeatSkip
  <2> QED BY <2>1, <2>2
<1>3. ASSUME NEW v \in Workers
      PROVE  /\ drain'[v] => sess'[v] = NoSession
             /\ sess'[v].fence \in {0, sess[v].fence}
             /\ sess'[v].pc \in Fenced => sess'[v].fence # 0
  <2>1. sess' \in {sess, [sess EXCEPT ![w] = NoSession]}
             \/ (sess' = [sess EXCEPT ![w].pc = "down"] /\ sess[w].pc \in Registered)
    BY DEF ReleaseRedis, StrayOpens, StrayEnds, Crash, BeatStart, BeatSkip,
           BeatRedisReply, Registered
  <2>2. drain' \in {drain, [drain EXCEPT ![w] = FALSE]}
    BY DEF ReleaseRedis, StrayOpens, StrayEnds, Crash, BeatStart, BeatSkip, BeatRedisReply
  <2>3. sess[w].pc \in Registered => sess[w] # NoSession /\ sess[w].fence # 0
    BY DEF ReleaseInv, Fenced, Registered, NoSession
  <2>4. CASE sess' \in {sess, [sess EXCEPT ![w] = NoSession]}
    BY <2>2, <2>4, <1>1 DEF TypeOK, ReleaseInv
  <2>5. CASE sess' = [sess EXCEPT ![w].pc = "down"] /\ sess[w].pc \in Registered
    <3>1. sess'[v].fence = sess[v].fence /\ (v # w => sess'[v] = sess[v])
      BY <2>5 DEF TypeOK, Sessions
    <3> QED BY <2>2, <2>3, <2>5, <3>1 DEF TypeOK, ReleaseInv
  <2> QED BY <2>1, <2>4, <2>5
<1>4. ASSUME NEW v \in Workers
      PROVE  rel'[v].leg # "none" => rel'[v].fence = rel[v].fence /\ rel[v].leg # "none"
  <2>1. CASE ReleaseRedis(w)
    BY <2>1 DEF ReleaseRedis, TypeOK, Releases
  <2>2. CASE ~ReleaseRedis(w)
    BY <2>2, <1>1 DEF StrayOpens, StrayEnds, Crash, BeatStart, BeatSkip, BeatRedisReply, TypeOK
  <2> QED BY <2>1, <2>2
<1>5. ASSUME NEW v \in Workers, stray'[v].at # "none"
      PROVE  stray[v].at # "none" /\ stray'[v].fence = stray[v].fence
  <2>1. CASE StrayOpens(w)
    BY <1>5, <2>1 DEF StrayOpens, TypeOK, Strays
  <2>2. CASE StrayEnds(w) \/ Crash(w)
    BY <1>1, <1>5, <2>2 DEF StrayEnds, Crash, TypeOK
  <2>3. CASE ReleaseRedis(w) \/ BeatStart(w) \/ BeatSkip(w) \/ BeatRedisReply(w)
    BY <1>5, <2>3 DEF ReleaseRedis, BeatStart, BeatSkip, BeatRedisReply
  <2> QED BY <2>1, <2>2, <2>3
<1> QED BY <1>2, <1>3, <1>4, <1>5, NoNewRelease

\* Time releases nothing.
LEMMA TickRelease == ASSUME TypeOK, TypeOK', ReleaseInv, Tick PROVE ReleaseInv'
<1>1. /\ row'.fence = row.fence /\ row'.owner = row.owner
      /\ row'.released = row.released
  <2>1. LET r == AgeRow(row)
        IN r.fence = row.fence /\ r.owner = row.owner /\ r.released = row.released
    BY DEF AgeRow, TypeOK, Rows
  <2> QED BY <2>1 DEF Tick
<1>2. ASSUME NEW v \in Workers
      PROVE  /\ sess'[v].fence = sess[v].fence
             /\ sess'[v].pc = sess[v].pc
             /\ drain'[v] => sess'[v] = NoSession
  <2>1. AgeSession(NoSession) = NoSession
    BY DEF AgeSession, NoSession, Less
  <2>2. AgeSession(sess[v]).fence = sess[v].fence /\ AgeSession(sess[v]).pc = sess[v].pc
    BY DEF AgeSession, TypeOK, Sessions
  <2> QED BY <2>1, <2>2 DEF Tick, ReleaseInv
<1> QED BY <1>1, <1>2 DEF Tick, ReleaseInv

\* Releases carry fences of the past, in every behaviour.
LEMMA ReleaseHolds == Spec => []ReleaseInv
<1>1. Init => ReleaseInv
  BY DEF Init, ReleaseInv, NoRow, NoRelease, NoSession, NoStray, Fenced, Registered
<1>2. TypeOK /\ TypeOK' /\ FenceInv /\ ReleaseInv /\ [Next]_vars => ReleaseInv'
  <2> SUFFICES ASSUME TypeOK, TypeOK', FenceInv, ReleaseInv, [Next]_vars
               PROVE  ReleaseInv'
    OBVIOUS
  <2>1. CASE Tick
    BY <2>1, TickRelease
  <2>2. ASSUME NEW w \in Workers, Work(w) PROVE ReleaseInv'
    BY <2>2, AcquireRelease, MintRelease, EndWithoutRelease, StartRelease,
       ReleasePgRelease, OtherRelease DEF Work
  <2>3. CASE UNCHANGED vars
    BY <2>3 DEF vars, ReleaseInv
  <2> QED BY <2>1, <2>2, <2>3 DEF Next
<1>3. FenceInv <=> FenceUnique /\ RowIsAuthority
  BY DEF FenceInv
<1> QED BY <1>1, <1>2, <1>3, TypeCorrect, FencesIdentifyOwners, PTL DEF Spec

\* The grace is skipped on the word of released_at alone; that word is good:
\* under the fence of a released row no worker has a socket open or opening.
THEOREM ReleaseClosesFirst == Spec => []ReleasedMeansClosed
<1>1. ReleaseInv => ReleasedMeansClosed
  BY DEF ReleaseInv, ReleasedMeansClosed
<1> QED BY <1>1, ReleaseHolds, PTL

-----------------------------------------------------------------------------
(* Ticks.  What a tick has learned of the lease it renewed stays true until it *)
(* ends: a fence that has left the key is not written into it a second time,   *)
(* and Postgres names no owner under a fence that was minted before.           *)

\* A fence on its way into the key is none that the heartbeat has or had.
Fresh(w) ==
    sess[w].pc \in {"minted", "fencing"} =>
        sess[w].fence \notin {0, beat[w].held, beat[w].snap}
Learned(w) ==
    LET h == beat[w]
    IN h.leg # "none" =>
         /\ h.snap # 0
         /\ h.held = h.snap =>
              /\ h.renewed = "no" => ~Carries(key, w, h.held)
              /\ h.leg = "pg" /\ h.pg = "conflict" => ~OwnsRow(row, w, h.held)
TickInv == \A w \in Workers : Fresh(w) /\ Learned(w)

\* Only set-fence brings a fence into the key, and the mint a new one into the row.
LEMMA LostStaysLost ==
    ASSUME TypeOK, FenceInv, [Next]_vars, NEW v \in Workers, NEW f \in Fences(v)
    PROVE  /\ Carries(key', v, f) => \/ Carries(key, v, f)
                                     \/ SetFence(v) /\ f = sess[v].fence
           /\ OwnsRow(row', v, f) => OwnsRow(row, v, f)
<1>1. /\ f # 0 /\ f \in Nat /\ f <= row.fence /\ row \in Rows /\ key \in Keys
  BY DEF FenceInv, RowIsAuthority, Fences, TypeOK, Sessions, Beats, Releases, Strays
<1>2. ASSUME Carries(key', v, f), key' # key, ~Carries(key, v, f)
      PROVE  SetFence(v) /\ f = sess[v].fence
  <2>1. ASSUME NEW w \in Workers, NEW g \in Nat,
               key' \in {c.key : c \in Command(key, AcquireScript(key, w))
                                       \cup Command(key, RenewScript(key, w, g))
                                       \cup Command(key, ReleaseScript(key, w, g))}
        PROVE  FALSE
    <3>1. key' \in {key, KeyOf(w, Pending), NoKey}
                   \cup {k \in {KeyOf(w, g)} : Carries(key, w, g)}
      BY <2>1 DEF Command, AcquireScript, RenewScript, ReleaseScript, Executed
    <3> QED BY <1>1, <1>2, <3>1 DEF KeyOf, NoKey, Pending, Carries
  <2>2. ASSUME NEW w \in Workers, SetFence(w)
        PROVE  w = v /\ f = sess[w].fence
    <3>1. PICK c \in Command(key, SetFenceScript(key, w, sess[w].fence)) : key' = c.key
      BY <2>2 DEF SetFence
    <3>2. key' \in {key, KeyOf(w, sess[w].fence)}
      BY <3>1 DEF Command, SetFenceScript, Executed
    <3> QED BY <1>2, <3>2 DEF KeyOf, Carries
  <2>3. ~Tick
    <3>1. \/ AgeKey(key) = NoKey
          \/ AgeKey(key).owner = key.owner /\ AgeKey(key).fence = key.fence
      <4>1. CASE key.ttl <= 1
        BY <4>1 DEF AgeKey
      <4>2. CASE ~(key.ttl <= 1)
        <5>1. AgeKey(key) = [key EXCEPT !.ttl = @ - 1]
          BY <4>2 DEF AgeKey
        <5> QED BY <1>1, <5>1 DEF Keys
      <4> QED BY <4>1, <4>2
    <3> QED BY <1>1, <1>2, <3>1 DEF Tick, NoKey, Pending, Carries
  <2>4. PICK w \in Workers : Work(w)
    BY <1>2, <2>3 DEF Next, vars
  <2>5. CASE Place(w)
    BY <2>1, <2>5, 0 \in Nat DEF Place
  <2>6. CASE UndoPlace(w)
    BY <2>1, <2>6 DEF UndoPlace, Pending
  <2>7. CASE ReleaseRedis(w)
    BY <2>1, <2>7 DEF ReleaseRedis, TypeOK, Releases
  <2>8. CASE BeatStart(w)
    BY <2>1, <2>8 DEF BeatStart, TypeOK, Beats
  <2>9. Place(w) \/ UndoPlace(w) \/ ReleaseRedis(w) \/ BeatStart(w) \/ SetFence(w)
    BY <1>2, <2>4 DEF Work, Scan, PassOver, Mint, AddLease, Register, EpochReadFails,
         BeginBuild, FinishBuild, Disconnect, TeardownNoRelease, TeardownWithRelease,
         ReleasePg, DrainEnd, DrainRelease, StrayOpens, StrayEnds, StrayTearsDown,
         BeatSkip, BeatRedisReply, BeatEnd, Crash
  <2> QED BY <2>2, <2>5, <2>6, <2>7, <2>8, <2>9
<1>3. ASSUME OwnsRow(row', v, f), row' # row
      PROVE  OwnsRow(row, v, f)
  <2>1. CASE Tick
    BY <1>1, <1>3, <2>1 DEF Tick, AgeRow, OwnsRow, Rows
  <2>2. ASSUME NEW w \in Workers, Mint(w) PROVE OwnsRow(row, v, f)
    BY <1>1, <1>3, <2>2 DEF Mint, Transaction, MintRow, OwnsRow, Rows
  <2>3. ASSUME NEW w \in Workers, ReleasePg(w) PROVE OwnsRow(row, v, f)
    <3>1. row' = ReleaseRow(row, w, rel[w].fence)
      BY <1>3, <2>3 DEF ReleasePg, Transaction
    <3>2. row' = [row EXCEPT !.owner = NoWorker, !.released = TRUE]
      BY <1>3, <3>1 DEF ReleaseRow
    <3>3. row'.owner # v
      BY <1>1, <3>2, StoreAssumption DEF Rows
    <3> QED BY <1>3, <3>3 DEF OwnsRow
  <2>4. ASSUME NEW w \in Workers, BeatRedisReply(w) PROVE OwnsRow(row, v, f)
    BY <1>1, <1>3, <2>4 DEF BeatRedisReply, Transaction, RenewRow, OwnsRow, Rows
  <2>5. Tick \/ \E w \in Workers : Mint(w) \/ ReleasePg(w) \/ BeatRedisReply(w)
    BY <1>3 DEF Next, vars, Work, Scan, PassOver, Place, UndoPlace, SetFence, AddLease,
         Register, EpochReadFails, BeginBuild, FinishBuild, Disconnect, TeardownNoRelease,
         TeardownWithRelease, ReleaseRedis, DrainEnd, DrainRelease, StrayOpens, StrayEnds,
         StrayTearsDown, BeatStart, BeatSkip, BeatEnd, Crash
  <2> QED BY <2>1, <2>2, <2>3, <2>4, <2>5
<1> QED BY <1>2, <1>3

\* Any step of which a worker's tick hears nothing: its heartbeat keeps what it has and
\* what its tick knows, or forgets the lease, and no fence is on its way that was not.
LEMMA TickGoesOn ==
    ASSUME TypeOK, FenceInv, TickInv, [Next]_vars, NEW v \in Workers,
           beat'[v].leg = beat[v].leg, beat'[v].snap = beat[v].snap,
           beat'[v].renewed = beat[v].renewed, beat'[v].pg = beat[v].pg,
           beat'[v].held \in {0, beat[v].held},
           sess'[v].pc \in {"minted", "fencing"} =>
              sess[v].pc \in {"minted", "fencing"} /\ sess'[v].fence = sess[v].fence
    PROVE  Fresh(v)' /\ Learned(v)'
<1>1. Fresh(v) /\ Learned(v)
  BY DEF TickInv
<1>2. Fresh(v)'
  BY <1>1 DEF Fresh
<1>3. ASSUME beat'[v].leg # "none" PROVE beat[v].leg # "none" /\ beat'[v].snap # 0
  BY <1>1, <1>3 DEF Learned
<1>4. ASSUME beat'[v].leg # "none", beat'[v].held = beat'[v].snap
      PROVE  /\ beat'[v].held = beat[v].held /\ beat[v].held = beat[v].snap
             /\ Carries(key', v, beat[v].held) => Carries(key, v, beat[v].held)
             /\ OwnsRow(row', v, beat[v].held) => OwnsRow(row, v, beat[v].held)
  <2>1. beat'[v].held = beat[v].held /\ beat[v].held = beat[v].snap
        /\ beat[v].held \in Fences(v)
    BY <1>3, <1>4 DEF Fences
  <2>2. ~(SetFence(v) /\ beat[v].held = sess[v].fence)
    BY <1>1 DEF SetFence, Fresh
  <2> QED BY <2>1, <2>2, LostStaysLost
<1>5. Learned(v)'
  BY <1>1, <1>3, <1>4 DEF Learned
<1> QED BY <1>2, <1>5

\* What the steps of a worker leave of the session and the heartbeat of each.
LEMMA QuietTicks ==
    ASSUME TypeOK, [Next]_vars, NEW v \in Workers,
           ~(Mint(v) \/ AddLease(v) \/ BeatStart(v) \/ BeatRedisReply(v) \/ BeatEnd(v)
             \/ Crash(v))
    PROVE  /\ beat'[v].leg = beat[v].leg /\ beat'[v].snap = beat[v].snap
           /\ beat'[v].renewed = beat[v].renewed /\ beat'[v].pg = beat[v].pg
           /\ beat'[v].held \in {0, beat[v].held}
           /\ sess'[v].pc \in {"minted", "fencing"} =>
                /\ sess[v].pc \in {"minted", "fencing"} /\ sess'[v].fence = sess[v].fence
<1>0. sess \in [Workers -> Sessions] /\ beat \in [Workers -> Beats]
      /\ stray \in [Workers -> Strays]
  BY DEF TypeOK
<1> DEFINE Keeps == /\ beat'[v].leg = beat[v].leg /\ beat'[v].snap = beat[v].snap
                    /\ beat'[v].renewed = beat[v].renewed /\ beat'[v].pg = beat[v].pg
                    /\ beat'[v].held \in {0, beat[v].held}
           Goes == sess'[v].pc \in {"minted", "fencing"} =>
                     /\ sess[v].pc \in {"minted", "fencing"}
                     /\ sess'[v].fence = sess[v].fence
<1>1. CASE UNCHANGED vars
  BY <1>1 DEF vars
<1>2. CASE Tick
  <2>1. sess'[v].pc = sess[v].pc /\ sess'[v].fence = sess[v].fence
    BY <1>0, <1>2 DEF Tick, AgeSession, Sessions
  <2>2. beat'[v] = AgeBeat(v)
    BY <1>2 DEF Tick
  <2>3. /\ AgeBeat(v).leg = beat[v].leg /\ AgeBeat(v).snap = beat[v].snap
        /\ AgeBeat(v).renewed = beat[v].renewed /\ AgeBeat(v).pg = beat[v].pg
        /\ AgeBeat(v).held = beat[v].held
    BY <1>0 DEF AgeBeat, Beats
  <2> QED BY <2>1, <2>2, <2>3
<1>3. ASSUME NEW w \in Workers, Work(w) PROVE Keeps /\ Goes
  <2>1. CASE beat'[v] = beat[v] /\ sess'[v] = sess[v]
    BY <2>1
  <2>2. CASE w # v
    <3>1. sess' = [sess EXCEPT ![w] = sess'[w]] /\ beat' = [beat EXCEPT ![w] = beat'[w]]
      BY <1>0, <1>3 DEF Work, Scan, PassOver, Place, Mint, UndoPlace, SetFence, AddLease,
           Register, EpochReadFails, BeginBuild, FinishBuild, Disconnect, TeardownNoRelease,
           TeardownWithRelease, ReleaseRedis, ReleasePg, DrainEnd, DrainRelease, StrayOpens,
           StrayEnds, StrayTearsDown, BeatStart, BeatSkip, BeatRedisReply, BeatEnd, Crash,
           EndSession
    <3> QED BY <1>0, <2>1, <2>2, <3>1
  <2>3. ASSUME w = v, UNCHANGED beat,
               \/ \E p \in {"found", "down", "open", "parked", "building"} :
                    sess' = [sess EXCEPT ![v].pc = p]
               \/ sess' = [sess EXCEPT ![v] = NoSession]
               \/ sess' = [sess EXCEPT ![v] = [NoSession EXCEPT !.pc = "placed"]]
               \/ UNCHANGED sess
        PROVE  Keeps /\ Goes
    BY <1>0, <2>3 DEF NoSession, Sessions
  <2>4. ASSUME w = v, beat' = [beat EXCEPT ![v] = Forget(@)] \/ UNCHANGED beat,
               sess' = [sess EXCEPT ![v] = NoSession] \/ UNCHANGED sess
        PROVE  Keeps /\ Goes
    <3>1. /\ Forget(beat[v]).leg = beat[v].leg /\ Forget(beat[v]).snap = beat[v].snap
          /\ Forget(beat[v]).renewed = beat[v].renewed /\ Forget(beat[v]).pg = beat[v].pg
          /\ Forget(beat[v]).held = 0
      BY <1>0 DEF Forget, Beats
    <3>2. Keeps
      BY <1>0, <2>4, <3>1
    <3>3. Goes
      BY <1>0, <2>4 DEF NoSession
    <3> QED BY <3>2, <3>3
  <2>5. CASE w = v /\ (Scan(v) \/ PassOver(v) \/ UndoPlace(v) \/ Register(v)
                      \/ EpochReadFails(v) \/ BeginBuild(v))
    BY <2>3, <2>5 DEF Scan, PassOver, UndoPlace, Register, EpochReadFails, BeginBuild
  <2>6. CASE w = v /\ Place(v)
    BY <1>0, <2>3, <2>6 DEF Place
  <2>7. CASE w = v /\ SetFence(v)
    <3>1. sess' = [sess EXCEPT ![v] = NoSession]
          \/ sess' = [sess EXCEPT ![v] = [@ EXCEPT !.pc = "fencing", !.wait = RedisTimeout]]
      BY <2>7 DEF SetFence
    <3> QED BY <1>0, <2>7, <3>1 DEF SetFence, NoSession, Sessions
  <2>8. CASE w = v /\ (FinishBuild(v) \/ Disconnect(v) \/ ReleaseRedis(v))
    BY <2>3, <2>8 DEF FinishBuild, Disconnect, ReleaseRedis
  <2>9. CASE w = v /\ (ReleasePg(v) \/ DrainRelease(v) \/ StrayOpens(v) \/ StrayEnds(v))
    BY <2>1, <2>9 DEF ReleasePg, DrainRelease, StrayOpens, StrayEnds
  <2>10. CASE w = v /\ (TeardownNoRelease(v) \/ TeardownWithRelease(v) \/ DrainEnd(v))
    BY <2>4, <2>10 DEF TeardownNoRelease, TeardownWithRelease, DrainEnd, EndSession
  <2>11. CASE w = v /\ StrayTearsDown(v)
    BY <2>4, <2>11 DEF StrayTearsDown
  <2>12. CASE w = v /\ BeatSkip(v)
    BY <1>0, <2>12 DEF BeatSkip, Beats
  <2> QED
    BY <1>3, <2>2, <2>5, <2>6, <2>7, <2>8, <2>9, <2>10, <2>11, <2>12 DEF Work
<1> QED BY <1>1, <1>2, <1>3 DEF Next

LEMMA TickInvStep ==
    ASSUME TypeOK, TypeOK', FenceInv, TickInv, [Next]_vars
    PROVE  TickInv'
<1> SUFFICES ASSUME NEW v \in Workers PROVE Fresh(v)' /\ Learned(v)'
  BY DEF TickInv
<1>0. /\ sess \in [Workers -> Sessions] /\ beat \in [Workers -> Beats]
      /\ row \in Rows /\ key \in Keys
      /\ Fresh(v) /\ Learned(v)
  BY DEF TypeOK, TickInv
<1>1. CASE Mint(v)
  <2>1. beat[v].held <= row.fence /\ beat[v].snap <= row.fence
        /\ row.fence \in Nat /\ beat[v].held \in Nat /\ beat[v].snap \in Nat
    BY <1>0 DEF FenceInv, RowIsAuthority, Fences, Rows, Beats
  <2>2. beat' = beat /\ key' = key
    BY <1>1 DEF Mint
  <2>3. sess'[v].pc = "minted" => sess'[v].fence = row.fence + 1
    BY <1>0, <1>1 DEF Mint, NoSession
  <2>4. sess'[v].pc # "fencing"
    BY <1>0, <1>1 DEF Mint, NoSession
  <2>5. Fresh(v)'
    BY <2>1, <2>2, <2>3, <2>4 DEF Fresh
  <2>6. beat[v].held # 0 /\ OwnsRow(row', v, beat[v].held) => OwnsRow(row, v, beat[v].held)
    BY LostStaysLost DEF Fences
  <2>7. Learned(v)'
    BY <1>0, <2>2, <2>6 DEF Learned
  <2> QED BY <2>5, <2>7
<1>2. CASE AddLease(v)
  <2>1. PICK p : beat' = [beat EXCEPT ![v] = [beat[v] EXCEPT
                    !.held = sess[v].fence, !.since = 0, !.phase = p]]
    BY <1>2 DEF AddLease
  <2>2. /\ beat'[v].held = sess[v].fence
        /\ beat'[v].snap = beat[v].snap /\ beat'[v].leg = beat[v].leg
    BY <1>0, <2>1 DEF Beats
  <2>3. sess[v].pc = "fencing" /\ sess'[v].pc = "reading"
    BY <1>0, <1>2 DEF AddLease, Sessions
  <2>4. sess[v].fence # beat[v].snap
    BY <1>0, <2>3 DEF Fresh
  <2> QED BY <1>0, <2>2, <2>3, <2>4 DEF Fresh, Learned
<1>3. CASE BeatStart(v)
  <2>1. PICK c \in Command(key, RenewScript(key, v, beat[v].held)) :
          /\ key' = c.key
          /\ beat' = [beat EXCEPT ![v] = [beat[v] EXCEPT
                        !.phase = 0, !.leg = "redis", !.left = RedisTimeout,
                        !.snap = beat[v].held, !.renewed = c.reply]]
    BY <1>3 DEF BeatStart
  <2>2. /\ beat'[v].held = beat[v].held /\ beat'[v].snap = beat[v].held
        /\ beat'[v].leg = "redis" /\ beat'[v].renewed = c.reply
    BY <1>0, <2>1 DEF Beats
  <2>3. beat[v].held # 0 /\ sess' = sess
    BY <1>3 DEF BeatStart, Fired, Timed
  <2>4. c.reply = "no" => ~Carries(key', v, beat[v].held)
    BY <2>1 DEF Command, RenewScript, Executed
  <2>5. Fresh(v)'
    BY <1>0, <2>2, <2>3 DEF Fresh
  <2>6. Learned(v)'
    BY <2>2, <2>3, <2>4 DEF Learned
  <2> QED BY <2>5, <2>6
<1>4. CASE BeatRedisReply(v)
  <2>1. PICK t \in Transaction(row, RenewRow(row, v, beat[v].snap)) :
          /\ row' = t.row
          /\ beat' = [beat EXCEPT ![v] = [beat[v] EXCEPT
               !.leg = "pg", !.left = PgTimeout,
               !.since = IF beat[v].renewed = "yes" /\ beat[v].held # 0
                         THEN 0 ELSE beat[v].since,
               !.pg = IF ~t.ok THEN "error"
                      ELSE IF OwnsRow(row, v, beat[v].snap) THEN "ok" ELSE "conflict"]]
    BY <1>4, ZenonT(60) DEF BeatRedisReply
  <2>2. /\ beat'[v].held = beat[v].held /\ beat'[v].snap = beat[v].snap
        /\ beat'[v].leg = "pg" /\ beat'[v].renewed = beat[v].renewed
        /\ beat'[v].pg = "conflict" => ~OwnsRow(row, v, beat[v].snap)
    <3> DEFINE n == IF beat[v].renewed = "yes" /\ beat[v].held # 0 THEN 0 ELSE beat[v].since
               p == IF ~t.ok THEN "error"
                    ELSE IF OwnsRow(row, v, beat[v].snap) THEN "ok" ELSE "conflict"
    <3>1. p = "conflict" => ~OwnsRow(row, v, beat[v].snap)
      OBVIOUS
    <3>2. beat' = [beat EXCEPT ![v] = [beat[v] EXCEPT
                      !.leg = "pg", !.left = PgTimeout, !.since = n, !.pg = p]]
      BY <2>1
    <3> HIDE DEF n, p
    <3> QED BY <1>0, <3>1, <3>2 DEF Beats
  <2>3. beat[v].leg = "redis" /\ sess' = sess /\ key' = key
    BY <1>4 DEF BeatRedisReply
  <2>4. beat[v].held # 0 /\ OwnsRow(row', v, beat[v].held) => OwnsRow(row, v, beat[v].held)
    BY LostStaysLost DEF Fences
  <2>5. Fresh(v)'
    BY <1>0, <2>2, <2>3 DEF Fresh
  <2>6. Learned(v)'
    BY <1>0, <2>2, <2>3, <2>4 DEF Learned
  <2> QED BY <2>5, <2>6
<1>5. CASE BeatEnd(v)
  <2> DEFINE h == beat[v]
             rest == [h EXCEPT !.leg = "none", !.left = 0, !.snap = 0,
                        !.renewed = "lost", !.pg = "ok"]
  <2>1. /\ rest.held = h.held /\ rest.snap = 0 /\ rest.leg = "none"
        /\ Forget(rest).held = 0 /\ Forget(rest).snap = 0 /\ Forget(rest).leg = "none"
    BY <1>0 DEF Beats, Forget
  <2>2. beat' \in {[beat EXCEPT ![v] = Forget(rest)], [beat EXCEPT ![v] = rest]}
    BY <1>5 DEF BeatEnd
  <2> HIDE DEF rest
  <2>3. beat'[v].leg = "none" /\ beat'[v].snap = 0 /\ beat'[v].held \in {0, h.held}
    BY <1>0, <2>1, <2>2
  <2>4. sess'[v] \in {NoSession, sess[v]}
    BY <1>0, <1>5 DEF BeatEnd, EndSession
  <2>5. Fresh(v)'
    BY <1>0, <2>3, <2>4 DEF Fresh, NoSession
  <2> QED BY <2>3, <2>5 DEF Learned
<1>6. CASE Crash(v)
  <2>1. sess'[v].pc = "idle" /\ beat'[v].leg = "none"
    BY <1>0, <1>6 DEF Crash, NoSession, IdleBeat
  <2> QED BY <2>1 DEF Fresh, Learned
<1>7. CASE ~(Mint(v) \/ AddLease(v) \/ BeatStart(v) \/ BeatRedisReply(v) \/ BeatEnd(v)
             \/ Crash(v))
  BY <1>7, QuietTicks, TickGoesOn
<1> QED BY <1>1, <1>2, <1>3, <1>4, <1>5, <1>6, <1>7

\* The heartbeat never drops a lease over a lost reply or a Postgres error: what a tick
\* found lost is lost when the tick ends, though a takeover, a release, a retried set-fence
\* or an expiry fall between its legs, or the watchdog is due.
THEOREM OnlyLostIsFenced == Spec => OnlyLostLeasesAreFenced
<1>1. Init => TickInv
  <2>1. Init => \A w \in Workers : sess[w].pc = "idle" /\ beat[w].leg = "none"
    <3>1. NoSession.pc = "idle" /\ IdleBeat.leg = "none"
      BY DEF NoSession, IdleBeat
    <3> QED BY <3>1 DEF Init
  <2> QED BY <2>1 DEF TickInv, Fresh, Learned
<1> DEFINE Earned ==
             \A w \in Workers :
               BeatEnd(w) /\ beat[w].held = beat[w].snap /\ beat'[w].held = 0
                 => \/ beat[w].since >= Watchdog
                    \/ ~Carries(key, w, beat[w].held)
                    \/ ~OwnsRow(row, w, beat[w].held)
<1>2. ASSUME TypeOK, TickInv PROVE [Earned]_vars
  <2> SUFFICES ASSUME NEW w \in Workers, BeatEnd(w),
                      beat[w].held = beat[w].snap, beat'[w].held = 0
               PROVE  \/ beat[w].since >= Watchdog
                      \/ ~Carries(key, w, beat[w].held)
                      \/ ~OwnsRow(row, w, beat[w].held)
    OBVIOUS
  <2> DEFINE h == beat[w]
             rest == [h EXCEPT !.leg = "none", !.left = 0, !.snap = 0,
                        !.renewed = "lost", !.pg = "ok"]
  <2>1. beat[w].leg = "pg" /\ beat[w].held # 0 /\ Learned(w)
    BY <1>2 DEF BeatEnd, TickInv, Learned
  <2>2. rest.held = h.held
    BY <1>2 DEF TypeOK, Beats
  <2>3. SelfFences(h)
    <3>1. ~SelfFences(h) => beat' = [beat EXCEPT ![w] = rest]
      BY DEF BeatEnd
    <3> HIDE DEF rest
    <3> QED BY <1>2, <2>1, <2>2, <3>1 DEF TypeOK
  <2> QED BY <2>1, <2>3 DEF SelfFences, RedisLost, PgConflict, WatchdogDue, Learned
<1>3. TypeOK /\ TypeOK' /\ FenceInv /\ TickInv /\ [Next]_vars => TickInv'
  BY TickInvStep
<1>4. FenceInv <=> FenceUnique /\ RowIsAuthority
  BY DEF FenceInv
<1>5. [][Earned]_vars <=> OnlyLostLeasesAreFenced
  BY DEF OnlyLostLeasesAreFenced
<1>6. TypeOK /\ TickInv => [Earned]_vars
  BY <1>2
<1> HIDE DEF Earned
<1> QED BY <1>1, <1>3, <1>4, <1>5, <1>6, TypeCorrect, FencesIdentifyOwners, PTL DEF Spec

-----------------------------------------------------------------------------
(* Time.  A worker that has lost its key, and does not know it, drops its     *)
(* lease no later than Life from now.  A successor's socket stays closed for  *)
(* that long: as long as the key lives and then for the grace.                *)

\* The timing the two stores' timeouts and the timers of the worker must meet.
Timely ==
    /\ Watchdog > 0
    /\ RedisTimeout < LeaseTtl
    /\ Watchdog + Heartbeat + 2 * RedisTimeout + PgTimeout
          <= LeaseTtl + TakeoverGrace

Keyed == {"fencing", "reading"} \cup Registered

\* The longest time from the moment a watchdog baseline is set to the end of
\* the first tick that finds it due.
Full == Watchdog - 1 + Heartbeat + RedisTimeout + PgTimeout

\* The longest time to the end of the tick in flight, or of the next one.
ToEnd(h) ==
    IF h.leg = "none" THEN Heartbeat - h.phase + RedisTimeout + PgTimeout
    ELSE IF h.leg = "redis" THEN h.left + PgTimeout
    ELSE h.left

\* The longest time a lease is still held if no further renewal succeeds: a
\* reply on its way, of set-fence or of a renewal, may set the baseline anew.
LifeOf(s, h) ==
    IF s.pc = "fencing" THEN s.wait + Full
    ELSE IF h.leg = "redis" /\ h.renewed = "yes" THEN h.left + Full
    ELSE IF h.since < Watchdog THEN Full - h.since
    ELSE ToEnd(h)
Life(w) == LifeOf(sess[w], beat[w])

\* What w's session put into the key is there.
HasKey(w) == Carries(key, w, IF sess[w].pc = "minted" THEN Pending ELSE sess[w].fence)

\* A session of w that has, or may still come to, a lease of its own fence.
Standing(w) ==
    \/ sess[w].pc = "minted" /\ HasKey(w)
    \/ sess[w].pc = "fencing"
    \/ sess[w].pc \in Keyed /\ beat[w].held = sess[w].fence

\* A leg of a tick is within its timeout.
InTime(h) ==
    /\ h.leg = "redis" => h.left <= RedisTimeout
    /\ h.leg = "pg" => h.left <= PgTimeout

\* What holds of a worker's own state: legs are timed, only a session whose
\* grace is over builds, a session's fence is above those of its worker's earlier
\* ones, and a set-fence still under way has its key.
OwnInv(w) ==
    /\ InTime(beat[w])
    /\ sess[w].pc \in {"building", "open"} => sess[w].grace = 0
    /\ sess[w].pc \notin Fenced => sess[w].fence = 0
    /\ sess[w].pc \in Fenced =>
         /\ rel[w].fence < sess[w].fence
         /\ stray[w].fence < sess[w].fence
         /\ beat[w].held <= sess[w].fence
    /\ sess[w].pc \in {"minted", "fencing"} => beat[w].held < sess[w].fence
    /\ sess[w].pc = "fencing" =>
         /\ HasKey(w)
         /\ key.ttl + RedisTimeout >= LeaseTtl + sess[w].wait
         /\ beat[w].leg = "redis" /\ beat[w].renewed = "yes"
              => beat[w].left <= sess[w].wait
OwnersInv == \A w \in Workers : OwnInv(w)

\* While w's key lives, its lease does not outlive key and grace; afterwards
\* not the grace.
Outlived(w) ==
    Standing(w) /\ sess[w].pc \in Keyed =>
        Life(w) < (IF HasKey(w) THEN key.ttl ELSE 0) + TakeoverGrace

\* A later session of w waits longer than v's lease lives, and v's key is gone
\* for good once w has set its fence.
Succeeds(w, v) ==
    Standing(v) =>
      /\ sess[w].fence > sess[v].fence =>
           /\ sess[w].pc = "minted" => sess[w].grace = TakeoverGrace
           /\ sess[w].pc \in Keyed => ~HasKey(v) /\ Life(v) < sess[w].grace
      /\ beat[w].held > sess[v].fence => ~HasKey(v)

TimeInv ==
    /\ \A w \in Workers : Outlived(w)
    /\ \A v, w \in Workers : v # w => Succeeds(w, v)

\* The two kinds of lives that add up: a lease's and its legs'.
LEMMA FullBound ==
    ASSUME Timely
    PROVE  /\ Full \in Nat /\ Heartbeat + RedisTimeout + PgTimeout <= Full
           /\ RedisTimeout + Full < LeaseTtl + TakeoverGrace
  BY TimingAssumption, StoreAssumption DEF Timely, Full

\* The end of a tick is never further away than a whole interval and its legs.
LEMMA ToEndBound ==
    ASSUME NEW h \in Beats, InTime(h)
    PROVE  ToEnd(h) \in 0 .. (Heartbeat + RedisTimeout + PgTimeout)
  BY TimingAssumption DEF ToEnd, Beats, InTime

\* Life is a length of time.
LEMMA LifeType ==
    ASSUME Timely, NEW s \in Sessions, NEW h \in Beats, InTime(h)
    PROVE  LifeOf(s, h) \in Nat
<1>1. /\ Full \in Nat /\ Full >= Watchdog - 1 /\ Watchdog \in Nat
      /\ RedisTimeout \in Nat
  BY FullBound, TimingAssumption DEF Full
<1>2. s.wait \in Nat /\ h.left \in Nat /\ h.since \in 0 .. Watchdog
  BY <1>1 DEF Sessions, Beats
<1>3. ToEnd(h) \in Nat
  BY ToEndBound, TimingAssumption
<1> QED BY <1>1, <1>2, <1>3 DEF LifeOf

\* add() sets the baseline when set-fence has been answered.
LEMMA LifeAdded ==
    ASSUME Timely, NEW s \in Sessions, NEW h \in Beats, NEW f \in Nat,
           NEW p \in 0 .. Heartbeat, s.pc = "fencing",
           h.leg = "redis" /\ h.renewed = "yes" => h.left <= s.wait
    PROVE  LifeOf([s EXCEPT !.pc = "reading", !.wait = 0],
                  [h EXCEPT !.held = f, !.since = 0, !.phase = p]) <= LifeOf(s, h)
<1> DEFINE t == [s EXCEPT !.pc = "reading", !.wait = 0]
           g == [h EXCEPT !.held = f, !.since = 0, !.phase = p]
<1>1. /\ t.pc = "reading" /\ g.leg = h.leg /\ g.renewed = h.renewed
      /\ g.left = h.left /\ g.since = 0
  BY DEF Sessions, Beats
<1>2. Full \in Nat /\ s.wait \in Nat /\ h.left \in Nat /\ 0 < Watchdog
  BY FullBound, TimingAssumption DEF Sessions, Beats, Timely
<1> HIDE DEF t, g
<1> QED BY <1>1, <1>2 DEF LifeOf

\* A tick starts when the interval is over, and may bring a renewal.
LEMMA LifeStarted ==
    ASSUME Timely, NEW s \in Sessions, NEW h \in Beats, InTime(h),
           h.leg = "none", h.phase = Heartbeat, NEW n \in Nat, NEW r \in Replies
    PROVE  LET g == [h EXCEPT !.phase = 0, !.leg = "redis", !.left = RedisTimeout,
                              !.snap = n, !.renewed = r]
           IN /\ s.pc = "fencing" \/ r # "yes" => LifeOf(s, g) <= LifeOf(s, h)
              /\ s.pc # "fencing" /\ r = "yes" => LifeOf(s, g) = RedisTimeout + Full
<1> DEFINE g == [h EXCEPT !.phase = 0, !.leg = "redis", !.left = RedisTimeout,
                          !.snap = n, !.renewed = r]
<1>1. /\ g.leg = "redis" /\ g.renewed = r /\ g.left = RedisTimeout
      /\ g.since = h.since
  BY DEF Beats
<1>2. /\ Full \in Nat /\ s.wait \in Nat /\ h.since \in Int /\ Watchdog \in Nat
      /\ RedisTimeout \in Nat /\ PgTimeout \in Nat /\ Heartbeat \in Nat
  BY FullBound, TimingAssumption DEF Sessions, Beats
<1>3. ToEnd(g) = RedisTimeout + PgTimeout /\ ToEnd(h) = RedisTimeout + PgTimeout
  BY <1>1, <1>2 DEF ToEnd
<1> HIDE DEF g
<1>4. /\ s.pc = "fencing" \/ r # "yes" => LifeOf(s, g) <= LifeOf(s, h)
      /\ s.pc # "fencing" /\ r = "yes" => LifeOf(s, g) = RedisTimeout + Full
  BY <1>1, <1>2, <1>3 DEF LifeOf
<1> QED BY <1>4 DEF g

\* The reply of Redis moves the baseline if it brings a renewal.
LEMMA LifeReplied ==
    ASSUME Timely, NEW s \in Sessions, NEW h \in Beats, InTime(h),
           h.leg = "redis", h.held # 0, NEW p \in {"ok", "conflict", "error"}
    PROVE  LET g == [h EXCEPT !.leg = "pg", !.left = PgTimeout,
                       !.since = IF h.renewed = "yes" /\ h.held # 0 THEN 0 ELSE h.since,
                       !.pg = p]
           IN LifeOf(s, g) <= LifeOf(s, h)
<1> DEFINE g == [h EXCEPT !.leg = "pg", !.left = PgTimeout,
                   !.since = IF h.renewed = "yes" /\ h.held # 0 THEN 0 ELSE h.since,
                   !.pg = p]
<1>1. /\ g.leg = "pg" /\ g.left = PgTimeout
      /\ g.since = IF h.renewed = "yes" THEN 0 ELSE h.since
  BY DEF Beats
<1>2. /\ Full \in Nat /\ s.wait \in Nat /\ h.since \in Nat /\ Watchdog \in Nat
      /\ h.left \in Nat /\ PgTimeout \in Nat /\ 0 < Watchdog
  BY FullBound, TimingAssumption DEF Sessions, Beats, Timely
<1>3. ToEnd(g) = PgTimeout /\ ToEnd(h) = h.left + PgTimeout
  BY <1>1 DEF ToEnd
<1> HIDE DEF g
<1>4. LifeOf(s, g) <= LifeOf(s, h)
  BY <1>1, <1>2, <1>3 DEF LifeOf
<1> QED BY <1>4 DEF g

\* A tick that ends without fencing has found the baseline young.
LEMMA LifeEnded ==
    ASSUME Timely, NEW s \in Sessions, NEW h \in Beats,
           h.leg = "pg", h.held # 0, ~SelfFences(h)
    PROVE  LET g == [h EXCEPT !.leg = "none", !.left = 0, !.snap = 0,
                              !.renewed = "lost", !.pg = "ok"]
           IN LifeOf(s, g) <= LifeOf(s, h)
<1> DEFINE g == [h EXCEPT !.leg = "none", !.left = 0, !.snap = 0,
                          !.renewed = "lost", !.pg = "ok"]
<1>1. g.leg = "none" /\ g.since = h.since
  BY DEF Beats
<1>2. /\ Full \in Nat /\ s.wait \in Nat /\ h.since \in Nat /\ Watchdog \in Nat
      /\ h.since < Watchdog
  BY FullBound, TimingAssumption DEF Sessions, Beats, SelfFences, WatchdogDue
<1> HIDE DEF g
<1>3. LifeOf(s, g) <= LifeOf(s, h)
  BY <1>1, <1>2 DEF LifeOf
<1> QED BY <1>3 DEF g

-----------------------------------------------------------------------------
(* What a step of one worker leaves alone. *)

\* A script changes the key only if it is gone or the caller's, and leaves it
\* gone or the caller's.
LEMMA ScriptOwner ==
    ASSUME key \in Keys, NEW u \in Workers, NEW f \in Nat,
           NEW c \in Command(key, AcquireScript(key, u))
                \cup Command(key, SetFenceScript(key, u, f))
                \cup Command(key, RenewScript(key, u, f))
                \cup Command(key, ReleaseScript(key, u, f))
    PROVE  \/ c.key = key
           \/ key.owner \in {NoWorker, u} /\ c.key.owner \in {NoWorker, u}
  BY DEF Command, AcquireScript, SetFenceScript, RenewScript, ReleaseScript,
         Executed, Keys, KeyOf, NoKey, Carries

\* The key of another worker is not touched.
LEMMA KeyStep ==
    ASSUME TypeOK, NEW u \in Workers, Work(u)
    PROVE  \/ key' = key
           \/ key.owner \in {NoWorker, u} /\ key'.owner \in {NoWorker, u}
<1>1. /\ key \in Keys /\ 0 \in Nat /\ Pending \in Nat
      /\ sess[u].fence \in Nat /\ rel[u].fence \in Nat /\ beat[u].held \in Nat
  BY DEF TypeOK, Sessions, Releases, Beats, Pending
<1>2. CASE Place(u)
  <2>1. PICK c \in Command(key, AcquireScript(key, u)) : key' = c.key
    BY <1>2 DEF Place
  <2> QED BY <1>1, <2>1, ScriptOwner
<1>3. CASE UndoPlace(u)
  <2>1. PICK c \in Command(key, ReleaseScript(key, u, Pending)) : key' = c.key
    BY <1>3 DEF UndoPlace
  <2> QED BY <1>1, <2>1, ScriptOwner
<1>4. CASE SetFence(u)
  <2>1. PICK c \in Command(key, SetFenceScript(key, u, sess[u].fence)) : key' = c.key
    BY <1>4 DEF SetFence
  <2> QED BY <1>1, <2>1, ScriptOwner
<1>5. CASE ReleaseRedis(u)
  <2>1. PICK c \in Command(key, ReleaseScript(key, u, rel[u].fence)) : key' = c.key
    BY <1>5 DEF ReleaseRedis
  <2> QED BY <1>1, <2>1, ScriptOwner
<1>6. CASE BeatStart(u)
  <2>1. PICK c \in Command(key, RenewScript(key, u, beat[u].held)) : key' = c.key
    BY <1>6 DEF BeatStart
  <2> QED BY <1>1, <2>1, ScriptOwner
<1>7. CASE ~(Place(u) \/ UndoPlace(u) \/ SetFence(u) \/ ReleaseRedis(u) \/ BeatStart(u))
  <2>1. CASE Scan(u) \/ PassOver(u) \/ Mint(u) \/ AddLease(u) \/ Register(u)
             \/ EpochReadFails(u) \/ BeginBuild(u) \/ FinishBuild(u) \/ Disconnect(u)
    BY <2>1 DEF Scan, PassOver, Mint, AddLease, Register, EpochReadFails,
                BeginBuild, FinishBuild, Disconnect
  <2>2. CASE TeardownNoRelease(u) \/ TeardownWithRelease(u) \/ ReleasePg(u)
             \/ DrainEnd(u) \/ DrainRelease(u) \/ StrayOpens(u) \/ StrayEnds(u)
             \/ StrayTearsDown(u) \/ Crash(u)
    BY <2>2 DEF TeardownNoRelease, TeardownWithRelease, ReleasePg, DrainEnd,
                DrainRelease, StrayOpens, StrayEnds, StrayTearsDown, Crash
  <2>3. CASE BeatSkip(u) \/ BeatRedisReply(u) \/ BeatEnd(u)
    BY <2>3 DEF BeatSkip, BeatRedisReply, BeatEnd
  <2> QED BY <1>7, <2>1, <2>2, <2>3 DEF Work
<1> QED BY <1>2, <1>3, <1>4, <1>5, <1>6, <1>7

\* Another worker's session, heartbeat, release and stray are not touched.
LEMMA OthersKeep ==
    ASSUME TypeOK, NEW u \in Workers, Work(u), NEW v \in Workers, v # u
    PROVE  /\ sess'[v] = sess[v] /\ beat'[v] = beat[v]
           /\ rel'[v] = rel[v] /\ stray'[v] = stray[v]
<1>1. CASE Scan(u) \/ PassOver(u) \/ Place(u) \/ Mint(u) \/ UndoPlace(u) \/ SetFence(u)
           \/ AddLease(u) \/ Register(u) \/ EpochReadFails(u)
  BY <1>1 DEF Scan, PassOver, Place, Mint, UndoPlace, SetFence, AddLease, Register,
              EpochReadFails, TypeOK
<1>2. CASE BeginBuild(u) \/ FinishBuild(u) \/ Disconnect(u)
           \/ ReleaseRedis(u) \/ ReleasePg(u) \/ DrainRelease(u)
           \/ StrayOpens(u) \/ StrayEnds(u) \/ Crash(u)
  BY <1>2 DEF BeginBuild, FinishBuild, Disconnect, ReleaseRedis, ReleasePg,
              DrainRelease, StrayOpens, StrayEnds, Crash, TypeOK
<1>3. CASE TeardownNoRelease(u) \/ TeardownWithRelease(u) \/ DrainEnd(u)
           \/ StrayTearsDown(u)
  BY <1>3 DEF TeardownNoRelease, TeardownWithRelease, DrainEnd, StrayTearsDown,
              EndSession, TypeOK
<1>4. CASE BeatStart(u) \/ BeatSkip(u) \/ BeatRedisReply(u)
  BY <1>4 DEF BeatStart, BeatSkip, BeatRedisReply, TypeOK
<1>5. CASE BeatEnd(u)
  BY <1>5 DEF BeatEnd, EndSession, TypeOK
<1> QED BY <1>1, <1>2, <1>3, <1>4, <1>5 DEF Work

\* Nor is its key, so its lease stands as before.
LEMMA OthersStand ==
    ASSUME TypeOK, NEW u \in Workers, Work(u), NEW v \in Workers, v # u
    PROVE  /\ Life(v)' = Life(v)
           /\ HasKey(v)' <=> HasKey(v)
           /\ HasKey(v) => key' = key
           /\ Standing(v)' <=> Standing(v)
<1>1. sess'[v] = sess[v] /\ beat'[v] = beat[v]
  BY OthersKeep
<1>2. \/ key' = key
      \/ key.owner # v /\ key'.owner # v
  BY KeyStep, StoreAssumption
<1>3. /\ HasKey(v)' <=> HasKey(v)
      /\ HasKey(v) => key' = key
  BY <1>1, <1>2 DEF HasKey, Carries
<1> QED BY <1>1, <1>3 DEF Life, Standing

-----------------------------------------------------------------------------
(* The worker's own state. *)

\* A worker without a fenced session owes only the timing of its tick.
LEMMA OwnGone ==
    ASSUME NEW u \in Workers, sess'[u].pc \notin Fenced, sess'[u].fence = 0,
           InTime(beat'[u])
    PROVE  OwnInv(u)'
  BY DEF OwnInv, Fenced, Registered

\* A session past add() that goes on under its fence.
LEMMA OwnGoesOn ==
    ASSUME TypeOK, TypeOK', NEW u \in Workers, OwnInv(u),
           sess[u].pc \in Fenced, sess'[u].pc \in {"reading"} \cup Registered,
           sess'[u].fence = sess[u].fence, InTime(beat'[u]),
           sess'[u].pc \in {"building", "open"} => sess'[u].grace = 0,
           rel'[u].fence \in {0, rel[u].fence, stray[u].fence},
           stray'[u].fence \in {0, stray[u].fence},
           beat'[u].held \in {0, beat[u].held, sess[u].fence}
    PROVE  OwnInv(u)'
<1>1. /\ sess[u].fence \in Nat /\ rel[u].fence \in Nat /\ stray[u].fence \in Nat
      /\ beat[u].held \in Nat
  BY DEF TypeOK, Sessions, Releases, Strays, Beats
<1>2. sess'[u].pc \in Fenced /\ sess'[u].pc \notin {"minted", "fencing"}
  BY DEF Fenced, Registered
<1>3. sess'[u].fence > 0
  BY <1>1 DEF OwnInv
<1> QED BY <1>1, <1>2, <1>3 DEF OwnInv

\* Forgetting a lease does not touch the tick.
LEMMA ForgetInTime ==
    ASSUME NEW h \in Beats, InTime(h)
    PROVE  /\ InTime(Forget(h)) /\ Forget(h).held = 0
           /\ InTime(IdleBeat)
<1>1. /\ Forget(h).leg = h.leg /\ Forget(h).left = h.left /\ Forget(h).held = 0
      /\ IdleBeat.leg = "none"
  BY DEF Forget, Beats, IdleBeat
<1> QED BY <1>1 DEF InTime

\* Steps after which the worker has no fenced session.
Ends(u) ==
    \/ Scan(u) \/ PassOver(u) \/ Place(u) \/ UndoPlace(u) \/ EpochReadFails(u)
    \/ TeardownNoRelease(u) \/ TeardownWithRelease(u) \/ DrainEnd(u) \/ Crash(u)

\* They leave nothing to be asked of the session.
LEMMA EndsOwn ==
    ASSUME TypeOK, NEW u \in Workers, OwnInv(u), Ends(u)
    PROVE  OwnInv(u)' /\ sess'[u].pc \notin Fenced
<1>1. /\ NoSession.fence = 0 /\ NoSession.pc \notin Fenced
      /\ LET p == [NoSession EXCEPT !.pc = "placed"] IN p.fence = 0 /\ p.pc \notin Fenced
  BY DEF NoSession, Fenced, Registered
<1>2. beat[u] \in Beats /\ InTime(beat[u])
  BY DEF TypeOK, OwnInv
<1>3. sess'[u].pc \notin Fenced /\ sess'[u].fence = 0
  <2>1. CASE Scan(u)
    <3>1. sess[u].fence = 0
      BY <2>1 DEF Scan, OwnInv, Fenced, Registered
    <3>2. sess'[u].pc = "found" /\ sess'[u].fence = sess[u].fence
      BY <2>1 DEF Scan, TypeOK, Sessions
    <3> QED BY <3>1, <3>2 DEF Fenced, Registered
  <2>2. CASE Place(u)
    BY <2>2, <1>1 DEF Place, TypeOK
  <2>3. CASE ~(Scan(u) \/ Place(u))
    <3>1. sess'[u] = NoSession
      BY <2>3 DEF Ends, PassOver, UndoPlace, EpochReadFails, TeardownNoRelease,
                  TeardownWithRelease, DrainEnd, Crash, EndSession, TypeOK
    <3> QED BY <1>1, <3>1
  <2> QED BY <2>1, <2>2, <2>3
<1>4. InTime(beat'[u])
  <2>1. beat'[u] \in {beat[u], Forget(beat[u]), IdleBeat}
    BY DEF Ends, Scan, PassOver, Place, UndoPlace, EpochReadFails, TeardownNoRelease,
           TeardownWithRelease, DrainEnd, Crash, TypeOK
  <2> QED BY <1>2, <2>1, ForgetInTime
<1> QED BY <1>3, <1>4, OwnGone

\* Steps of the runner that change neither the heartbeat nor the fence.
Runs(u) ==
    \/ Register(u) \/ BeginBuild(u) \/ FinishBuild(u) \/ Disconnect(u)

\* Such a step moves the session on under its fence, and touches nothing else.
LEMMA RunsSession ==
    ASSUME TypeOK, NEW u \in Workers, OwnInv(u), Runs(u)
    PROVE  /\ sess[u].pc \in {"reading"} \cup Registered
           /\ sess'[u].pc \in Registered
           /\ sess'[u].fence = sess[u].fence /\ sess'[u].grace = sess[u].grace
           /\ sess'[u].pc \in {"building", "open"} => sess'[u].grace = 0
           /\ UNCHANGED <<key, row, beat, rel, stray>>
<1>1. CASE Register(u)
  BY <1>1 DEF Register, TypeOK, Sessions, Registered
<1>2. CASE BeginBuild(u)
  BY <1>2 DEF BeginBuild, TypeOK, Sessions, Registered
<1>3. CASE FinishBuild(u)
  <2>1. sess[u].grace = 0
    BY <1>3 DEF FinishBuild, OwnInv
  <2> QED BY <1>3, <2>1 DEF FinishBuild, TypeOK, Sessions, Registered
<1>4. CASE Disconnect(u)
  BY <1>4 DEF Disconnect, TypeOK, Sessions, Registered
<1> QED BY <1>1, <1>2, <1>3, <1>4 DEF Runs
\* A session that w's step carries on: it stands only if it stood, its lease
\* lives no longer unless its key has just been written, and what it has in the
\* key was there.
Kept(u) ==
    /\ sess[u].pc \in Fenced /\ sess'[u].pc \in Fenced
    /\ sess'[u].fence = sess[u].fence /\ sess'[u].grace = sess[u].grace
    /\ sess'[u].pc = "minted" => sess[u].pc = "minted"
    /\ sess'[u].pc \in Keyed => sess[u].pc \in Keyed \/ HasKey(u)
    /\ Standing(u)' => Standing(u)
    /\ HasKey(u)' => HasKey(u)
    /\ Standing(u)' /\ sess'[u].pc \in Keyed =>
         \/ /\ sess[u].pc \in Keyed /\ Life(u)' <= Life(u)
            /\ HasKey(u) => HasKey(u)' /\ key'.ttl >= key.ttl
         \/ /\ HasKey(u) /\ HasKey(u)' /\ key'.ttl = LeaseTtl
            /\ Life(u)' <= RedisTimeout + Full

\* A step that leaves session and heartbeat alone, and the key if it is w's.
LEMMA OwnStays ==
    ASSUME TypeOK, TypeOK', Timely, NEW u \in Workers, OwnInv(u),
           sess'[u] = sess[u], beat'[u] = beat[u],
           rel'[u].fence \in {0, rel[u].fence, stray[u].fence},
           stray'[u].fence \in {0, stray[u].fence},
           sess[u].pc \in Fenced /\ HasKey(u) => key' = key,
           sess[u].pc \in Fenced /\ HasKey(u)' => HasKey(u)
    PROVE  OwnInv(u)' /\ (sess'[u].pc \in Fenced => Kept(u))
<1>1. CASE sess[u].pc \notin Fenced
  BY <1>1, OwnGone DEF OwnInv
<1>2. CASE sess[u].pc \in Fenced
  <2>1. /\ sess[u].fence \in Nat /\ rel[u].fence \in Nat /\ stray[u].fence \in Nat
        /\ beat[u].held \in Nat
    BY DEF TypeOK, Sessions, Releases, Strays, Beats
  <2>2. sess[u].fence > 0
    BY <1>2, <2>1 DEF OwnInv
  <2>3. HasKey(u) => HasKey(u)'
    BY <1>2 DEF HasKey
  <2>4. OwnInv(u)'
    BY <1>2, <2>1, <2>2, <2>3 DEF OwnInv
  <2>5. Life(u)' = Life(u) /\ Life(u) \in Nat
    BY LifeType DEF Life, TypeOK, OwnInv
  <2>6. Standing(u)' => Standing(u)
    BY <1>2 DEF Standing
  <2>7. sess[u].pc \in Keyed \/ sess[u].pc = "minted"
    BY <1>2 DEF Keyed, Fenced
  <2>8. key'.ttl = key.ttl \/ ~HasKey(u)
    BY <1>2
  <2>9. key.ttl \in Nat
    BY DEF TypeOK, Keys
  <2>10. Kept(u)
    BY <1>2, <2>3, <2>5, <2>6, <2>7, <2>8, <2>9 DEF Kept, Keyed
  <2> QED BY <2>4, <2>10
<1> QED BY <1>1, <1>2

\* A session past add() whose worker moves on under the same lease.
LEMMA OwnMoves ==
    ASSUME TypeOK, TypeOK', Timely, NEW u \in Workers, OwnInv(u),
           sess[u].pc \in {"reading"} \cup Registered,
           sess'[u].pc \in {"reading"} \cup Registered,
           sess'[u].fence = sess[u].fence, sess'[u].grace = sess[u].grace,
           sess'[u].pc \in {"building", "open"} => sess'[u].grace = 0,
           beat'[u] = beat[u], stray' = stray,
           rel'[u].fence \in {0, rel[u].fence},
           HasKey(u) => key' = key,
           HasKey(u)' => HasKey(u)
    PROVE  OwnInv(u)' /\ Kept(u)
<1>1. /\ sess[u].pc \in Fenced /\ sess'[u].pc \in Fenced
      /\ sess[u].pc \in Keyed /\ sess'[u].pc \in Keyed
      /\ sess[u].pc \notin {"minted", "fencing"}
      /\ sess'[u].pc \notin {"minted", "fencing"}
  BY DEF Fenced, Keyed, Registered
<1>2. OwnInv(u)'
  <2>1. InTime(beat[u])
    BY DEF OwnInv
  <2> QED BY <1>1, <2>1, OwnGoesOn
<1>3. Life(u)' = Life(u) /\ Life(u) \in Nat
  <2>1. LifeOf(sess'[u], beat[u]) = LifeOf(sess[u], beat[u])
    BY <1>1 DEF LifeOf
  <2> QED BY <2>1, LifeType DEF Life, TypeOK, OwnInv
<1>4. Standing(u)' => Standing(u)
  BY <1>1 DEF Standing
<1>5. HasKey(u) => HasKey(u)'
  BY <1>1 DEF HasKey
<1>6. key.ttl \in Nat /\ (HasKey(u) => key'.ttl >= key.ttl)
  BY DEF TypeOK, Keys
<1> QED BY <1>1, <1>2, <1>3, <1>4, <1>5, <1>6 DEF Kept

\* Steps that leave session and heartbeat as they are, or take a socket down.
Idles(u) ==
    \/ ReleaseRedis(u) \/ ReleasePg(u) \/ DrainRelease(u)
    \/ StrayOpens(u) \/ StrayEnds(u)

\* They keep what holds of the session, and its lease.
LEMMA IdlesOwn ==
    ASSUME TypeOK, TypeOK', Timely, ReleaseInv, NEW u \in Workers, OwnInv(u), Idles(u)
    PROVE  OwnInv(u)' /\ (sess'[u].pc \in Fenced => Kept(u))
<1>1. NoRelease.fence = 0 /\ NoStray.fence = 0
  BY IdleFences
<1>2. CASE ReleasePg(u) \/ StrayOpens(u) \/ StrayEnds(u)
  <2>1. sess' = sess /\ beat' = beat /\ key' = key
    BY <1>2 DEF ReleasePg, StrayOpens, StrayEnds
  <2>2. rel'[u].fence \in {0, rel[u].fence} /\ stray'[u].fence \in {0, stray[u].fence}
    BY <1>1, <1>2 DEF ReleasePg, StrayOpens, StrayEnds, TypeOK, Strays
  <2> QED BY <2>1, <2>2, OwnStays DEF HasKey
<1>3. CASE DrainRelease(u)
  <2>1. /\ sess[u] = NoSession /\ sess' = sess /\ beat' = beat
    BY <1>3 DEF DrainRelease, ReleaseInv
  <2>2. NoSession.pc \notin Fenced /\ NoSession.fence = 0
    BY DEF NoSession, Fenced, Registered
  <2> QED BY <2>1, <2>2, OwnGone DEF OwnInv
<1>4. CASE ReleaseRedis(u)
  <2>1. PICK c \in Command(key, ReleaseScript(key, u, rel[u].fence)) : key' = c.key
    BY <1>4 DEF ReleaseRedis
  <2>2. /\ rel[u].fence # 0 /\ beat' = beat /\ stray' = stray
        /\ rel'[u].fence = rel[u].fence
    BY <1>4 DEF ReleaseRedis, ReleaseInv, TypeOK, Releases
  <2>3. /\ Carries(key, u, rel[u].fence) \/ key' = key
        /\ key' = key \/ key' = NoKey
    BY <2>1 DEF Command, ReleaseScript, Executed
  <2>4. sess[u].pc \in Fenced => sess[u].fence # rel[u].fence
    BY <2>2 DEF OwnInv, TypeOK, Sessions, Releases
  <2>5. sess[u].pc \in Fenced /\ HasKey(u) => key' = key
    BY <2>2, <2>3, <2>4 DEF HasKey, Carries, Pending
  <2>6. CASE sess[u].pc \in {"parked", "open"}
    <3>1. /\ sess[u].pc \in Registered /\ sess'[u].pc = "down"
          /\ sess'[u].fence = sess[u].fence /\ sess'[u].grace = sess[u].grace
      BY <1>4, <2>6 DEF ReleaseRedis, TypeOK, Sessions, Registered
    <3>2. sess'[u].pc \in Registered /\ sess'[u].pc \notin {"minted", "building", "open"}
          /\ sess[u].pc \in Fenced /\ sess[u].pc # "minted"
      BY <3>1 DEF Registered, Fenced
    <3>3. HasKey(u)' => HasKey(u)
      <4>1. NoKey.owner # u
        BY StoreAssumption DEF NoKey
      <4> QED BY <2>3, <3>1, <3>2, <4>1 DEF HasKey, Carries
    <3> QED BY <2>2, <2>5, <3>1, <3>2, <3>3, OwnMoves
  <2>7. CASE sess[u].pc \notin {"parked", "open"}
    <3>1. sess' = sess
      BY <1>4, <2>7 DEF ReleaseRedis
    <3>2. HasKey(u)' => HasKey(u)
      <4>1. NoKey.owner # u
        BY StoreAssumption DEF NoKey
      <4> QED BY <2>3, <3>1, <4>1 DEF HasKey, Carries
    <3> QED BY <2>2, <2>5, <3>1, <3>2, OwnStays
  <2> QED BY <2>6, <2>7
<1> QED BY <1>2, <1>3, <1>4 DEF Idles

\* So does the runner.
LEMMA RunsOwn ==
    ASSUME TypeOK, TypeOK', Timely, NEW u \in Workers, OwnInv(u), Runs(u)
    PROVE  OwnInv(u)' /\ Kept(u)
<1>1. /\ sess[u].pc \notin {"minted", "fencing"} /\ sess'[u].pc \notin {"minted", "fencing"}
      /\ sess'[u].pc \in Registered
  BY RunsSession DEF Registered
<1>2. HasKey(u)' <=> HasKey(u)
  BY <1>1, RunsSession DEF HasKey
<1> QED BY <1>1, <1>2, RunsSession, OwnMoves

\* Steps of the heartbeat that leave the session alone.
LEMMA BeatStartOwn ==
    ASSUME TypeOK, TypeOK', Timely, NEW u \in Workers, OwnInv(u), BeatStart(u)
    PROVE  OwnInv(u)' /\ (sess'[u].pc \in Fenced => Kept(u))
<1> DEFINE s == sess[u]
           h == beat[u]
<1>1. PICK c \in Command(key, RenewScript(key, u, h.held)) :
        /\ key' = c.key
        /\ beat' = [beat EXCEPT ![u] = [h EXCEPT
                      !.phase = 0, !.leg = "redis", !.left = RedisTimeout,
                      !.snap = h.held, !.renewed = c.reply]]
  BY DEF BeatStart
<1> DEFINE g == [h EXCEPT !.phase = 0, !.leg = "redis", !.left = RedisTimeout,
                          !.snap = h.held, !.renewed = c.reply]
<1>2. /\ s \in Sessions /\ h \in Beats /\ key \in Keys /\ h.held \in Nat
      /\ h.held # 0 /\ h.leg = "none" /\ h.phase = Heartbeat /\ InTime(h)
      /\ UNCHANGED <<row, sess, rel, stray>>
  BY DEF BeatStart, Fired, Timed, TypeOK, OwnInv, Beats
<1>3. beat'[u] = g
  BY <1>1 DEF TypeOK
<1>4. g.held = h.held /\ InTime(g) /\ g.renewed = c.reply /\ g.leg = "redis"
  BY <1>2, TimingAssumption DEF Beats, InTime
<1>5. c.reply \in Replies
  BY <1>1, <1>2, ScriptKey
<1>6. /\ \/ key' = key
         \/ Carries(key, u, h.held) /\ key' = KeyOf(u, h.held)
      /\ c.reply = "yes" => Carries(key, u, h.held) /\ key' = KeyOf(u, h.held)
  BY <1>1 DEF Command, RenewScript, Executed
<1>7. LET L == LifeOf(s, g) IN
        /\ s.pc = "fencing" \/ c.reply # "yes" => L <= LifeOf(s, h)
        /\ s.pc # "fencing" /\ c.reply = "yes" => L = RedisTimeout + Full
  BY <1>2, <1>5, LifeStarted, Timely
<1>8. Life(u)' = LifeOf(s, g) /\ Life(u) = LifeOf(s, h)
  BY <1>2, <1>3 DEF Life
<1>9. /\ KeyOf(u, h.held).owner = u /\ KeyOf(u, h.held).fence = h.held
      /\ KeyOf(u, h.held).ttl = LeaseTtl /\ key.ttl <= LeaseTtl /\ key.ttl \in Nat
      /\ LeaseTtl \in Nat
  BY <1>2, StoreAssumption DEF KeyOf, Keys
<1> HIDE DEF g, s, h
<1>10. CASE sess[u].pc \notin Fenced
  BY <1>2, <1>3, <1>4, <1>10, OwnGone DEF OwnInv
<1>11. CASE sess[u].pc \in {"minted", "fencing"}
  <2>1. h.held < sess[u].fence /\ sess[u].fence \in Nat
    BY <1>11 DEF OwnInv, TypeOK, Sessions, h
  <2>2. HasKey(u) => key' = key /\ c.reply # "yes"
    BY <1>2, <1>6, <1>11, <2>1 DEF HasKey, Carries, Pending
  <2>3. HasKey(u)' => HasKey(u)
    BY <1>2, <1>6, <1>9, <1>11, <2>1 DEF HasKey, Carries, Pending
  <2>4. sess[u].pc \in Fenced
    BY <1>11 DEF Fenced
  <2>5. OwnInv(u)'
    BY <1>2, <1>3, <1>4, <1>11, <2>1, <2>2, <2>4 DEF OwnInv, HasKey, h
  <2>6. Standing(u)' => Standing(u)
    BY <1>2, <1>3, <1>4, <1>11, <2>3 DEF Standing, h
  <2>7. /\ sess[u].pc = "fencing" => Life(u)' <= Life(u) /\ HasKey(u)
        /\ sess[u].pc = "minted" => sess[u].pc \notin Keyed
        /\ sess[u].pc = "fencing" => sess[u].pc \in Keyed
    BY <1>7, <1>8 DEF OwnInv, Keyed, Registered, s
  <2>8. HasKey(u) => HasKey(u)' /\ key'.ttl >= key.ttl
    BY <1>2, <1>9, <2>2 DEF HasKey
  <2> QED BY <1>2, <1>11, <2>3, <2>4, <2>5, <2>6, <2>7, <2>8 DEF Kept
<1>12. CASE sess[u].pc \in {"reading"} \cup Registered
  <2>1. /\ sess[u].pc \in Fenced /\ sess[u].pc \in Keyed
        /\ sess[u].pc # "minted" /\ sess[u].pc # "fencing"
    BY <1>12 DEF Fenced, Keyed, Registered
  <2>2. OwnInv(u)'
    <3>1. sess[u].pc \in {"building", "open"} => sess[u].grace = 0
      BY DEF OwnInv
    <3>2. g.held = beat[u].held
      BY <1>4 DEF h
    <3> QED BY <1>2, <1>3, <1>4, <1>12, <2>1, <3>1, <3>2, OwnGoesOn
  <2>3. Standing(u)' => Standing(u) /\ h.held = sess[u].fence
    BY <1>2, <1>3, <1>4, <2>1 DEF Standing, h
  <2>4. HasKey(u)' <=> HasKey(u)
    BY <1>2, <1>6, <1>9, <2>1 DEF HasKey, Carries
  <2>5. HasKey(u) => key'.ttl >= key.ttl
    BY <1>6, <1>9
  <2>6. Standing(u)' /\ c.reply = "yes" =>
          HasKey(u) /\ key'.ttl = LeaseTtl /\ Life(u)' <= RedisTimeout + Full
    <3>1. RedisTimeout + Full \in Nat
      BY FullBound, TimingAssumption
    <3> QED BY <1>6, <1>7, <1>8, <1>9, <2>1, <2>3, <3>1 DEF HasKey, s
  <2>7. c.reply # "yes" => Life(u)' <= Life(u)
    BY <1>7, <1>8
  <2> QED BY <1>2, <2>1, <2>2, <2>3, <2>4, <2>5, <2>6, <2>7 DEF Kept
<1>13. sess[u].pc \in Fenced => sess[u].pc \in {"minted", "fencing"} \cup {"reading"} \cup Registered
  BY DEF Fenced
<1> QED BY <1>10, <1>11, <1>12, <1>13

\* A step of the heartbeat that leaves key and session alone and gives the lease
\* no longer life keeps what holds of the worker.
LEMMA OwnTicks ==
    ASSUME TypeOK, TypeOK', Timely, NEW u \in Workers, OwnInv(u),
           UNCHANGED <<key, sess, rel>>, stray'[u].fence \in {0, stray[u].fence},
           InTime(beat'[u]),
           beat'[u].held \in {0, beat[u].held},
           sess[u].pc = "fencing" /\ beat'[u].leg = "redis" /\ beat'[u].renewed = "yes"
             => beat'[u].left <= sess[u].wait,
           beat'[u].held # 0 => LifeOf(sess[u], beat'[u]) <= Life(u)
    PROVE  OwnInv(u)' /\ (sess'[u].pc \in Fenced => Kept(u))
<1>1. /\ HasKey(u)' <=> HasKey(u)
      /\ Life(u)' = LifeOf(sess[u], beat'[u])
  BY DEF HasKey, Life
<1>2. /\ sess[u].fence \in Nat /\ rel[u].fence \in Nat /\ stray[u].fence \in Nat
      /\ beat[u].held \in Nat /\ key.ttl \in Nat
  BY DEF TypeOK, Sessions, Releases, Strays, Beats, Keys
<1>3. CASE sess[u].pc \notin Fenced
  BY <1>3, OwnGone DEF OwnInv
<1>4. CASE sess[u].pc \in Fenced
  <2>1. sess[u].fence > 0
    BY <1>2, <1>4 DEF OwnInv
  <2>2. OwnInv(u)'
    BY <1>1, <1>2, <1>4, <2>1 DEF OwnInv
  <2>3. Standing(u)' => Standing(u)
    BY <1>1, <2>1 DEF Standing
  <2>4. sess[u].pc = "fencing" => Life(u)' = Life(u) /\ Life(u) \in Nat
    <3>1. Life(u) \in Nat
      BY LifeType DEF Life, TypeOK, OwnInv
    <3>2. sess[u].pc = "fencing" => LifeOf(sess[u], beat'[u]) = LifeOf(sess[u], beat[u])
      BY DEF LifeOf
    <3> QED BY <1>1, <3>1, <3>2 DEF Life
  <2>5. Standing(u)' /\ sess[u].pc \in Keyed => Life(u)' <= Life(u)
    <3>1. Standing(u)' /\ sess[u].pc # "fencing" /\ sess[u].pc \in Keyed => beat'[u].held = sess[u].fence
      BY DEF Standing, Keyed, Registered
    <3> QED BY <1>1, <2>1, <2>4, <3>1
  <2> QED BY <1>1, <1>2, <1>4, <2>2, <2>3, <2>5 DEF Kept
<1> QED BY <1>3, <1>4

\* The heartbeat keeps what holds of its worker, whether it fences or renews.
LEMMA BeatOwn ==
    ASSUME TypeOK, TypeOK', Timely, NEW u \in Workers, OwnInv(u),
           BeatSkip(u) \/ BeatRedisReply(u) \/ (BeatEnd(u) /\ UNCHANGED <<sess, stray>>)
    PROVE  OwnInv(u)' /\ (sess'[u].pc \in Fenced => Kept(u))
<1> DEFINE s == sess[u]
           h == beat[u]
<1>1. /\ s \in Sessions /\ h \in Beats /\ InTime(h)
      /\ UNCHANGED <<key, sess, rel, stray>>
  BY DEF BeatSkip, BeatRedisReply, BeatEnd, TypeOK, OwnInv
<1>2. LifeOf(s, h) \in Nat /\ Life(u) = LifeOf(s, h)
  BY <1>1, LifeType DEF Life
<1>3. CASE BeatSkip(u)
  <2> DEFINE g == [h EXCEPT !.phase = 0]
  <2>1. beat'[u] = g /\ h.leg # "none"
    BY <1>3 DEF BeatSkip, TypeOK
  <2>2. /\ g.held = h.held /\ g.leg = h.leg /\ g.left = h.left
        /\ g.renewed = h.renewed /\ g.since = h.since
    BY <1>1 DEF Beats
  <2> HIDE DEF g
  <2>3. InTime(g) /\ LifeOf(s, g) = LifeOf(s, h)
    BY <1>1, <2>1, <2>2 DEF InTime, LifeOf, ToEnd
  <2>4. /\ InTime(beat'[u]) /\ beat'[u].held \in {0, beat[u].held}
        /\ LifeOf(sess[u], beat'[u]) <= Life(u)
        /\ sess[u].pc = "fencing" /\ beat'[u].leg = "redis" /\ beat'[u].renewed = "yes"
             => beat'[u].left <= sess[u].wait
    BY <1>2, <2>1, <2>2, <2>3 DEF OwnInv
  <2> QED BY <1>1, <2>4, OwnTicks
<1>4. CASE BeatRedisReply(u)
  <2>1. h.leg = "redis" /\ h.left \in Nat
    BY <1>1, <1>4 DEF BeatRedisReply, Beats
  <2>2. PICK p \in {"ok", "conflict", "error"} :
          beat'[u] = [h EXCEPT !.leg = "pg", !.left = PgTimeout,
                       !.since = IF h.renewed = "yes" /\ h.held # 0 THEN 0 ELSE h.since,
                       !.pg = p]
    <3>1. PICK t \in Transaction(row, RenewRow(row, u, h.snap)) :
            beat' = [beat EXCEPT ![u] = [h EXCEPT
                 !.leg = "pg", !.left = PgTimeout,
                 !.since = IF h.renewed = "yes" /\ h.held # 0 THEN 0 ELSE h.since,
                 !.pg = IF ~t.ok THEN "error"
                        ELSE IF OwnsRow(row, u, h.snap) THEN "ok" ELSE "conflict"]]
      BY <1>4 DEF BeatRedisReply
    <3> DEFINE p == IF ~t.ok THEN "error"
                    ELSE IF OwnsRow(row, u, h.snap) THEN "ok" ELSE "conflict"
    <3>2. p \in {"ok", "conflict", "error"}
      OBVIOUS
    <3>3. beat'[u] = [h EXCEPT !.leg = "pg", !.left = PgTimeout,
                       !.since = IF h.renewed = "yes" /\ h.held # 0 THEN 0 ELSE h.since,
                       !.pg = p]
      BY <3>1 DEF TypeOK
    <3> HIDE DEF p
    <3> QED BY <3>2, <3>3
  <2> DEFINE g == [h EXCEPT !.leg = "pg", !.left = PgTimeout,
                     !.since = IF h.renewed = "yes" /\ h.held # 0 THEN 0 ELSE h.since,
                     !.pg = p]
  <2>3. g.held = h.held /\ g.leg = "pg" /\ InTime(g)
    BY <1>1, TimingAssumption DEF Beats, InTime
  <2>4. h.held # 0 => LifeOf(s, g) <= LifeOf(s, h)
    BY <1>1, <2>1, LifeReplied, Timely
  <2> HIDE DEF g
  <2>5. /\ InTime(beat'[u]) /\ beat'[u].held \in {0, beat[u].held}
        /\ beat'[u].held # 0 => LifeOf(sess[u], beat'[u]) <= Life(u)
        /\ beat'[u].leg # "redis"
    BY <1>2, <2>2, <2>3, <2>4 DEF g
  <2> QED BY <1>1, <2>5, OwnTicks
<1>5. CASE BeatEnd(u) /\ UNCHANGED <<sess, stray>>
  <2> DEFINE g == [h EXCEPT !.leg = "none", !.left = 0, !.snap = 0,
                            !.renewed = "lost", !.pg = "ok"]
  <2>1. h.leg = "pg" /\ beat'[u] \in {g, Forget(g)} /\ (~SelfFences(h) => beat'[u] = g)
        /\ (SelfFences(h) => beat'[u] = Forget(g))
    BY <1>5 DEF BeatEnd, TypeOK
  <2>2. g.held = h.held /\ g.leg = "none" /\ g \in Beats /\ InTime(g)
    BY <1>1 DEF Beats, InTime, Replies
  <2>3. Forget(g).held = 0 /\ Forget(g).leg = "none"
    BY <2>2 DEF Beats, Forget
  <2>4. h.held # 0 /\ ~SelfFences(h) => LifeOf(s, g) <= LifeOf(s, h)
    BY <1>1, <2>1, LifeEnded, Timely
  <2> HIDE DEF g
  <2>5. /\ InTime(beat'[u]) /\ beat'[u].held \in {0, beat[u].held}
        /\ beat'[u].held # 0 => LifeOf(sess[u], beat'[u]) <= Life(u)
        /\ beat'[u].leg # "redis"
    BY <1>2, <2>1, <2>2, <2>3, <2>4 DEF InTime
  <2> QED BY <1>1, <2>5, OwnTicks
<1> QED BY <1>3, <1>4, <1>5

\* A tick that fences, or a stray that takes the session's place, ends a
\* registered session and takes the lease of any other out of the heartbeat.
LEMMA FencedOwn ==
    ASSUME TypeOK, TypeOK', Timely, ReleaseInv, NEW u \in Workers, OwnInv(u),
           BeatEnd(u) \/ StrayTearsDown(u)
    PROVE  OwnInv(u)' /\ (sess'[u].pc \in Fenced => Kept(u))
<1> DEFINE h == beat[u]
           g == [h EXCEPT !.leg = "none", !.left = 0, !.snap = 0,
                          !.renewed = "lost", !.pg = "ok"]
<1>1. h \in Beats /\ g \in Beats /\ InTime(h) /\ InTime(g)
  <2>1. h \in Beats /\ InTime(h)
    BY DEF TypeOK, OwnInv
  <2> HIDE DEF h
  <2>2. g \in Beats /\ InTime(g)
    BY <2>1 DEF Beats, Replies, InTime
  <2> QED BY <2>1, <2>2
<1>2. NoSession.fence = 0 /\ NoSession.pc \notin Fenced
  BY DEF NoSession, Fenced, Registered
<1>3. g.held = h.held /\ g.leg = "none"
  BY <1>1 DEF Beats
<1>4. /\ Forget(h).leg = h.leg /\ Forget(h).left = h.left
      /\ Forget(h).renewed = h.renewed
  BY <1>1 DEF Forget, Beats
<1>5. InTime(beat'[u])
  <2>1. beat'[u] \in {g, Forget(g), Forget(h)}
    BY DEF BeatEnd, StrayTearsDown, TypeOK
  <2> QED BY <1>1, <2>1, ForgetInTime
<1>6. CASE sess'[u] = NoSession
  BY <1>2, <1>5, <1>6, OwnGone
<1>7. CASE StrayTearsDown(u) /\ sess'[u] # NoSession
  <2>1. /\ sess' = sess /\ key' = key /\ beat'[u] = Forget(h)
        /\ stray' = [stray EXCEPT ![u] = NoStray]
        /\ rel'[u].fence \in {rel[u].fence, stray[u].fence}
    BY <1>7 DEF StrayTearsDown, TypeOK
  <2>2. stray'[u].fence = 0 /\ Forget(h).held = 0
    BY <1>1, <2>1, IdleFences DEF TypeOK
  <2> HIDE DEF g
  <2>3. CASE sess[u].pc \notin Fenced
    BY <1>5, <2>1, <2>3, OwnGone DEF OwnInv
  <2>4. CASE sess[u].pc \in Fenced
    <3>1. /\ sess[u].fence \in Nat /\ rel[u].fence \in Nat /\ stray[u].fence \in Nat
          /\ key.ttl \in Nat
      BY DEF TypeOK, Sessions, Releases, Strays, Keys
    <3>2. /\ sess[u].fence > 0 /\ rel'[u].fence < sess[u].fence
          /\ stray'[u].fence < sess[u].fence /\ beat'[u].held < sess[u].fence
      BY <2>1, <2>2, <2>4, <3>1 DEF OwnInv
    <3>3. HasKey(u)' <=> HasKey(u)
      BY <2>1 DEF HasKey
    <3>4. OwnInv(u)'
      <4>1. sess[u].pc = "fencing" =>
              /\ HasKey(u)' /\ key'.ttl + RedisTimeout >= LeaseTtl + sess[u].wait
              /\ beat'[u].leg = "redis" /\ beat'[u].renewed = "yes"
                   => beat'[u].left <= sess[u].wait
        BY <1>4, <2>1, <3>3 DEF OwnInv
      <4>2. sess[u].pc \in {"building", "open"} => sess[u].grace = 0
        BY DEF OwnInv
      <4>3. beat'[u].held = 0 /\ sess' = sess
        BY <2>1, <2>2
      <4> QED BY <1>5, <2>4, <3>1, <3>2, <4>1, <4>2, <4>3 DEF OwnInv
    <3>5. Standing(u)' => Standing(u) /\ sess[u].pc \in {"minted", "fencing"}
      BY <2>1, <2>2, <3>2, <3>3 DEF Standing
    <3>6. sess[u].pc = "fencing" => Life(u)' = Life(u) /\ Life(u) \in Nat
      <4>1. sess[u].pc = "fencing" => LifeOf(sess[u], beat'[u]) = LifeOf(sess[u], beat[u])
        BY DEF LifeOf
      <4> QED BY <2>1, <4>1, LifeType DEF Life, TypeOK, OwnInv
    <3> QED BY <2>1, <2>4, <3>1, <3>3, <3>4, <3>5, <3>6 DEF Kept, Keyed, Registered
  <2> QED BY <2>3, <2>4
<1>8. CASE BeatEnd(u) /\ sess'[u] # NoSession
  <2>1. UNCHANGED <<sess, stray>>
    BY <1>8 DEF BeatEnd, EndSession, TypeOK
  <2> QED BY <1>8, <2>1, BeatOwn
<1> QED BY <1>6, <1>7, <1>8

\* add(): the lease enters the heartbeat with a new baseline.
LEMMA AddOwn ==
    ASSUME TypeOK, TypeOK', Timely, NEW u \in Workers, OwnInv(u), AddLease(u)
    PROVE  OwnInv(u)' /\ Kept(u)
<1> DEFINE s == sess[u]
           h == beat[u]
           t == [s EXCEPT !.pc = "reading", !.wait = 0]
<1>1. PICK p \in 0 .. Heartbeat :
        beat'[u] = [h EXCEPT !.held = s.fence, !.since = 0, !.phase = p]
  <2>1. h.phase \in 0 .. Heartbeat /\ 0 .. Heartbeat # {}
    BY Ranges DEF TypeOK, Beats
  <2>2. PICK p \in IF h.held = 0 /\ h.leg = "none" THEN 0 .. Heartbeat ELSE {h.phase} :
          beat' = [beat EXCEPT ![u] = [h EXCEPT !.held = s.fence, !.since = 0, !.phase = p]]
    BY DEF AddLease
  <2>3. p \in 0 .. Heartbeat
    BY <2>1, <2>2
  <2> QED BY <2>2, <2>3 DEF TypeOK
<1> DEFINE g == [h EXCEPT !.held = s.fence, !.since = 0, !.phase = p]
<1>2. /\ s \in Sessions /\ h \in Beats /\ s.pc = "fencing" /\ s.fence \in Nat
      /\ sess'[u] = t /\ UNCHANGED <<key, rel, stray>>
      /\ h.leg = "redis" /\ h.renewed = "yes" => h.left <= s.wait
      /\ InTime(h) /\ key.ttl \in Nat
  BY DEF AddLease, TypeOK, OwnInv, Sessions, Keys
<1>3. t.pc = "reading" /\ t.fence = s.fence /\ t.grace = s.grace
  BY <1>2 DEF Sessions
<1>4. g.held = s.fence /\ g.leg = h.leg /\ g.left = h.left
  BY <1>2 DEF Beats
<1>5. LifeOf(t, g) <= LifeOf(s, h)
  BY <1>2, LifeAdded, Timely
<1>6. Life(u)' <= Life(u)
  BY <1>1, <1>2, <1>5 DEF Life
<1> HIDE DEF s, h, t, g
<1>7. /\ sess[u].pc = "fencing" /\ sess'[u].pc = "reading" /\ InTime(beat'[u])
      /\ sess'[u].fence = sess[u].fence /\ sess'[u].grace = sess[u].grace
      /\ beat'[u].held = sess[u].fence
  BY <1>1, <1>2, <1>3, <1>4 DEF s, h, t, g, InTime
<1>8. /\ sess[u].pc \in Fenced /\ sess'[u].pc \in Fenced
      /\ sess[u].pc \in Keyed /\ sess'[u].pc \in Keyed /\ Standing(u)
  BY <1>7 DEF Fenced, Keyed, Standing
<1>9. OwnInv(u)'
  BY <1>2, <1>7, <1>8, OwnGoesOn
<1>10. HasKey(u)' <=> HasKey(u)
  BY <1>2, <1>7 DEF HasKey
<1> QED BY <1>2, <1>6, <1>7, <1>8, <1>9, <1>10 DEF Kept

\* set-fence: only a "yes" goes on, with the key just written.
LEMMA SetOwn ==
    ASSUME TypeOK, TypeOK', Timely, NEW u \in Workers, OwnInv(u), SetFence(u)
    PROVE  OwnInv(u)' /\ (sess'[u].pc \in Fenced => Kept(u))
<1>1. /\ NoSession.fence = 0 /\ NoSession.pc \notin Fenced
      /\ sess[u].pc = "minted" /\ sess[u] \in Sessions /\ InTime(beat[u])
      /\ UNCHANGED <<row, beat, rel, stray>>
  BY DEF NoSession, Fenced, Registered, SetFence, TypeOK, OwnInv
<1>2. PICK c \in Command(key, SetFenceScript(key, u, sess[u].fence)) :
        /\ key' = c.key
        /\ sess' = IF c.reply = "yes"
                   THEN [sess EXCEPT ![u] = [@ EXCEPT !.pc = "fencing",
                                                      !.wait = RedisTimeout]]
                   ELSE [sess EXCEPT ![u] = NoSession]
  BY DEF SetFence
<1>3. CASE c.reply # "yes"
  <2>1. sess'[u] = NoSession
    BY <1>2, <1>3 DEF TypeOK
  <2> QED BY <1>1, <2>1, OwnGone
<1>4. CASE c.reply = "yes"
  <2>1. Carries(key, u, Pending) /\ key' = KeyOf(u, sess[u].fence)
    BY <1>2, <1>4 DEF Command, SetFenceScript, Executed
  <2>2. /\ sess'[u].pc = "fencing" /\ sess'[u].wait = RedisTimeout
        /\ sess'[u].fence = sess[u].fence /\ sess'[u].grace = sess[u].grace
    BY <1>1, <1>2, <1>4 DEF TypeOK, Sessions
  <2>3. HasKey(u) /\ HasKey(u)' /\ key'.ttl = LeaseTtl
    BY <1>1, <2>1, <2>2 DEF HasKey, Carries, KeyOf
  <2>4. Life(u)' = RedisTimeout + Full
    BY <2>2 DEF Life, LifeOf
  <2>5. /\ sess[u].pc \in Fenced /\ sess'[u].pc \in Fenced /\ Standing(u)
        /\ RedisTimeout + Full \in Nat
    BY <1>1, <2>2, <2>3, FullBound, TimingAssumption DEF Fenced, Standing
  <2>6. OwnInv(u)'
    <3>1. /\ key'.ttl + RedisTimeout >= LeaseTtl + RedisTimeout
          /\ beat[u].leg = "redis" => beat[u].left <= RedisTimeout
      BY <1>1, <2>3, StoreAssumption, TimingAssumption DEF InTime
    <3> QED BY <1>1, <2>2, <2>3, <2>5, <3>1 DEF OwnInv
  <2> QED BY <1>1, <2>2, <2>3, <2>4, <2>5, <2>6 DEF Kept
<1> QED BY <1>3, <1>4

\* A mint: the new fence is above every fence the worker has.
LEMMA MintOwn ==
    ASSUME TypeOK, TypeOK', FenceInv, NEW u \in Workers, OwnInv(u), Mint(u)
    PROVE  /\ OwnInv(u)'
           /\ \/ /\ sess'[u].pc = "minted" /\ sess'[u].fence = row.fence + 1
                 /\ sess'[u].grace \in Graces(row)
                 /\ row' = MintRow(row, u)
              \/ sess'[u].pc = "undoing" /\ row' \in {row, MintRow(row, u)}
<1> DEFINE m == row.fence + 1
<1>1. PICK t \in Transaction(row, MintRow(row, u)), g \in Graces(row) :
        /\ row' = t.row
        /\ sess' = [sess EXCEPT ![u] =
                      IF t.ok THEN [NoSession EXCEPT !.pc = "minted", !.fence = m, !.grace = g]
                              ELSE [NoSession EXCEPT !.pc = "undoing"]]
  BY DEF Mint
<1>2. UNCHANGED <<key, beat, rel, stray>> /\ InTime(beat[u])
  BY DEF Mint, OwnInv
<1>3. CASE ~t.ok
  <2>1. sess'[u].pc = "undoing" /\ sess'[u].fence = 0
    BY <1>1, <1>3 DEF TypeOK, NoSession
  <2>2. row' \in {row, MintRow(row, u)}
    BY <1>1 DEF Transaction
  <2>3. "undoing" \notin Fenced
    BY DEF Fenced, Registered
  <2> QED BY <1>2, <2>1, <2>2, <2>3, OwnGone
<1>4. CASE t.ok
  <2>1. sess'[u].pc = "minted" /\ sess'[u].fence = m /\ sess'[u].grace = g
    BY <1>1, <1>4 DEF TypeOK, NoSession
  <2>2. row' = MintRow(row, u)
    BY <1>1, <1>4 DEF Transaction
  <2>3. /\ rel[u].fence < m /\ stray[u].fence < m /\ beat[u].held < m
        /\ beat[u].held <= m
    <3>1. /\ rel[u].fence \in Nat /\ stray[u].fence \in Nat /\ beat[u].held \in Nat
          /\ row.fence \in Nat
      BY DEF TypeOK, Releases, Strays, Beats, Rows
    <3>2. /\ rel[u].fence <= row.fence /\ stray[u].fence <= row.fence
          /\ beat[u].held <= row.fence
      BY <3>1 DEF FenceInv, RowIsAuthority, Fences
    <3> QED BY <3>1, <3>2
  <2> HIDE DEF m
  <2>4. OwnInv(u)'
    BY <1>2, <2>1, <2>3 DEF OwnInv, Fenced
  <2> QED BY <1>1, <2>1, <2>2, <2>4 DEF m
<1> QED BY <1>3, <1>4

\* Every step of a worker ends its fenced session, carries it on or mints one.
LEMMA WorkOwn ==
    ASSUME TypeOK, TypeOK', Timely, FenceInv, ReleaseInv, NEW u \in Workers,
           OwnInv(u), Work(u)
    PROVE  /\ OwnInv(u)'
           /\ sess'[u].pc \in Fenced /\ ~Mint(u) => Kept(u)
<1>1. CASE Ends(u)
  BY <1>1, EndsOwn
<1>2. CASE Runs(u)
  BY <1>2, RunsOwn
<1>3. CASE Idles(u)
  BY <1>3, IdlesOwn
<1>4. CASE BeatStart(u)
  BY <1>4, BeatStartOwn
<1>5. CASE BeatSkip(u) \/ BeatRedisReply(u)
  BY <1>5, BeatOwn
<1>6. CASE BeatEnd(u) \/ StrayTearsDown(u)
  BY <1>6, FencedOwn
<1>7. CASE AddLease(u)
  BY <1>7, AddOwn
<1>8. CASE SetFence(u)
  BY <1>8, SetOwn
<1>9. CASE Mint(u)
  BY <1>9, MintOwn
<1> QED BY <1>1, <1>2, <1>3, <1>4, <1>5, <1>6, <1>7, <1>8, <1>9
        DEF Work, Ends, Runs, Idles

\* The heartbeat takes up a fence only from a set-fence that was answered.
LEMMA HeldStep ==
    ASSUME TypeOK, NEW u \in Workers, Work(u)
    PROVE  \/ beat'[u].held \in {0, beat[u].held}
           \/ AddLease(u) /\ sess[u].pc = "fencing" /\ beat'[u].held = sess[u].fence
<1> DEFINE h == beat[u]
           g == [h EXCEPT !.leg = "none", !.left = 0, !.snap = 0,
                          !.renewed = "lost", !.pg = "ok"]
<1>1. h \in Beats /\ Forget(h).held = 0 /\ IdleBeat.held = 0
  BY IdleFences DEF TypeOK
<1>2. g \in Beats
  <2>1. h \in Beats
    BY <1>1
  <2> HIDE DEF h
  <2> QED BY <2>1 DEF Beats, Replies
<1>3. g.held = h.held /\ Forget(g).held = 0
  BY <1>1, <1>2, IdleFences DEF Beats
<1>4. CASE Scan(u) \/ PassOver(u) \/ Place(u) \/ Mint(u) \/ UndoPlace(u) \/ SetFence(u)
           \/ Register(u) \/ EpochReadFails(u) \/ BeginBuild(u) \/ FinishBuild(u)
           \/ Disconnect(u) \/ ReleaseRedis(u) \/ ReleasePg(u) \/ DrainRelease(u)
           \/ StrayOpens(u) \/ StrayEnds(u)
  BY <1>4 DEF Scan, PassOver, Place, Mint, UndoPlace, SetFence, Register,
              EpochReadFails, BeginBuild, FinishBuild, Disconnect, ReleaseRedis,
              ReleasePg, DrainRelease, StrayOpens, StrayEnds
<1>5. CASE AddLease(u)
  <2>1. PICK p : beat' = [beat EXCEPT ![u] = [h EXCEPT !.held = sess[u].fence,
                                                      !.since = 0, !.phase = p]]
    BY <1>5, Zenon DEF AddLease
  <2>2. [h EXCEPT !.held = sess[u].fence, !.since = 0, !.phase = p].held = sess[u].fence
    BY <1>1 DEF Beats
  <2>3. sess[u].pc = "fencing"
    BY <1>5 DEF AddLease
  <2> HIDE DEF h
  <2> QED BY <1>5, <2>1, <2>2, <2>3 DEF TypeOK
<1>6. CASE TeardownNoRelease(u) \/ TeardownWithRelease(u) \/ DrainEnd(u)
           \/ StrayTearsDown(u) \/ Crash(u)
  BY <1>1, <1>6 DEF TeardownNoRelease, TeardownWithRelease, DrainEnd, StrayTearsDown,
                    Crash, TypeOK
<1>7. CASE BeatStart(u) \/ BeatSkip(u)
  <2>1. CASE BeatStart(u)
    <3>1. PICK n, r : beat' = [beat EXCEPT ![u] = [h EXCEPT !.phase = 0, !.leg = "redis",
                         !.left = RedisTimeout, !.snap = n, !.renewed = r]]
      BY <2>1, Zenon DEF BeatStart
    <3>2. [h EXCEPT !.phase = 0, !.leg = "redis", !.left = RedisTimeout,
                    !.snap = n, !.renewed = r].held = h.held
      BY <1>1 DEF Beats
    <3> HIDE DEF h
    <3> QED BY <3>1, <3>2 DEF TypeOK, h
  <2>2. CASE BeatSkip(u)
    BY <1>1, <2>2 DEF BeatSkip, TypeOK, Beats
  <2> QED BY <1>7, <2>1, <2>2
<1>8. CASE BeatRedisReply(u)
  <2> DEFINE b == IF h.renewed = "yes" /\ h.held # 0 THEN 0 ELSE h.since
             p(t) == IF ~t.ok THEN "error"
                     ELSE IF OwnsRow(row, u, h.snap) THEN "ok" ELSE "conflict"
  <2>0. PICK t \in Transaction(row, RenewRow(row, u, h.snap)) :
          beat' = [beat EXCEPT ![u] = [h EXCEPT
                     !.leg = "pg", !.left = PgTimeout, !.since = b, !.pg = p(t)]]
    BY <1>8 DEF BeatRedisReply
  <2>1. beat' = [beat EXCEPT ![u] = [h EXCEPT
                   !.leg = "pg", !.left = PgTimeout, !.since = b, !.pg = p(t)]]
    BY <2>0
  <2> HIDE DEF b, p
  <2>2. [h EXCEPT !.leg = "pg", !.left = PgTimeout, !.since = b, !.pg = p(t)].held = h.held
    BY <1>1 DEF Beats
  <2> HIDE DEF h
  <2> QED BY <2>1, <2>2 DEF TypeOK, h
<1>9. CASE BeatEnd(u)
  <2>1. beat'[u] \in {g, Forget(g)}
    BY <1>9 DEF BeatEnd, TypeOK
  <2> HIDE DEF g
  <2> QED BY <1>3, <2>1
<1> QED BY <1>4, <1>5, <1>6, <1>7, <1>8, <1>9 DEF Work

\* drain and shed find no lease to release: the first leg has removed it.
DrainInv == \A w \in Workers : drain[w] => beat[w].held = 0

\* A drained worker takes up no lease before its release leg.
LEMMA DrainStep ==
    ASSUME TypeOK, TypeOK', ReleaseInv, DrainInv, NEW u \in Workers, Work(u)
    PROVE  DrainInv'
<1> SUFFICES ASSUME NEW w \in Workers, drain'[w] PROVE beat'[w].held = 0
  BY DEF DrainInv
<1>1. CASE drain[w]
  <2>1. beat[w].held = 0 /\ sess[w] = NoSession
    BY <1>1 DEF DrainInv, ReleaseInv
  <2>2. NoSession.pc = "idle"
    BY DEF NoSession
  <2> QED BY <2>1, <2>2, HeldStep, OthersKeep
<1>2. CASE ~drain[w]
  <2>1. w = u /\ DrainEnd(u)
    <3>1. CASE Scan(u) \/ PassOver(u) \/ Place(u) \/ Mint(u) \/ UndoPlace(u) \/ SetFence(u)
               \/ AddLease(u) \/ Register(u) \/ EpochReadFails(u) \/ BeginBuild(u)
               \/ FinishBuild(u) \/ Disconnect(u) \/ ReleaseRedis(u) \/ ReleasePg(u)
      BY <1>2, <3>1 DEF Scan, PassOver, Place, Mint, UndoPlace, SetFence, AddLease,
                        Register, EpochReadFails, BeginBuild, FinishBuild, Disconnect,
                        ReleaseRedis, ReleasePg
    <3>2. CASE DrainRelease(u) \/ StrayOpens(u) \/ StrayEnds(u) \/ StrayTearsDown(u)
               \/ TeardownNoRelease(u) \/ TeardownWithRelease(u) \/ Crash(u)
      BY <1>2, <3>2 DEF DrainRelease, StrayOpens, StrayEnds, StrayTearsDown,
                        TeardownNoRelease, TeardownWithRelease, Crash, TypeOK
    <3>3. CASE BeatStart(u) \/ BeatSkip(u) \/ BeatRedisReply(u) \/ BeatEnd(u)
      BY <1>2, <3>3 DEF BeatStart, BeatSkip, BeatRedisReply, BeatEnd
    <3>4. CASE DrainEnd(u)
      BY <1>2, <3>4 DEF DrainEnd, TypeOK
    <3> QED BY <3>1, <3>2, <3>3, <3>4 DEF Work
  <2> QED BY <2>1, IdleFences DEF DrainEnd, TypeOK
<1> QED BY <1>1, <1>2

\* The fences w got past the mint with: no session of w used another's, and
\* none that set-fence refused comes to be used.
Uses(w, f) ==
    \/ f \in {rel[w].fence, stray[w].fence}
    \/ /\ f = sess[w].fence
       /\ sess[w].pc \in Keyed \/ (sess[w].pc = "minted" /\ HasKey(w))

\* A fence comes into use by the mint alone.
LEMMA UsesStep ==
    ASSUME TypeOK, TypeOK', Timely, FenceInv, ReleaseInv, DrainInv, NEW u \in Workers,
           OwnInv(u), Work(u), ~Mint(u), NEW f \in Nat, f # 0, Uses(u, f)'
    PROVE  Uses(u, f)
<1>1. NoRelease.fence = 0 /\ NoStray.fence = 0 /\ NoSession.fence = 0
  BY IdleFences
<1>2. Registered \subseteq Keyed
  BY DEF Keyed
<1>3. rel'[u].fence = rel[u].fence \/ Uses(u, rel'[u].fence) \/ rel'[u].fence = 0
  <2>1. CASE TeardownWithRelease(u)
    BY <1>2, <2>1 DEF TeardownWithRelease, Uses, TypeOK
  <2>2. CASE DrainRelease(u)
    BY <2>2 DEF DrainRelease, DrainInv
  <2>3. CASE StrayTearsDown(u)
    BY <2>3 DEF StrayTearsDown, Uses, TypeOK
  <2>4. CASE ReleaseRedis(u) \/ ReleasePg(u) \/ Crash(u)
    BY <1>1, <2>4 DEF ReleaseRedis, ReleasePg, Crash, TypeOK, Releases
  <2>5. CASE Scan(u) \/ PassOver(u) \/ Place(u) \/ UndoPlace(u) \/ SetFence(u)
             \/ AddLease(u) \/ Register(u) \/ EpochReadFails(u) \/ BeginBuild(u)
             \/ FinishBuild(u) \/ Disconnect(u)
    BY <2>5 DEF Scan, PassOver, Place, UndoPlace, SetFence, AddLease, Register,
                EpochReadFails, BeginBuild, FinishBuild, Disconnect
  <2>6. CASE TeardownNoRelease(u) \/ DrainEnd(u) \/ StrayOpens(u) \/ StrayEnds(u)
             \/ BeatStart(u) \/ BeatSkip(u) \/ BeatRedisReply(u) \/ BeatEnd(u)
    BY <2>6 DEF TeardownNoRelease, DrainEnd, StrayOpens, StrayEnds, BeatStart, BeatSkip,
                BeatRedisReply, BeatEnd
  <2> QED BY <2>1, <2>2, <2>3, <2>4, <2>5, <2>6 DEF Work
<1>4. stray'[u].fence = stray[u].fence \/ Uses(u, stray'[u].fence) \/ stray'[u].fence = 0
  <2>1. EndSession(u) => stray'[u] = stray[u]
                      \/ (sess[u].pc \in Registered /\ stray'[u].fence = sess[u].fence)
    BY DEF EndSession, TypeOK, Registered
  <2>2. CASE TeardownWithRelease(u) \/ TeardownNoRelease(u) \/ DrainEnd(u) \/ BeatEnd(u)
    <3>1. EndSession(u) \/ stray' = stray
      BY <2>2 DEF TeardownWithRelease, TeardownNoRelease, DrainEnd, BeatEnd
    <3> QED BY <1>2, <2>1, <3>1 DEF Uses
  <2>3. CASE StrayTearsDown(u)
    <3>1. Orphaned(sess[u]).fence \in {0, sess[u].fence}
      BY <1>1 DEF Orphaned
    <3>2. stray'[u].fence = 0 \/ (sess[u].pc \in Registered /\ stray'[u] = Orphaned(sess[u]))
      BY <1>1, <2>3 DEF StrayTearsDown, TypeOK
    <3> QED BY <1>2, <3>1, <3>2 DEF Uses
  <2>4. CASE StrayOpens(u) \/ StrayEnds(u) \/ Crash(u)
    BY <1>1, <2>4 DEF StrayOpens, StrayEnds, Crash, TypeOK, Strays
  <2>5. CASE Scan(u) \/ PassOver(u) \/ Place(u) \/ UndoPlace(u) \/ SetFence(u)
             \/ AddLease(u) \/ Register(u) \/ EpochReadFails(u) \/ BeginBuild(u)
             \/ FinishBuild(u) \/ Disconnect(u) \/ ReleaseRedis(u) \/ ReleasePg(u)
             \/ DrainRelease(u) \/ BeatStart(u) \/ BeatSkip(u) \/ BeatRedisReply(u)
    BY <2>5 DEF Scan, PassOver, Place, UndoPlace, SetFence, AddLease, Register,
                EpochReadFails, BeginBuild, FinishBuild, Disconnect, ReleaseRedis,
                ReleasePg, DrainRelease, BeatStart, BeatSkip, BeatRedisReply
  <2> QED BY <2>2, <2>3, <2>4, <2>5 DEF Work
<1>5. CASE f \in {rel'[u].fence, stray'[u].fence}
  BY <1>3, <1>4, <1>5 DEF Uses
<1>6. CASE f = sess'[u].fence /\ (sess'[u].pc \in Keyed \/ (sess'[u].pc = "minted" /\ HasKey(u)'))
  <2>1. sess'[u].pc \in Fenced
    BY <1>6 DEF Keyed, Fenced
  <2>2. Kept(u)
    BY <2>1, WorkOwn
  <2>3. sess[u].pc \in Keyed \/ sess[u].pc = "minted"
    BY <2>2 DEF Kept, Fenced, Keyed
  <2> QED BY <1>6, <2>2, <2>3 DEF Kept, Uses
<1> QED BY <1>5, <1>6 DEF Uses

-----------------------------------------------------------------------------
(* Key, grace and life. *)

\* The types the arithmetic below needs.
LEMMA Lengths ==
    ASSUME Timely, TypeOK, OwnersInv, NEW w \in Workers
    PROVE  /\ Life(w) \in Nat /\ key.ttl \in 0 .. LeaseTtl /\ sess[w].fence \in Nat
           /\ sess[w].grace \in Nat /\ beat[w].held \in Nat /\ row.fence \in Nat
           /\ row.seen \in Nat /\ key.ttl \in Nat
           /\ LeaseTtl \in Nat /\ TakeoverGrace \in Nat
<1>1. Life(w) \in Nat
  BY LifeType DEF TypeOK, OwnersInv, OwnInv, Life
<1> QED BY <1>1, StoreAssumption, TimingAssumption
        DEF TypeOK, Keys, Sessions, Beats, Rows

\* A step of u leaves each lease within the life of its key and the grace.
LEMMA WorkOutlived ==
    ASSUME TypeOK, TypeOK', Timely, FenceInv, ReleaseInv, OwnersInv, OwnersInv', TimeInv,
           NEW u \in Workers, Work(u), NEW v \in Workers
    PROVE  Outlived(v)'
<1>1. Outlived(v)
  BY DEF TimeInv
<1>2. CASE v # u
  <2>1. sess'[v] = sess[v]
    BY <1>2, OthersKeep
  <2> QED BY <1>1, <1>2, <2>1, OthersStand DEF Outlived
<1>3. CASE v = u
  <2> SUFFICES ASSUME Standing(u)', sess'[u].pc \in Keyed
               PROVE  Life(u)' < (IF HasKey(u)' THEN key'.ttl ELSE 0) + TakeoverGrace
    BY <1>3 DEF Outlived
  <2>1. OwnInv(u)
    BY DEF OwnersInv
  <2>2. sess'[u].pc \in Fenced /\ sess'[u].pc \notin {"minted", "undoing"}
    BY DEF Fenced, Keyed, Registered
  <2>3. ~Mint(u)
    BY <2>1, <2>2, MintOwn
  <2>4. Kept(u)
    BY <2>1, <2>2, <2>3, WorkOwn
  <2>5. Life(u) \in Nat /\ Life(u)' \in Nat /\ key.ttl \in Nat /\ key'.ttl \in Nat
        /\ TakeoverGrace \in Nat
    BY Lengths, LifeType DEF TypeOK, Keys, OwnersInv, OwnInv, Life
  <2>6. CASE /\ sess[u].pc \in Keyed /\ Life(u)' <= Life(u)
             /\ HasKey(u) => HasKey(u)' /\ key'.ttl >= key.ttl
    <3>1. Standing(u)
      BY <2>4 DEF Kept
    <3> QED BY <1>1, <1>3, <2>5, <2>6, <3>1 DEF Outlived
  <2>7. CASE HasKey(u)' /\ key'.ttl = LeaseTtl /\ Life(u)' <= RedisTimeout + Full
    BY <2>5, <2>7, FullBound, StoreAssumption, TimingAssumption
  <2> QED BY <2>4, <2>6, <2>7 DEF Kept
<1> QED BY <1>2, <1>3

\* A step of u keeps every successor behind its predecessors, provided that a
\* mint does not skip the grace while an earlier session stands.
LEMMA WorkSucceeds ==
    ASSUME TypeOK, TypeOK', Timely, FenceInv, ReleaseInv, OwnersInv, OwnersInv', TimeInv,
           NEW u \in Workers, Work(u),
           Mint(u) => \A v \in Workers \ {u} : Standing(v) => ~row.released,
           NEW v \in Workers, NEW w \in Workers, v # w
    PROVE  Succeeds(w, v)'
<1>1. Succeeds(w, v)
  BY DEF TimeInv
<1>2. OwnInv(u) /\ OwnInv(v) /\ OwnInv(w)
  BY DEF OwnersInv
<1>3. CASE v # u /\ w # u
  <2>1. sess'[v] = sess[v] /\ sess'[w] = sess[w] /\ beat'[w] = beat[w]
    BY <1>3, OthersKeep
  <2> QED BY <1>1, <1>3, <2>1, OthersStand DEF Succeeds
<1>4. CASE v = u
  <2> SUFFICES ASSUME Standing(v)' PROVE Succeeds(w, v)'
    BY DEF Succeeds
  <2>1. sess'[w] = sess[w] /\ beat'[w] = beat[w] /\ Work(v)
    BY <1>4, OthersKeep
  <2>2. sess'[v].pc \in Fenced
    BY DEF Standing, Fenced, Keyed
  <2>3. CASE Mint(v)
    <3>1. sess'[v].fence = row.fence + 1
      BY <1>2, <2>2, <2>3, MintOwn DEF Fenced, Registered
    <3>2. sess[w].fence <= row.fence /\ beat[w].held <= row.fence
      BY Lengths DEF FenceInv, RowIsAuthority, Fences
    <3> QED BY <2>1, <3>1, <3>2, Lengths DEF Succeeds
  <2>4. CASE ~Mint(v)
    <3>1. Kept(v)
      BY <1>2, <2>1, <2>2, <2>4, WorkOwn
    <3>2. Standing(v) /\ sess'[v].fence = sess[v].fence /\ (HasKey(v)' => HasKey(v))
      BY <3>1 DEF Kept
    <3>3. sess[v].pc \in Keyed \/ HasKey(v)
      BY <3>2 DEF Standing, Keyed, Registered
    <3>4. ~HasKey(v) => Life(v)' <= Life(v)
      <4>1. sess'[v].pc \in Keyed \/ HasKey(v)'
        BY DEF Standing, Keyed, Registered
      <4> QED BY <3>1, <4>1 DEF Kept
    <3>5. Life(v)' \in Nat /\ Life(v) \in Nat /\ sess[w].grace \in Nat
      BY Lengths, LifeType DEF TypeOK, OwnersInv, OwnInv, Life
    <3> QED BY <1>1, <2>1, <3>2, <3>4, <3>5 DEF Succeeds
  <2> QED BY <2>3, <2>4
<1>5. CASE w = u
  <2> SUFFICES ASSUME Standing(v)' PROVE Succeeds(w, v)'
    BY DEF Succeeds
  <2>1. /\ sess'[v] = sess[v] /\ Life(v)' = Life(v) /\ (HasKey(v)' <=> HasKey(v))
        /\ Standing(v) /\ Work(w)
    BY <1>5, OthersKeep, OthersStand
  <2>2. beat'[w].held > sess[v].fence => ~HasKey(v)
    <3>1. 0 <= sess[v].fence /\ ~(0 > sess[v].fence)
      BY Lengths
    <3>2. "fencing" \in Keyed
      BY DEF Keyed
    <3> QED BY <1>1, <2>1, <3>1, <3>2, HeldStep DEF Succeeds
  <2>3. CASE sess'[w].pc \notin Fenced
    BY <2>1, <2>2, <2>3 DEF Succeeds, Fenced, Keyed
  <2>4. CASE Mint(w) /\ sess'[w].pc \in Fenced
    <3>1. sess'[w].pc = "minted" /\ sess'[w].grace \in Graces(row)
      BY <1>2, <2>4, MintOwn DEF Fenced, Registered
    <3>2. ~row.released
      BY <1>5, <2>1, <2>4
    <3>3. sess'[w].grace = TakeoverGrace /\ sess'[w].pc \notin Keyed
      BY <3>1, <3>2 DEF Graces, Keyed, Registered
    <3> QED BY <2>1, <2>2, <3>3 DEF Succeeds
  <2>5. CASE ~Mint(w) /\ sess'[w].pc \in Fenced
    <3>1. Kept(w)
      BY <1>2, <2>1, <2>5, WorkOwn
    <3>2. /\ sess'[w].fence = sess[w].fence /\ sess'[w].grace = sess[w].grace
          /\ sess'[w].pc = "minted" => sess[w].pc = "minted"
      BY <3>1 DEF Kept
    <3>3. CASE sess'[w].pc \notin Keyed \/ sess[w].pc \in Keyed
      BY <1>1, <2>1, <2>2, <3>2, <3>3 DEF Succeeds
    <3>4. CASE sess'[w].pc \in Keyed /\ sess[w].pc \notin Keyed
      <4>1. sess[w].pc = "minted" /\ HasKey(w)
        BY <3>1, <3>4 DEF Kept, Fenced, Keyed
      <4>2. ~HasKey(v)
        BY <4>1 DEF HasKey, Carries
      <4>3. sess[v].pc \in Keyed
        BY <2>1, <4>2 DEF Standing, Keyed, Registered
      <4>4. Life(v) < TakeoverGrace
        BY <2>1, <4>2, <4>3, Lengths DEF TimeInv, Outlived
      <4>5. sess'[w].pc # "minted"
        BY <3>4 DEF Keyed, Registered
      <4> QED BY <1>1, <2>1, <2>2, <3>2, <4>1, <4>2, <4>4, <4>5 DEF Succeeds
    <3> QED BY <3>3, <3>4
  <2> QED BY <2>3, <2>4, <2>5
<1> QED BY <1>3, <1>4, <1>5

\* What one unit of time does to a worker: a lease's life is one shorter.
LEMMA TickStands ==
    ASSUME TypeOK, TypeOK', Timely, OwnersInv, Tick, NEW v \in Workers
    PROVE  /\ sess'[v].pc = sess[v].pc /\ sess'[v].fence = sess[v].fence
           /\ beat'[v].held = beat[v].held /\ InTime(beat'[v])
           /\ sess[v].pc # "parked" => sess'[v].grace = sess[v].grace
           /\ sess'[v].grace = Less(sess[v].grace) \/ sess'[v].grace = sess[v].grace
           /\ HasKey(v)' => HasKey(v) /\ key'.ttl = key.ttl - 1
           /\ HasKey(v) /\ ~HasKey(v)' => key.ttl <= 1
           /\ Standing(v)' => Standing(v)
           /\ Standing(v) /\ sess[v].pc \in Keyed => Life(v)' <= Life(v) - 1
<1> DEFINE s == sess[v]
           h == beat[v]
<1>1. /\ s \in Sessions /\ h \in Beats /\ key \in Keys /\ InTime(h)
      /\ ~Overdue(v) /\ key' = AgeKey(key)
      /\ sess'[v] = AgeSession(s) /\ beat'[v] = AgeBeat(v)
  BY DEF Tick, TypeOK, OwnersInv, OwnInv
<1>2. /\ AgeSession(s).pc = s.pc /\ AgeSession(s).fence = s.fence
      /\ AgeSession(s).wait = Less(s.wait)
      /\ AgeSession(s).grace = IF s.pc = "parked" THEN Less(s.grace) ELSE s.grace
  BY <1>1 DEF AgeSession, Sessions
<1>3. /\ AgeBeat(v).held = h.held /\ AgeBeat(v).leg = h.leg
      /\ AgeBeat(v).renewed = h.renewed /\ AgeBeat(v).left = Less(h.left)
      /\ AgeBeat(v).phase = (IF Timed(v) THEN h.phase + 1 ELSE 0)
      /\ AgeBeat(v).since = IF h.held # 0 /\ h.since < Watchdog THEN h.since + 1 ELSE h.since
  BY <1>1 DEF AgeBeat, Beats
<1> HIDE DEF s, h
<1>4. h.left \in Nat /\ s.wait \in Nat /\ h.since \in 0 .. Watchdog /\ h.phase \in 0 .. Heartbeat
      /\ Watchdog \in Nat /\ Heartbeat \in Nat /\ RedisTimeout \in Nat /\ PgTimeout \in Nat
      /\ Full \in Nat /\ Heartbeat + RedisTimeout + PgTimeout <= Full /\ s.fence \in Nat
  BY <1>1, TimingAssumption, FullBound DEF Sessions, Beats
<1>5. InTime(beat'[v])
  BY <1>1, <1>3, <1>4 DEF InTime, Less
<1>6. /\ HasKey(v)' => HasKey(v) /\ key'.ttl = key.ttl - 1
      /\ HasKey(v) /\ ~HasKey(v)' => key.ttl <= 1
  <2>1. CASE key.ttl <= 1
    <3>1. key'.owner # v
      BY <1>1, <2>1, StoreAssumption DEF AgeKey, NoKey
    <3> QED BY <2>1, <3>1 DEF HasKey, Carries
  <2>2. CASE ~(key.ttl <= 1)
    <3>1. AgeKey(key) = [key EXCEPT !.ttl = @ - 1]
      BY <2>2 DEF AgeKey
    <3>2. key'.owner = key.owner /\ key'.fence = key.fence /\ key'.ttl = key.ttl - 1
      BY <1>1, <3>1 DEF Keys
    <3> QED BY <1>1, <1>2, <3>2 DEF HasKey, Carries, s
  <2> QED BY <2>1, <2>2
<1>7. Standing(v)' => Standing(v)
  BY <1>1, <1>2, <1>3, <1>6 DEF Standing, s, h
<1>8. ASSUME Standing(v), sess[v].pc \in Keyed
      PROVE  Life(v)' <= Life(v) - 1
  <2>1. Life(v)' = LifeOf(sess'[v], beat'[v]) /\ Life(v) = LifeOf(s, h)
    BY DEF Life, s, h
  <2>2. CASE s.pc = "fencing"
    <3>1. s.wait # 0
      BY <1>1, <2>2 DEF Overdue, s
    <3> QED BY <1>1, <1>2, <1>4, <2>1, <2>2, <3>1 DEF LifeOf, Less
  <2>3. CASE s.pc # "fencing"
    <3>1. h.held # 0
      <4>1. h.held = s.fence /\ s.pc \in Fenced
        BY <1>8, <2>3 DEF Standing, Keyed, Registered, Fenced, s, h
      <4>2. s.fence > 0
        <5>1. rel[v].fence \in Nat /\ rel[v].fence < s.fence
          BY <4>1 DEF OwnersInv, OwnInv, TypeOK, Releases, s
        <5> QED BY <1>4, <5>1
      <4> QED BY <1>4, <4>1, <4>2
    <3>2. /\ h.leg = "none" => h.phase # Heartbeat
          /\ h.leg # "none" => h.left # 0
          /\ Timed(v)
      BY <1>1, <3>1 DEF Overdue, Fired, Timed, h
    <3>3. h.leg \in {"none", "redis", "pg"}
      BY <1>1 DEF Beats
    <3>4. ToEnd(beat'[v]) = ToEnd(h) - 1 /\ ToEnd(h) \in 0 .. (Heartbeat + RedisTimeout + PgTimeout)
      <4>1. ToEnd(h) \in 0 .. (Heartbeat + RedisTimeout + PgTimeout)
        BY <1>1, ToEndBound
      <4> QED BY <1>1, <1>3, <1>4, <3>2, <3>3, <4>1 DEF ToEnd, Less
    <3>5. sess'[v].pc # "fencing" /\ beat'[v].leg = h.leg /\ beat'[v].renewed = h.renewed
          /\ beat'[v].since = (IF h.since < Watchdog THEN h.since + 1 ELSE h.since)
          /\ (h.leg = "redis" => beat'[v].left = h.left - 1)
      BY <1>1, <1>2, <1>3, <1>4, <2>3, <3>1, <3>2 DEF Less
    <3>6. CASE h.leg = "redis" /\ h.renewed = "yes"
      BY <1>4, <2>1, <2>3, <3>5, <3>6 DEF LifeOf
    <3>7. CASE ~(h.leg = "redis" /\ h.renewed = "yes") /\ h.since + 1 < Watchdog
      BY <1>4, <2>1, <2>3, <3>5, <3>7 DEF LifeOf
    <3>8. CASE ~(h.leg = "redis" /\ h.renewed = "yes") /\ h.since = Watchdog
      BY <1>4, <2>1, <2>3, <3>4, <3>5, <3>8 DEF LifeOf
    <3>9. CASE ~(h.leg = "redis" /\ h.renewed = "yes") /\ h.since + 1 = Watchdog
      BY <1>4, <2>1, <2>3, <3>4, <3>5, <3>9 DEF LifeOf, Full
    <3> QED BY <1>4, <3>6, <3>7, <3>8, <3>9
  <2> QED BY <2>2, <2>3
<1>9. /\ s.pc # "parked" => sess'[v].grace = s.grace
      /\ sess'[v].grace = Less(s.grace) \/ sess'[v].grace = s.grace
  BY <1>1, <1>2
<1> QED BY <1>1, <1>2, <1>3, <1>5, <1>6, <1>7, <1>8, <1>9 DEF s, h

\* A unit of time passes for key, grace and life alike.
LEMMA TickTime ==
    ASSUME TypeOK, TypeOK', Timely, OwnersInv, OwnersInv', TimeInv, Tick
    PROVE  TimeInv'
<1>1. ASSUME NEW v \in Workers PROVE Outlived(v)'
  <2> SUFFICES ASSUME Standing(v)', sess'[v].pc \in Keyed
               PROVE  Life(v)' < (IF HasKey(v)' THEN key'.ttl ELSE 0) + TakeoverGrace
    BY DEF Outlived
  <2>1. Standing(v) /\ sess[v].pc \in Keyed /\ Life(v)' <= Life(v) - 1
    BY TickStands
  <2>2. Life(v) < (IF HasKey(v) THEN key.ttl ELSE 0) + TakeoverGrace
    BY <2>1 DEF TimeInv, Outlived
  <2>3. /\ HasKey(v)' => HasKey(v) /\ key'.ttl = key.ttl - 1
        /\ HasKey(v) /\ ~HasKey(v)' => key.ttl <= 1
    BY TickStands
  <2>4. Life(v) \in Nat /\ Life(v)' \in Nat /\ key.ttl \in Nat /\ TakeoverGrace \in Nat
    BY Lengths, LifeType DEF TypeOK, OwnersInv, OwnInv, Life
  <2> QED BY <2>1, <2>2, <2>3, <2>4
<1>2. ASSUME NEW v \in Workers, NEW w \in Workers, v # w PROVE Succeeds(w, v)'
  <2> SUFFICES ASSUME Standing(v)' PROVE Succeeds(w, v)'
    BY DEF Succeeds
  <2>1. /\ Standing(v) /\ (HasKey(v)' => HasKey(v))
        /\ sess'[v].fence = sess[v].fence /\ sess'[w].fence = sess[w].fence
        /\ sess'[w].pc = sess[w].pc /\ beat'[w].held = beat[w].held
        /\ sess[w].pc # "parked" => sess'[w].grace = sess[w].grace
        /\ sess'[w].grace = Less(sess[w].grace) \/ sess'[w].grace = sess[w].grace
    BY TickStands
  <2>2. Succeeds(w, v)
    BY <1>2 DEF TimeInv
  <2>3. ~HasKey(v) => Life(v)' <= Life(v) - 1
    <3>1. ~HasKey(v) => sess[v].pc \in Keyed
      BY <2>1 DEF Standing, Keyed, Registered
    <3> QED BY <2>1, <3>1, TickStands
  <2>4. Life(v)' \in Nat /\ Life(v) \in Nat /\ sess[w].grace \in Nat
    BY Lengths, LifeType DEF TypeOK, OwnersInv, OwnInv, Life
  <2>5. Less(sess[w].grace) >= sess[w].grace - 1
    BY <2>4 DEF Less
  <2>6. /\ sess'[w].grace \in Nat /\ sess'[w].grace >= sess[w].grace - 1
        /\ sess[w].pc = "minted" => sess'[w].grace = sess[w].grace
    BY <2>1, <2>4, <2>5 DEF TypeOK, Sessions
  <2>7. sess[w].fence > sess[v].fence /\ sess[w].pc \in Keyed =>
          ~HasKey(v) /\ Life(v)' < sess'[w].grace
    <3>1. sess[w].fence > sess[v].fence /\ sess[w].pc \in Keyed =>
            ~HasKey(v) /\ Life(v) < sess[w].grace
      BY <2>1, <2>2 DEF Succeeds
    <3> QED BY <2>3, <2>4, <2>6, <3>1
  <2> QED BY <2>1, <2>2, <2>6, <2>7 DEF Succeeds
<1> QED BY <1>1, <1>2 DEF TimeInv

\* A unit of time keeps what holds of the workers themselves.
LEMMA TickOwners ==
    ASSUME TypeOK, TypeOK', Timely, OwnersInv, Tick
    PROVE  OwnersInv'
<1> SUFFICES ASSUME NEW v \in Workers PROVE OwnInv(v)'
  BY DEF OwnersInv
<1>1. /\ sess'[v].pc = sess[v].pc /\ sess'[v].fence = sess[v].fence
      /\ beat'[v].held = beat[v].held /\ InTime(beat'[v])
      /\ sess[v].pc # "parked" => sess'[v].grace = sess[v].grace
      /\ HasKey(v) /\ ~HasKey(v)' => key.ttl <= 1
      /\ HasKey(v)' => HasKey(v) /\ key'.ttl = key.ttl - 1
  BY TickStands
<1>2. UNCHANGED <<rel, stray>> /\ OwnInv(v) /\ ~Overdue(v)
  BY DEF Tick, OwnersInv
<1>3. CASE sess[v].pc # "fencing"
  BY <1>1, <1>2, <1>3 DEF OwnInv
<1>4. CASE sess[v].pc = "fencing"
  <2>1. /\ sess[v].wait \in Nat /\ key.ttl \in Nat /\ beat[v].left \in Nat
        /\ RedisTimeout \in Nat /\ LeaseTtl \in Nat /\ RedisTimeout < LeaseTtl
    BY StoreAssumption, TimingAssumption DEF TypeOK, Sessions, Keys, Beats, Timely
  <2>2. /\ sess[v].wait # 0
        /\ beat[v].leg # "none" => beat[v].left # 0
    BY <1>2, <1>4 DEF Overdue
  <2>3. /\ sess'[v].wait = sess[v].wait - 1
        /\ beat'[v].leg = beat[v].leg /\ beat'[v].renewed = beat[v].renewed
        /\ beat[v].leg # "none" => beat'[v].left = beat[v].left - 1
    <3>1. sess'[v] = AgeSession(sess[v]) /\ beat'[v] = AgeBeat(v)
      BY DEF Tick
    <3>2. /\ AgeSession(sess[v]).wait = Less(sess[v].wait)
          /\ AgeBeat(v).leg = beat[v].leg /\ AgeBeat(v).renewed = beat[v].renewed
          /\ AgeBeat(v).left = Less(beat[v].left)
      BY DEF AgeSession, AgeBeat, TypeOK, Sessions, Beats
    <3> QED BY <2>1, <2>2, <3>1, <3>2 DEF Less
  <2>4. /\ HasKey(v) /\ key.ttl + RedisTimeout >= LeaseTtl + sess[v].wait
        /\ beat[v].leg = "redis" /\ beat[v].renewed = "yes" => beat[v].left <= sess[v].wait
    BY <1>2, <1>4 DEF OwnInv
  <2>5. HasKey(v)' /\ key'.ttl = key.ttl - 1
    BY <1>1, <2>1, <2>2, <2>4
  <2>6. /\ key'.ttl + RedisTimeout >= LeaseTtl + sess'[v].wait
        /\ beat'[v].leg = "redis" /\ beat'[v].renewed = "yes" => beat'[v].left <= sess'[v].wait
    BY <2>1, <2>2, <2>3, <2>4, <2>5
  <2> QED BY <1>1, <1>2, <1>4, <2>5, <2>6 DEF OwnInv
<1> QED BY <1>3, <1>4

\* A step of one worker keeps what holds of every worker.
LEMMA WorkOwners ==
    ASSUME TypeOK, TypeOK', Timely, FenceInv, ReleaseInv, OwnersInv,
           NEW u \in Workers, Work(u)
    PROVE  OwnersInv'
<1> SUFFICES ASSUME NEW v \in Workers PROVE OwnInv(v)'
  BY DEF OwnersInv
<1>1. OwnInv(v)
  BY DEF OwnersInv
<1>2. CASE v = u
  BY <1>1, <1>2, WorkOwn
<1>3. CASE v # u
  <2>1. /\ sess'[v] = sess[v] /\ beat'[v] = beat[v]
        /\ rel'[v] = rel[v] /\ stray'[v] = stray[v]
        /\ HasKey(v) => HasKey(v)' /\ key' = key
    BY <1>3, OthersKeep, OthersStand
  <2> QED BY <1>1, <2>1 DEF OwnInv
<1> QED BY <1>2, <1>3

-----------------------------------------------------------------------------
(* The grace that is skipped.  Only a released row allows it.  With two        *)
(* workers the one that skips it has released the lease itself: it minted that *)
(* after the other's key was gone, and it found the instance again only when   *)
(* the row had been silent for StaleAge.                                       *)

\* The row is past v's session, by a mint whose fence came into use.
Taken(v) ==
    /\ row.fence > sess[v].fence
    /\ row.released \/ \E w \in Workers \ {v} : Uses(w, row.fence)

RescanInv ==
    \A v \in Workers : Standing(v) /\ Taken(v) =>
      /\ ~HasKey(v)
      /\ Life(v) + row.seen < TakeoverGrace
      /\ \A w \in Workers \ {v} : sess[w].pc \notin {"found", "placed"}

TwoWorkers == \E a, b \in Workers : Workers = {a, b}

\* A standing session is fenced, and no further than the row.
LEMMA StandingFenced ==
    ASSUME TypeOK, FenceInv, ReleaseInv, NEW v \in Workers, Standing(v)
    PROVE  /\ sess[v].pc \in Fenced /\ sess[v].fence # 0
           /\ sess[v].fence <= row.fence
<1>1. sess[v].pc \in Fenced
  BY DEF Standing, Fenced, Keyed
<1>2. sess[v].fence # 0
  BY <1>1 DEF ReleaseInv
<1>3. sess[v].fence \in Fences(v)
  BY <1>2 DEF Fences
<1> QED BY <1>1, <1>2, <1>3 DEF FenceInv, RowIsAuthority

\* Nobody mints with the grace skipped while an earlier session stands.
LEMMA MintWaits ==
    ASSUME TypeOK, FenceInv, ReleaseInv, RescanInv, NEW u \in Workers, Mint(u),
           NEW v \in Workers \ {u}, Standing(v)
    PROVE  ~row.released
<1> SUFFICES ASSUME row.released PROVE FALSE
  OBVIOUS
<1>1. sess[v].fence # row.fence
  BY DEF ReleaseInv
<1>2. sess[v].fence < row.fence
  <2>1. sess[v].fence \in Nat /\ row.fence \in Nat /\ v \in Workers
    BY DEF TypeOK, Sessions, Rows
  <2>2. sess[v].fence <= row.fence
    BY <2>1, StandingFenced
  <2> QED BY <1>1, <2>1, <2>2
<1>3. Taken(v)
  BY <1>2 DEF Taken
<1>4. sess[u].pc = "placed"
  BY DEF Mint
<1> QED BY <1>3, <1>4 DEF RescanInv

\* Only a mint moves the row's fence and only a renewal touches lease_seen_at.
LEMMA RowStep ==
    ASSUME TypeOK, TypeOK', NEW u \in Workers, Work(u), ~Mint(u)
    PROVE  /\ row'.fence = row.fence /\ row'.seen <= row.seen
           /\ row'.released => row.released
                \/ (rel[u].leg # "none" /\ rel[u].fence = row.fence)
<1>1. row \in Rows /\ row'.seen \in Nat /\ row.seen \in Nat
  BY StoreAssumption DEF TypeOK, Rows
<1>2. CASE BeatRedisReply(u)
  <2>1. PICK t \in Transaction(row, RenewRow(row, u, beat[u].snap)) : row' = t.row
    BY <1>2 DEF BeatRedisReply
  <2>2. LET r == RenewRow(row, u, beat[u].snap)
        IN r.fence = row.fence /\ r.seen \in {0, row.seen} /\ r.released = row.released
    BY <1>1 DEF RenewRow, Rows
  <2> QED BY <1>1, <2>1, <2>2 DEF Transaction
<1>3. CASE ReleasePg(u)
  <2>1. PICK t \in Transaction(row, ReleaseRow(row, u, rel[u].fence)) : row' = t.row
    BY <1>3 DEF ReleasePg
  <2>2. LET r == ReleaseRow(row, u, rel[u].fence)
        IN /\ r.fence = row.fence /\ r.seen = row.seen
           /\ r.released => row.released \/ rel[u].fence = row.fence
    BY <1>1 DEF ReleaseRow, OwnsRow, Rows
  <2> QED BY <1>1, <1>3, <2>1, <2>2 DEF Transaction, ReleasePg
<1>4. CASE Scan(u) \/ PassOver(u) \/ Place(u) \/ UndoPlace(u) \/ SetFence(u)
           \/ AddLease(u) \/ Register(u) \/ EpochReadFails(u) \/ BeginBuild(u)
           \/ FinishBuild(u) \/ Disconnect(u) \/ ReleaseRedis(u)
  <2>1. row' = row
    BY <1>4 DEF Scan, PassOver, Place, UndoPlace, SetFence, AddLease, Register,
                EpochReadFails, BeginBuild, FinishBuild, Disconnect, ReleaseRedis
  <2> QED BY <1>1, <2>1
<1>5. CASE TeardownNoRelease(u) \/ TeardownWithRelease(u) \/ DrainEnd(u)
           \/ DrainRelease(u) \/ StrayOpens(u) \/ StrayEnds(u) \/ StrayTearsDown(u)
           \/ Crash(u) \/ BeatStart(u) \/ BeatSkip(u) \/ BeatEnd(u)
  <2>1. row' = row
    BY <1>5 DEF TeardownNoRelease, TeardownWithRelease, DrainEnd, DrainRelease,
                StrayOpens, StrayEnds, StrayTearsDown, Crash, BeatStart, BeatSkip,
                BeatEnd
  <2> QED BY <1>1, <2>1
<1> QED BY <1>2, <1>3, <1>4, <1>5 DEF Work

\* Discovery finds an instance only when its row has been silent for StaleAge.
LEMMA FindStep ==
    ASSUME TypeOK, NEW u \in Workers, Work(u), sess'[u].pc \in {"found", "placed"}
    PROVE  sess[u].pc \in {"found", "placed"} \/ Discoverable(row)
<1>1. NoSession.pc = "idle"
  BY DEF NoSession
<1>2. CASE Scan(u) \/ Place(u)
  BY <1>2 DEF Scan, Place
<1>3. CASE PassOver(u) \/ UndoPlace(u) \/ EpochReadFails(u) \/ TeardownNoRelease(u)
           \/ TeardownWithRelease(u) \/ DrainEnd(u) \/ Crash(u)
  BY <1>1, <1>3 DEF PassOver, UndoPlace, EpochReadFails, TeardownNoRelease,
                    TeardownWithRelease, DrainEnd, Crash, EndSession, TypeOK
<1>4. CASE Mint(u)
  <2>1. PICK t, g : sess' = [sess EXCEPT ![u] =
                      IF t.ok THEN [NoSession EXCEPT !.pc = "minted",
                                      !.fence = row.fence + 1, !.grace = g]
                              ELSE [NoSession EXCEPT !.pc = "undoing"]]
    BY <1>4, Zenon DEF Mint
  <2>2. sess'[u].pc \in {"minted", "undoing"}
    BY <2>1 DEF TypeOK, NoSession
  <2> QED BY <2>2
<1>5. CASE SetFence(u)
  <2>1. sess'[u] = NoSession \/ sess'[u] = [sess[u] EXCEPT !.pc = "fencing", !.wait = RedisTimeout]
    BY <1>5 DEF SetFence, TypeOK
  <2> QED BY <1>1, <2>1 DEF TypeOK, Sessions
<1>6. CASE AddLease(u) \/ Register(u) \/ BeginBuild(u) \/ FinishBuild(u) \/ Disconnect(u)
  <2>1. CASE AddLease(u)
    <3>1. sess'[u] = [sess[u] EXCEPT !.pc = "reading", !.wait = 0]
      BY <2>1 DEF AddLease, TypeOK
    <3> QED BY <3>1 DEF TypeOK, Sessions
  <2>2. CASE Register(u) \/ BeginBuild(u) \/ FinishBuild(u) \/ Disconnect(u)
    <3>1. PICK p \in Registered : sess'[u] = [sess[u] EXCEPT !.pc = p]
      BY <2>2 DEF Register, BeginBuild, FinishBuild, Disconnect, Registered, TypeOK
    <3> QED BY <3>1 DEF TypeOK, Sessions, Registered
  <2> QED BY <1>6, <2>1, <2>2
<1>7. CASE ReleaseRedis(u)
  BY <1>7 DEF ReleaseRedis, TypeOK, Sessions
<1>8. CASE ReleasePg(u) \/ DrainRelease(u) \/ StrayOpens(u) \/ StrayEnds(u)
           \/ BeatStart(u) \/ BeatSkip(u) \/ BeatRedisReply(u)
  BY <1>8 DEF ReleasePg, DrainRelease, StrayOpens, StrayEnds, BeatStart, BeatSkip,
              BeatRedisReply
<1>9. CASE StrayTearsDown(u) \/ BeatEnd(u)
  BY <1>1, <1>9 DEF StrayTearsDown, BeatEnd, EndSession, TypeOK
<1> QED BY <1>2, <1>3, <1>4, <1>5, <1>6, <1>7, <1>8, <1>9 DEF Work

\* RescanInv survives a step of a worker: the row is taken past a standing session
\* only after that session's key is gone, and is found again only by its age.
LEMMA WorkRescan ==
    ASSUME TypeOK, TypeOK', Timely, TakeoverGrace <= StaleAge, TwoWorkers,
           FenceInv, ReleaseInv, DrainInv, OwnersInv, OwnersInv', TimeInv, RescanInv,
           NEW u \in Workers, Work(u)
    PROVE  RescanInv'
<1> SUFFICES ASSUME NEW v \in Workers, Standing(v)', Taken(v)'
             PROVE  /\ ~HasKey(v)'
                    /\ Life(v)' + row'.seen < TakeoverGrace
                    /\ \A w \in Workers \ {v} : sess'[w].pc \notin {"found", "placed"}
  BY DEF RescanInv
<1>1. /\ Life(v) \in Nat /\ Life(v)' \in Nat /\ row.seen \in Nat /\ row'.seen \in Nat
      /\ TakeoverGrace \in Nat /\ StaleAge \in Nat /\ row.fence \in Nat
      /\ sess[v].fence \in Nat /\ row.seen \in 0 .. StaleAge
  BY Lengths, LifeType, StoreAssumption DEF TypeOK, OwnersInv, OwnInv, Life, Rows
<1>2. OwnInv(u) /\ OwnInv(v)
  BY DEF OwnersInv
<1>3. CASE v = u
  <2>1. sess'[v].pc \in Fenced /\ Work(v)
    BY <1>3 DEF Standing, Fenced, Keyed
  <2>2. ~Mint(v)
    <3> SUFFICES ASSUME Mint(v) PROVE FALSE
      OBVIOUS
    <3>1. sess'[v].fence = row.fence + 1 /\ row' = MintRow(row, v)
      BY <1>2, <2>1, MintOwn DEF Fenced, Registered
    <3> QED BY <1>1, <3>1 DEF Taken, MintRow
  <2>3. Kept(v)
    BY <1>2, <2>1, <2>2, WorkOwn
  <2>4. /\ Standing(v) /\ sess'[v].fence = sess[v].fence /\ (HasKey(v)' => HasKey(v))
        /\ sess[v].pc \in Fenced
    BY <2>3 DEF Kept
  <2>5. /\ row'.fence = row.fence /\ row'.seen <= row.seen
        /\ row'.released => row.released
             \/ (rel[v].leg # "none" /\ rel[v].fence = row.fence)
    BY <2>1, <2>2, RowStep
  <2>6. Taken(v)
    <3>1. row.fence > sess[v].fence
      BY <2>4, <2>5 DEF Taken
    <3>2. ~(rel[v].fence = row.fence)
      BY <1>1, <1>2, <2>4, <3>1 DEF OwnInv, TypeOK, Releases
    <3>3. \A w \in Workers \ {v} : Uses(w, row.fence)' => Uses(w, row.fence)
      <4> TAKE w \in Workers \ {v}
      <4>1. /\ sess'[w] = sess[w] /\ rel'[w] = rel[w] /\ stray'[w] = stray[w]
            /\ HasKey(w)' <=> HasKey(w)
        BY <1>3, OthersKeep, OthersStand
      <4> QED BY <2>5, <4>1 DEF Uses
    <3> QED BY <2>5, <3>1, <3>2, <3>3 DEF Taken
  <2>7. /\ ~HasKey(v) /\ Life(v) + row.seen < TakeoverGrace
        /\ \A w \in Workers \ {v} : sess[w].pc \notin {"found", "placed"}
    BY <2>4, <2>6 DEF RescanInv
  <2>8. Life(v)' <= Life(v)
    <3>1. sess'[v].pc \in Keyed
      BY <2>4, <2>7 DEF Standing, Keyed, Registered
    <3> QED BY <2>3, <2>7, <3>1 DEF Kept
  <2>9. \A w \in Workers \ {v} : sess'[w] = sess[w]
    BY <1>3, OthersKeep
  <2> QED BY <1>1, <2>4, <2>5, <2>7, <2>8, <2>9
<1>4. CASE v # u
  <2>1. /\ sess'[v] = sess[v] /\ Life(v)' = Life(v) /\ (HasKey(v)' <=> HasKey(v))
        /\ Standing(v)
    BY <1>4, OthersKeep, OthersStand
  <2>2. \A w \in Workers \ {v} : w = u
    BY <1>4 DEF TwoWorkers
  <2>3. CASE Taken(v) /\ ~Mint(u)
    <3>1. /\ ~HasKey(v) /\ Life(v) + row.seen < TakeoverGrace
          /\ sess[u].pc \notin {"found", "placed"}
      BY <1>4, <2>1, <2>3 DEF RescanInv
    <3>2. row'.seen <= row.seen
      BY <2>3, RowStep
    <3>3. ~Discoverable(row)
      <4>1. row.fence # 0 /\ row.seen < StaleAge
        BY <1>1, <2>3, <3>1 DEF Taken
      <4> QED BY <1>1, <4>1 DEF Discoverable
    <3>4. sess'[u].pc \notin {"found", "placed"}
      BY <3>1, <3>3, FindStep
    <3> QED BY <1>1, <2>1, <2>2, <3>1, <3>2, <3>4
  <2>4. CASE Mint(u)
    <3>1. sess[u].pc = "placed"
      BY <2>4 DEF Mint
    <3>2. ~Taken(v)
      BY <1>4, <2>1, <3>1 DEF RescanInv
    <3>3. \/ /\ sess'[u].pc = "minted" /\ sess'[u].fence = row.fence + 1
             /\ row' = MintRow(row, u)
          \/ sess'[u].pc = "undoing" /\ row' \in {row, MintRow(row, u)}
      BY <1>2, <2>4, MintOwn
    <3>4. rel'[u] = rel[u] /\ stray'[u] = stray[u] /\ key' = key
      BY <2>4 DEF Mint
    <3>5. rel[u].fence <= row.fence /\ stray[u].fence <= row.fence
      BY <1>1 DEF FenceInv, RowIsAuthority, Fences, TypeOK, Releases, Strays
    <3>6. row' # row
      <4> SUFFICES ASSUME row' = row PROVE FALSE
        OBVIOUS
      <4>1. sess'[u].pc = "undoing"
        BY <1>1, <3>3 DEF MintRow
      <4>2. Uses(u, row.fence)' => Uses(u, row.fence)
        BY <3>4, <4>1 DEF Uses, Keyed, Registered
      <4> QED BY <2>1, <2>2, <3>2, <4>2 DEF Taken
    <3>7. row'.fence = row.fence + 1 /\ row'.released = FALSE /\ row'.seen = 0
      BY <3>3, <3>6 DEF MintRow
    <3>8. \/ row'.fence \in {rel'[u].fence, stray'[u].fence}
          \/ sess'[u].pc \in Keyed
          \/ sess'[u].pc = "minted" /\ HasKey(u)'
      BY <2>2, <3>7 DEF Taken, Uses
    <3>9. row'.fence \notin {rel'[u].fence, stray'[u].fence}
      BY <1>1, <3>4, <3>5, <3>7 DEF TypeOK, Releases, Strays
    <3>10. sess'[u].pc = "minted" /\ HasKey(u)'
      BY <3>3, <3>8, <3>9 DEF Keyed, Registered
    <3>11. ~HasKey(v)'
      BY <1>4, <3>10 DEF HasKey, Carries
    <3>12. sess[v].pc \in Keyed
      BY <2>1, <3>11 DEF Standing, Keyed, Registered
    <3>13. Life(v) < TakeoverGrace
      BY <1>1, <2>1, <3>11, <3>12 DEF TimeInv, Outlived
    <3> QED BY <1>1, <2>1, <2>2, <3>7, <3>10, <3>11, <3>13
  <2>5. CASE ~Taken(v) /\ ~Mint(u)
    <3>1. /\ row'.fence = row.fence
          /\ row'.released => row.released
               \/ (rel[u].leg # "none" /\ rel[u].fence = row.fence)
      BY <2>5, RowStep
    <3>2. row.fence > sess[v].fence
      BY <2>1, <3>1 DEF Taken
    <3>3. row'.released => row.released \/ Uses(u, row.fence)
      BY <3>1 DEF Uses
    <3>4. Uses(u, row.fence)' => Uses(u, row.fence)
      <4>1. PICK n \in Nat : n = row.fence
        BY <1>1
      <4>2. n # 0
        BY <1>1, <3>2, <4>1
      <4>3. Uses(u, n)' => Uses(u, n)
        BY <1>2, <2>5, <4>2, UsesStep
      <4> QED BY <3>1, <4>1, <4>3 DEF Uses
    <3> QED BY <1>4, <2>2, <2>5, <3>1, <3>2, <3>3, <3>4 DEF Taken
  <2> QED BY <2>3, <2>4, <2>5
<1> QED BY <1>3, <1>4

\* As lease_seen_at ages, the life of the session it outlives shortens.
LEMMA TickRescan ==
    ASSUME TypeOK, TypeOK', Timely, ReleaseInv, OwnersInv, OwnersInv', RescanInv, Tick
    PROVE  RescanInv'
<1> SUFFICES ASSUME NEW v \in Workers, Standing(v)', Taken(v)'
             PROVE  /\ ~HasKey(v)'
                    /\ Life(v)' + row'.seen < TakeoverGrace
                    /\ \A w \in Workers \ {v} : sess'[w].pc \notin {"found", "placed"}
  BY DEF RescanInv
<1>1. /\ Life(v) \in Nat /\ Life(v)' \in Nat /\ row.seen \in Nat /\ row'.seen \in Nat
      /\ TakeoverGrace \in Nat
  BY Lengths, LifeType, StoreAssumption DEF TypeOK, OwnersInv, OwnInv, Life, Rows
<1>2. row'.fence = row.fence /\ row'.released = row.released /\ row'.seen <= row.seen + 1
  <2>1. LET r == AgeRow(row)
        IN r.fence = row.fence /\ r.released = row.released /\ r.seen <= row.seen + 1
    BY <1>1 DEF AgeRow, TypeOK, Rows
  <2> QED BY <2>1 DEF Tick
<1>3. \A w \in Workers : /\ sess'[w].pc = sess[w].pc /\ sess'[w].fence = sess[w].fence
                         /\ rel'[w] = rel[w] /\ stray'[w] = stray[w]
                         /\ HasKey(w)' => HasKey(w)
                         /\ Standing(w)' => Standing(w)
  BY TickStands DEF Tick
<1>4. \A w \in Workers : Uses(w, row.fence)' => Uses(w, row.fence)
  BY <1>2, <1>3 DEF Uses
<1>5. Taken(v)
  BY <1>2, <1>3, <1>4 DEF Taken
<1>6. /\ ~HasKey(v) /\ Life(v) + row.seen < TakeoverGrace
      /\ \A w \in Workers \ {v} : sess[w].pc \notin {"found", "placed"}
  BY <1>3, <1>5 DEF RescanInv
<1>7. Life(v)' <= Life(v) - 1
  <2>1. Standing(v) /\ sess[v].pc \in Keyed
    BY <1>3, <1>6 DEF Standing, Keyed, Registered
  <2> QED BY <2>1, TickStands
<1> QED BY <1>1, <1>2, <1>3, <1>6, <1>7

-----------------------------------------------------------------------------
(* The contract. *)

\* The sockets of two workers are never guarded at once: the later session has
\* its grace behind it, the earlier lease its life.
LEMMA Exclusive ==
    ASSUME Timely, TypeOK, FenceInv, ReleaseInv, OwnersInv, TimeInv
    PROVE  OneGuardedSocket
<1> SUFFICES ASSUME NEW v \in Workers, NEW w \in Workers, v # w, Guarded(v), Guarded(w)
             PROVE  FALSE
  BY DEF OneGuardedSocket
<1>1. ASSUME NEW x \in Workers, Guarded(x)
      PROVE  Standing(x) /\ sess[x].fence # 0 /\ sess[x].pc \in Keyed /\ sess[x].grace = 0
  <2>1. sess[x].pc = "open" /\ beat[x].held = sess[x].fence /\ sess[x].pc \in Keyed
        /\ sess[x].pc \in Fenced
    BY <1>1 DEF Guarded, Keyed, Registered, Fenced
  <2> QED BY <2>1 DEF Standing, ReleaseInv, OwnersInv, OwnInv
<1>2. sess[v].fence # sess[w].fence
  <2>1. sess[v].fence \in Fences(v) /\ sess[w].fence \in Fences(w)
    BY <1>1 DEF Fences
  <2>2. Fences(v) \cap Fences(w) = {}
    BY DEF FenceInv, FenceUnique
  <2> QED BY <2>1, <2>2
<1>3. ASSUME NEW x \in Workers, NEW y \in Workers, x # y, Guarded(x), Guarded(y)
      PROVE  ~(sess[x].fence < sess[y].fence)
  <2>1. Standing(x) /\ sess[y].pc \in Keyed /\ sess[y].grace = 0
    BY <1>1, <1>3
  <2>2. Life(x) \in Nat /\ sess[x].fence \in Nat /\ sess[y].fence \in Nat
    BY Lengths
  <2> QED BY <1>3, <2>1, <2>2 DEF TimeInv, Succeeds
<1> QED BY <1>2, <1>3, Lengths

\* A lease is granted above every lease still in a heartbeat.
LEMMA GrantAbove ==
    ASSUME Timely, TypeOK, FenceInv, ReleaseInv, OwnersInv, TimeInv,
           NEW u \in Workers, sess[u].pc = "fencing", NEW v \in Workers
    PROVE  beat[v].held < sess[u].fence
<1>1. HasKey(u) /\ beat[u].held < sess[u].fence /\ Standing(u)
  BY DEF OwnersInv, OwnInv, Standing
<1>2. CASE v # u
  <2>1. ~(beat[v].held > sess[u].fence)
    BY <1>1, <1>2 DEF TimeInv, Succeeds
  <2>2. sess[u].fence # 0
    BY DEF ReleaseInv, Fenced
  <2>3. beat[v].held # sess[u].fence
    BY <1>2, <2>2 DEF FenceInv, FenceUnique, Fences
  <2>4. sess[u].fence \in Nat /\ beat[v].held \in Nat
    BY Lengths
  <2> QED BY <2>1, <2>3, <2>4
<1> QED BY <1>1, <1>2

LeaseOf(w) == [worker |-> w, fence |-> beat[w].held]

\* The leases of the contract, one for each heartbeat that holds one.
GrantedNow(l) == \E w \in Workers : beat[w].held # 0 /\ l = LeaseOf(w)

LEMMA GrantedIs ==
    ASSUME NEW l
    PROVE  /\ l \in Granted <=> GrantedNow(l)
           /\ l \in Granted' <=> GrantedNow(l)'
           /\ \A w : LeaseOf(w).worker = w /\ LeaseOf(w).fence = beat[w].held
  BY DEF Granted, LeaseOf, GrantedNow

\* A step that changes no lease and no guarded socket.
LEMMA ContractStutters ==
    ASSUME row'.fence = row.fence,
           \A w \in Workers : /\ beat'[w].held = beat[w].held
                              /\ Guarded(w)' <=> Guarded(w)
    PROVE  UNCHANGED Contract!vars
<1>1. Granted' = Granted
  BY DEF Granted
<1>2. \A l \in Granted : Guarded(l.worker)' <=> Guarded(l.worker)
  BY GrantedIs DEF GrantedNow
<1>3. {l \in Granted : Guarded(l.worker)}' = {l \in Granted : Guarded(l.worker)}
  BY <1>1, <1>2
<1> QED BY <1>1, <1>3 DEF Contract!vars

-----------------------------------------------------------------------------
(* The invariants of all behaviours. *)

\* What drain and shed find holds all along.
LEMMA DrainHolds == Spec => []DrainInv
<1>1. Init => DrainInv
  BY DEF Init, DrainInv
<1>2. TypeOK /\ TypeOK' /\ ReleaseInv /\ DrainInv /\ [Next]_vars => DrainInv'
  <2> SUFFICES ASSUME TypeOK, TypeOK', ReleaseInv, DrainInv, [Next]_vars
               PROVE  DrainInv'
    OBVIOUS
  <2>1. CASE Tick
    <3> SUFFICES ASSUME NEW w \in Workers, drain'[w] PROVE beat'[w].held = 0
      BY DEF DrainInv
    <3>1. beat'[w] = AgeBeat(w) /\ beat[w].held = 0 /\ beat[w] \in Beats
      BY <2>1 DEF Tick, DrainInv, TypeOK
    <3>2. AgeBeat(w).held = beat[w].held
      BY <3>1 DEF AgeBeat, Beats
    <3> QED BY <3>1, <3>2
  <2>2. ASSUME NEW w \in Workers, Work(w) PROVE DrainInv'
    BY <2>2, DrainStep
  <2>3. CASE UNCHANGED vars
    BY <2>3 DEF vars, DrainInv
  <2> QED BY <2>1, <2>2, <2>3 DEF Next
<1> QED BY <1>1, <1>2, ReleaseHolds, TypeCorrect, PTL DEF Spec

\* Each worker's own state.
LEMMA OwnersHold == ASSUME Timely PROVE Spec => []OwnersInv
<1>1. Init => OwnersInv
  <2> SUFFICES ASSUME Init, NEW w \in Workers PROVE OwnInv(w)
    BY DEF OwnersInv
  <2>1. sess[w] = NoSession /\ beat[w] = IdleBeat
    BY DEF Init
  <2>2. NoSession.pc = "idle" /\ NoSession.fence = 0 /\ IdleBeat.leg = "none"
    BY DEF NoSession, IdleBeat
  <2>3. "idle" \notin Fenced /\ "idle" \notin {"building", "open", "minted", "fencing"}
    BY DEF Fenced, Registered
  <2> QED BY <2>1, <2>2, <2>3 DEF OwnInv, InTime
<1>2. TypeOK /\ TypeOK' /\ FenceInv /\ ReleaseInv /\ OwnersInv /\ [Next]_vars
        => OwnersInv'
  <2> SUFFICES ASSUME TypeOK, TypeOK', FenceInv, ReleaseInv, OwnersInv, [Next]_vars
               PROVE  OwnersInv'
    OBVIOUS
  <2>1. CASE Tick
    BY <2>1, TickOwners
  <2>2. ASSUME NEW w \in Workers, Work(w) PROVE OwnersInv'
    BY <2>2, WorkOwners
  <2>3. CASE UNCHANGED vars
    BY <2>3 DEF vars, OwnersInv, OwnInv, HasKey
  <2> QED BY <2>1, <2>2, <2>3 DEF Next
<1>3. FenceInv <=> FenceUnique /\ RowIsAuthority
  BY DEF FenceInv
<1> QED BY <1>1, <1>2, <1>3, FencesIdentifyOwners, ReleaseHolds, TypeCorrect, PTL DEF Spec

\* TimeInv survives every step, if nobody skips the grace while an earlier
\* session stands.
LEMMA TimeStep ==
    ASSUME Timely, TypeOK, TypeOK', FenceInv, ReleaseInv, OwnersInv, OwnersInv', TimeInv,
           \A u \in Workers : Mint(u) =>
               \A v \in Workers \ {u} : Standing(v) => ~row.released,
           [Next]_vars
    PROVE  TimeInv'
<1>1. CASE Tick
  BY <1>1, TickTime
<1>2. ASSUME NEW u \in Workers, Work(u) PROVE TimeInv'
  <2>1. ASSUME NEW v \in Workers PROVE Outlived(v)'
    BY <1>2, <2>1, WorkOutlived
  <2>2. ASSUME NEW v \in Workers, NEW w \in Workers, v # w PROVE Succeeds(w, v)'
    BY <1>2, <2>2, WorkSucceeds
  <2> QED BY <2>1, <2>2 DEF TimeInv
<1>3. CASE UNCHANGED vars
  <2>1. ASSUME NEW v \in Workers
        PROVE  /\ (Standing(v)' <=> Standing(v)) /\ Life(v)' = Life(v)
               /\ (HasKey(v)' <=> HasKey(v))
    BY <1>3 DEF vars, Standing, Life, HasKey
  <2>2. ASSUME NEW v \in Workers PROVE Outlived(v)'
    BY <1>3, <2>1 DEF vars, TimeInv, Outlived
  <2>3. ASSUME NEW v \in Workers, NEW w \in Workers, v # w PROVE Succeeds(w, v)'
    BY <1>3, <2>1, <2>3 DEF vars, TimeInv, Succeeds
  <2> QED BY <2>2, <2>3 DEF TimeInv
<1> QED BY <1>1, <1>2, <1>3 DEF Next

\* Nothing stands, and no row is released, at the start.
LEMMA TimeStart == Init => TimeInv /\ RescanInv
<1> SUFFICES ASSUME Init PROVE TimeInv /\ RescanInv
  OBVIOUS
<1>1. ASSUME NEW v \in Workers PROVE ~Standing(v)
  BY DEF Init, Standing, NoSession, Keyed, Registered
<1> QED BY <1>1 DEF TimeInv, RescanInv, Outlived, Succeeds

\* With two workers both time invariants hold, if a row that was released and
\* is found again by its age has been silent for a grace.
LEMMA TimesHold ==
    ASSUME Timely, TakeoverGrace <= StaleAge, TwoWorkers
    PROVE  Spec => [](TimeInv /\ RescanInv)
<1>1. Init => TimeInv /\ RescanInv
  BY TimeStart
<1>2. TypeOK /\ TypeOK' /\ FenceInv /\ ReleaseInv /\ DrainInv /\ OwnersInv /\ OwnersInv'
        /\ (TimeInv /\ RescanInv) /\ [Next]_vars => (TimeInv /\ RescanInv)'
  <2> SUFFICES ASSUME TypeOK, TypeOK', FenceInv, ReleaseInv, DrainInv, OwnersInv,
                      OwnersInv', TimeInv, RescanInv, [Next]_vars
               PROVE  TimeInv' /\ RescanInv'
    OBVIOUS
  <2>1. TimeInv'
    BY MintWaits, TimeStep
  <2>2. CASE Tick
    BY <2>1, <2>2, TickRescan
  <2>3. ASSUME NEW u \in Workers, Work(u) PROVE RescanInv'
    BY <2>3, WorkRescan
  <2>4. CASE UNCHANGED vars
    <3>1. ASSUME NEW v \in Workers
          PROVE  /\ (Standing(v)' <=> Standing(v)) /\ Life(v)' = Life(v)
                 /\ (HasKey(v)' <=> HasKey(v)) /\ (Taken(v)' <=> Taken(v))
      BY <2>4 DEF vars, Standing, Life, HasKey, Taken, Uses
    <3> QED BY <2>1, <2>4, <3>1 DEF vars, RescanInv
  <2> QED BY <2>1, <2>2, <2>3, <2>4 DEF Next
<1>3. FenceInv <=> FenceUnique /\ RowIsAuthority
  BY DEF FenceInv
<1>4. Spec => []OwnersInv
  BY OwnersHold
<1> QED BY <1>1, <1>2, <1>3, <1>4, FencesIdentifyOwners, ReleaseHolds, DrainHolds,
           TypeCorrect, PTL DEF Spec

\* With any number of workers, as long as no row is ever released.
LEMMA TimeHolds ==
    ASSUME Timely
    PROVE  Spec /\ []~row.released => []TimeInv
<1>1. Init => TimeInv
  BY TimeStart
<1>2. TypeOK /\ TypeOK' /\ FenceInv /\ ReleaseInv /\ OwnersInv /\ OwnersInv'
        /\ TimeInv /\ ~row.released /\ [Next]_vars => TimeInv'
  BY TimeStep
<1>3. FenceInv <=> FenceUnique /\ RowIsAuthority
  BY DEF FenceInv
<1>4. Spec => []OwnersInv
  BY OwnersHold
<1> QED BY <1>1, <1>2, <1>3, <1>4, FencesIdentifyOwners, ReleaseHolds, TypeCorrect, PTL
        DEF Spec

\* Of two workers never both have a socket open that their heartbeats guard,
\* whatever is lost, late or crashed: a worker cut off from Redis has fenced
\* itself before its successor's grace is over (TIMING in timing.ts).
THEOREM TwoWorkersOneSocket ==
    ASSUME Timely, TakeoverGrace <= StaleAge, TwoWorkers
    PROVE  Spec => []OneGuardedSocket
<1>1. TypeOK /\ FenceInv /\ ReleaseInv /\ OwnersInv /\ TimeInv => OneGuardedSocket
  BY Exclusive
<1>2. FenceInv <=> FenceUnique /\ RowIsAuthority
  BY DEF FenceInv
<1>3. Spec => []OwnersInv
  BY OwnersHold
<1>4. Spec => [](TimeInv /\ RescanInv)
  BY TimesHold
<1> QED BY <1>1, <1>2, <1>3, <1>4, FencesIdentifyOwners, ReleaseHolds, TypeCorrect, PTL

\* Nor of any fleet, as long as sessions end by crashing or being fenced: only
\* a release lets a later owner skip the grace (LeaseManager.acquire step 4).
THEOREM UnreleasedOneSocket ==
    ASSUME Timely
    PROVE  Spec /\ []~row.released => []OneGuardedSocket
<1>1. TypeOK /\ FenceInv /\ ReleaseInv /\ OwnersInv /\ TimeInv => OneGuardedSocket
  BY Exclusive
<1>2. FenceInv <=> FenceUnique /\ RowIsAuthority
  BY DEF FenceInv
<1>3. Spec => []OwnersInv
  BY OwnersHold
<1>4. Spec /\ []~row.released => []TimeInv
  BY TimeHolds
<1> QED BY <1>1, <1>2, <1>3, <1>4, FencesIdentifyOwners, ReleaseHolds, TypeCorrect, PTL

-----------------------------------------------------------------------------
(* Every step is a step of the contract, or none. *)

\* The leases with a guarded socket.
Live == {l \in Granted : Guarded(l.worker)}

LiveNow(l) == \E w \in Workers : beat[w].held # 0 /\ Guarded(w) /\ l = LeaseOf(w)

\* One for each heartbeat whose worker has its socket open.
LEMMA LiveIs ==
    ASSUME NEW l
    PROVE  /\ l \in Live <=> LiveNow(l)
           /\ l \in Live' <=> LiveNow(l)'
<1>1. /\ l \in Granted <=> GrantedNow(l)
      /\ l \in Granted' <=> GrantedNow(l)'
  BY GrantedIs
<1>2. \A w : LeaseOf(w).worker = w /\ LeaseOf(w)'.worker = w
  BY DEF LeaseOf
<1>3. l \in Live <=> LiveNow(l)
  BY <1>1, <1>2 DEF Live, LiveNow, GrantedNow
<1>4. l \in Live' <=> LiveNow(l)'
  BY <1>1, <1>2 DEF Live, LiveNow, GrantedNow
<1> QED BY <1>3, <1>4

\* A lease in a heartbeat is one the contract knows.
LEMMA LeaseIs ==
    ASSUME TypeOK, FenceInv, NEW w \in Workers, beat[w].held # 0
    PROVE  LeaseOf(w) \in Contract!Leases /\ LeaseOf(w) \in Granted
<1>1. beat[w].held \in Fences(w) /\ beat[w].held \in Nat /\ row.fence \in Nat
  BY DEF Fences, TypeOK, Beats, Rows
<1>2. beat[w].held \in 1 .. row.fence
  BY <1>1 DEF FenceInv, RowIsAuthority
<1> QED BY <1>2, GrantedIs DEF LeaseOf, GrantedNow, Contract!Leases

\* A worker whose guarded socket closes, or opens, is the only one that has one.
LEMMA SocketStep ==
    ASSUME TypeOK, FenceInv, ReleaseInv, ReleaseInv', OneGuardedSocket, OneGuardedSocket',
           NEW u \in Workers, row'.fence = row.fence,
           \A w \in Workers : beat'[w].held = beat[w].held,
           \A w \in Workers \ {u} : Guarded(w)' <=> Guarded(w)
    PROVE  [Contract!Next]_Contract!vars
<1>1. Granted' = Granted /\ \A w \in Workers : LeaseOf(w)' = LeaseOf(w)
  BY DEF Granted, LeaseOf
<1>2. CASE Guarded(u)' <=> Guarded(u)
  BY <1>2, ContractStutters
<1>3. CASE Guarded(u) /\ ~Guarded(u)'
  <2>1. beat[u].held # 0
    BY <1>3 DEF Guarded, ReleaseInv, Fenced, Registered
  <2>2. LeaseOf(u) \in Live
    BY <1>3, <2>1, LiveIs DEF LiveNow
  <2>3. \A w \in Workers : ~Guarded(w)'
    BY <1>3 DEF OneGuardedSocket
  <2>4. Live' = {}
    BY <1>1, <2>3, LiveIs DEF LiveNow
  <2>5. Contract!Close
    BY <1>1, <2>2, <2>4 DEF Contract!Close, Live
  <2> QED BY <2>5 DEF Contract!Next
<1>4. CASE ~Guarded(u) /\ Guarded(u)'
  <2>1. beat[u].held # 0
    BY <1>4 DEF Guarded, ReleaseInv, Fenced, Registered
  <2>2. \A w \in Workers : ~Guarded(w)
    BY <1>4 DEF OneGuardedSocket
  <2>3. Live = {}
    BY <2>2, LiveIs DEF LiveNow
  <2>4. Live' = {LeaseOf(u)}
    BY <1>1, <1>4, <2>1, <2>2, LiveIs DEF LiveNow
  <2>5. LeaseOf(u) \in Contract!Leases /\ LeaseOf(u) \in Granted
    BY <2>1, LeaseIs
  <2>6. Contract!Open(LeaseOf(u))
    BY <1>1, <2>3, <2>4, <2>5 DEF Contract!Open, Live
  <2> QED BY <2>5, <2>6 DEF Contract!Next
<1> QED BY <1>2, <1>3, <1>4

\* A lease that leaves its heartbeat takes its socket along.
LEMMA DropStep ==
    ASSUME TypeOK, FenceInv, NEW u \in Workers, row'.fence = row.fence,
           beat[u].held # 0, beat'[u].held = 0,
           \A w \in Workers \ {u} : /\ beat'[w].held = beat[w].held
                                    /\ Guarded(w)' <=> Guarded(w)
    PROVE  [Contract!Next]_Contract!vars
<1>1. \A w \in Workers \ {u} : LeaseOf(w)' = LeaseOf(w) /\ LeaseOf(w) # LeaseOf(u)
  BY DEF LeaseOf
<1>2. Granted' = Granted \ {LeaseOf(u)}
  BY <1>1, GrantedIs DEF GrantedNow
<1>3. Live' = Live \ {LeaseOf(u)}
  BY <1>1, LiveIs DEF LiveNow
<1>4. LeaseOf(u) \in Contract!Leases /\ LeaseOf(u) \in Granted
  BY LeaseIs
<1>5. Contract!Drop(LeaseOf(u))
  BY <1>2, <1>3, <1>4 DEF Contract!Drop, Live
<1> QED BY <1>4, <1>5 DEF Contract!Next

\* acquire's lease replaces the one its worker held, above everybody's.
LEMMA GrantStep ==
    ASSUME Timely, TypeOK, FenceInv, ReleaseInv, OwnersInv, TimeInv,
           NEW u \in Workers, AddLease(u), beat'[u].held = sess[u].fence
    PROVE  [Contract!Next]_Contract!vars
<1> DEFINE l == [worker |-> u, fence |-> sess[u].fence]
           others == {g \in Granted : g.worker # l.worker}
<1>1. /\ row' = row /\ sess[u].pc = "fencing" /\ sess'[u].pc = "reading"
      /\ sess[u].fence # 0
  BY DEF AddLease, TypeOK, ReleaseInv, Fenced
<1>2. \A w \in Workers \ {u} : /\ beat'[w].held = beat[w].held
                               /\ LeaseOf(w)' = LeaseOf(w)
                               /\ LeaseOf(w).worker # l.worker
                               /\ Guarded(w)' <=> Guarded(w)
  BY OthersKeep DEF Work, LeaseOf, Guarded
<1>3. LeaseOf(u)' = l /\ ~Guarded(u)' /\ LeaseOf(u).worker = l.worker
  BY <1>1 DEF LeaseOf, Guarded
<1>4. Granted' = others \cup {l}
  BY <1>1, <1>2, <1>3, GrantedIs DEF GrantedNow
<1>5. Live' = Live \cap others
  BY <1>1, <1>2, <1>3, LiveIs, GrantedIs DEF LiveNow, GrantedNow
<1>6. \A g \in Granted : g.fence < l.fence
  BY <1>1, GrantAbove, GrantedIs DEF GrantedNow
<1>7. l \in Contract!Leases
  <2>1. sess[u].fence \in Fences(u) /\ sess[u].fence \in Nat /\ row.fence \in Nat
    BY <1>1 DEF Fences, TypeOK, Sessions, Rows
  <2>2. sess[u].fence \in 1 .. row.fence
    BY <1>1, <2>1 DEF FenceInv, RowIsAuthority
  <2> QED BY <2>2 DEF Contract!Leases
<1>8. Contract!Grant(l)
  BY <1>1, <1>4, <1>5, <1>6 DEF Contract!Grant, Live
<1> QED BY <1>7, <1>8 DEF Contract!Next

\* The mint transaction is the contract's, if it was committed.
LEMMA MintStep ==
    ASSUME TypeOK, NEW u \in Workers, Mint(u)
    PROVE  [Contract!Next]_Contract!vars
<1>1. row'.fence \in {row.fence, row.fence + 1}
  BY DEF Mint, Transaction, MintRow
<1>2. beat' = beat /\ \A w \in Workers : Guarded(w)' <=> Guarded(w)
  <2>1. beat' = beat /\ sess[u].pc = "placed" /\ sess'[u].pc \in {"minted", "undoing"}
    BY DEF Mint, TypeOK, NoSession
  <2>2. \A w \in Workers \ {u} : sess'[w] = sess[w]
    BY OthersKeep DEF Work
  <2> QED BY <2>1, <2>2 DEF Guarded
<1>3. CASE row'.fence = row.fence
  BY <1>2, <1>3, ContractStutters
<1>4. CASE row'.fence = row.fence + 1
  <2>1. Granted' = Granted /\ Live' = Live
    BY <1>2 DEF Granted, Live
  <2>2. Contract!Mint
    BY <1>4, <2>1 DEF Contract!Mint, Live
  <2> QED BY <2>2 DEF Contract!Next
<1> QED BY <1>1, <1>3, <1>4

\* All steps.
LEMMA ContractStep ==
    ASSUME Timely, TypeOK, TypeOK', FenceInv, ReleaseInv, ReleaseInv', OwnersInv, TimeInv,
           OneGuardedSocket, OneGuardedSocket', [Next]_vars
    PROVE  [Contract!Next]_Contract!vars
<1>1. CASE Tick
  <2>1. row'.fence = row.fence
    BY <1>1 DEF Tick, AgeRow, TypeOK, Rows
  <2>2. \A w \in Workers : beat'[w].held = beat[w].held /\ (Guarded(w)' <=> Guarded(w))
    BY <1>1, TickStands DEF Guarded
  <2> QED BY <2>1, <2>2, ContractStutters
<1>2. ASSUME NEW u \in Workers, Work(u) PROVE [Contract!Next]_Contract!vars
  <2>1. \A w \in Workers \ {u} : /\ beat'[w].held = beat[w].held
                                 /\ Guarded(w)' <=> Guarded(w)
    BY <1>2, OthersKeep DEF Guarded
  <2>2. CASE Mint(u)
    BY <2>2, MintStep
  <2>3. CASE ~Mint(u)
    <3>1. row'.fence = row.fence
      BY <1>2, <2>3, RowStep
    <3>2. CASE beat'[u].held = beat[u].held
      BY <2>1, <3>1, <3>2, SocketStep
    <3>3. CASE beat'[u].held = 0 /\ beat[u].held # 0
      BY <2>1, <3>1, <3>3, DropStep
    <3>4. CASE AddLease(u) /\ beat'[u].held = sess[u].fence
      BY <3>4, GrantStep
    <3> QED BY <1>2, <3>2, <3>3, <3>4, HeldStep
  <2> QED BY <2>2, <2>3
<1>3. CASE UNCHANGED vars
  BY <1>3, ContractStutters DEF vars, Guarded
<1> QED BY <1>1, <1>2, <1>3 DEF Next

\* No lease at first, and no fence.
LEMMA ContractStart == Init => Contract!Init
<1> SUFFICES ASSUME Init PROVE Contract!Init
  OBVIOUS
<1>1. row.fence = 0 /\ \A w \in Workers : beat[w].held = 0
  BY DEF Init, NoRow, IdleBeat
<1>2. Granted = {}
  BY <1>1 DEF Granted
<1> QED BY <1>1, <1>2 DEF Contract!Init

\* Lease implements SessionContract with two workers: every grant is above the
\* leases still held, every socket opens while no other is open, and a lease
\* that is fenced, released or crashed takes its socket along.
THEOREM TwoWorkersImplement ==
    ASSUME Timely, TakeoverGrace <= StaleAge, TwoWorkers
    PROVE  Spec => ImplementsContract
<1>1. TypeOK /\ TypeOK' /\ FenceInv /\ ReleaseInv /\ ReleaseInv' /\ OwnersInv /\ TimeInv
        /\ OneGuardedSocket /\ OneGuardedSocket' /\ [Next]_vars
      => [Contract!Next]_Contract!vars
  BY ContractStep
<1>2. FenceInv <=> FenceUnique /\ RowIsAuthority
  BY DEF FenceInv
<1>3. Spec => []OwnersInv
  BY OwnersHold
<1>4. Spec => [](TimeInv /\ RescanInv)
  BY TimesHold
<1>5. Spec => []OneGuardedSocket
  BY TwoWorkersOneSocket
<1> QED BY <1>1, <1>2, <1>3, <1>4, <1>5, ContractStart, FencesIdentifyOwners,
           ReleaseHolds, TypeCorrect, PTL DEF Spec, ImplementsContract, Contract!Spec

\* And with any fleet that releases nothing: crashes, lost replies, fencing and
\* takeovers are steps of the contract.
THEOREM UnreleasedImplement ==
    ASSUME Timely
    PROVE  Spec /\ []~row.released => ImplementsContract
<1>1. TypeOK /\ TypeOK' /\ FenceInv /\ ReleaseInv /\ ReleaseInv' /\ OwnersInv /\ TimeInv
        /\ OneGuardedSocket /\ OneGuardedSocket' /\ [Next]_vars
      => [Contract!Next]_Contract!vars
  BY ContractStep
<1>2. FenceInv <=> FenceUnique /\ RowIsAuthority
  BY DEF FenceInv
<1>3. Spec => []OwnersInv
  BY OwnersHold
<1>4. Spec /\ []~row.released => []TimeInv
  BY TimeHolds
<1>5. Spec /\ []~row.released => []OneGuardedSocket
  BY UnreleasedOneSocket
<1> QED BY <1>1, <1>2, <1>3, <1>4, <1>5, ContractStart, FencesIdentifyOwners,
           ReleaseHolds, TypeCorrect, PTL DEF Spec, ImplementsContract, Contract!Spec
=============================================================================
