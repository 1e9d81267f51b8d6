--------------------------- MODULE InstanceProofs ---------------------------
(***************************************************************************)
(* Theorems about Instance, for any number of runners, attempts, free      *)
(* restarts and unknown closes.                                            *)
(***************************************************************************)
EXTENDS Instance, TLAPS

(* The inductive invariant. *)

\* A runner has one connect under way at most, and none while a close is handled;
\* a close is handled once; a close that says nothing about the health repeats what
\* the runner believed, which it believes still.
Sound(r) ==
    /\ r \in Runners
    /\ Connects(r) <= 1
    /\ r.sock = "closed" => r.handled
    /\ r.sock = "closed" /\ ~r.auto => r.timers = 0 /\ ~r.building
    /\ r.closing # "no" => r.sock = "closed" /\ r.timers = 0 /\ ~r.building
    /\ r.closing = "no" => ~r.silent
    /\ r.silent /\ r.verdict = "connected" => r.health = "connected"

InstanceInv ==
    /\ row \in Rows
    /\ lease \in [fence : 0 .. MaxFence, owned : BOOLEAN]
    /\ runner \in [Fences -> Runners]
    /\ \A f \in Fences : Sound(runner[f])
    /\ ConnectedIsBelieved
-----------------------------------------------------------------------------
(* Closes. *)

LEMMA HandledKeeps ==
    ASSUME NEW r \in Runners
    PROVE  /\ Handled(r) \in Runners /\ ~Handled(r).silent /\ Handled(r).closing = "no"
           /\ Handled(r).pc = r.pc /\ Handled(r).health = r.health
           /\ Handled(r).sock = r.sock /\ Handled(r).handled = r.handled
           /\ Handled(r).auto = r.auto /\ Handled(r).building = r.building
           /\ Handled(r).timers = r.timers /\ Handled(r).attempt = r.attempt
  BY ZenonT(60) DEF Handled, Runners, Healths, Unborn

\* applyDisconnect has a verdict that is not connected, or says nothing and repeats
\* what was believed.
LEMMA Verdict ==
    ASSUME NEW r \in Runners, NEW code \in Codes, NEW expected \in BOOLEAN,
           ~r.silent
    PROVE  LET d == ApplyDisconnect(r, code, expected)
           IN /\ d \in Runners /\ d.pc = r.pc /\ d.health = r.health
              /\ d.timers = r.timers /\ d.building = r.building
              /\ d.silent /\ d.verdict = "connected" => r.health = "connected"
<1> DEFINE Kept(d) == /\ d \in Runners /\ d.pc = r.pc /\ d.health = r.health
                      /\ d.timers = r.timers /\ d.building = r.building
<1>1. Kept(Silent(r)) /\ Silent(r).verdict = r.health
  BY DEF Silent, Runners
<1>2. Kept([r EXCEPT !.restarts = @ + 1])
  BY DEF Runners
<1>3. ASSUME NEW s \in Runners
      PROVE  Silent(s) \in Runners /\ Silent(s).pc = s.pc /\ Silent(s).health = s.health
             /\ Silent(s).timers = s.timers /\ Silent(s).building = s.building
             /\ Silent(s).verdict = s.health
  BY DEF Silent, Runners
<1>4. Kept(EndSocket(r))
  BY DEF EndSocket, Runners
<1>5. Kept([r EXCEPT !.unknowns = @ + 1, !.verdict = "degraded"])
      /\ [r EXCEPT !.unknowns = @ + 1, !.verdict = "degraded"].verdict = "degraded"
  <2>1. r.unknowns + 1 \in Nat
    BY DEF Runners
  <2> DEFINE n == r.unknowns + 1
  <2>2. [r EXCEPT !.unknowns = @ + 1, !.verdict = "degraded"]
          = [r EXCEPT !.unknowns = n, !.verdict = "degraded"]
    BY DEF Runners
  <2> HIDE DEF n
  <2>3. n \in Nat
    BY <2>1 DEF n
  <2> QED BY <2>2, <2>3 DEF Runners, Healths
<1>6. \A h \in {"paused", "logged_out"} :
         Kept([r EXCEPT !.verdict = h]) /\ [r EXCEPT !.verdict = h].verdict = h
  BY DEF Runners, Healths
<1>7. Kept(ApplyUnknown(r)) /\ ApplyUnknown(r).verdict \in {"degraded", "paused"}
  BY <1>5, <1>6 DEF ApplyUnknown
<1> DEFINE d == ApplyDisconnect(r, code, expected)
<1>8. /\ d = Silent([r EXCEPT !.restarts = @ + 1]) \/ d = ApplyUnknown(r)
         \/ d = Silent(EndSocket(r)) \/ \E h \in {"paused", "logged_out"} : d = [r EXCEPT !.verdict = h]
  BY DEF ApplyDisconnect
<1> HIDE DEF d
<1>9. CASE d = Silent([r EXCEPT !.restarts = @ + 1])
  <2> DEFINE s == [r EXCEPT !.restarts = @ + 1]
  <2>1. Kept(s)
    BY <1>2
  <2> HIDE DEF s
  <2>2. d = Silent(s)
    BY <1>9 DEF s
  <2> QED BY <1>3, <2>1, <2>2 DEF d
<1>10. CASE d = Silent(EndSocket(r))
  BY <1>3, <1>4, <1>10 DEF d
<1>11. CASE d = ApplyUnknown(r)
  BY <1>7, <1>11 DEF d
<1>12. CASE \E h \in {"paused", "logged_out"} : d = [r EXCEPT !.verdict = h]
  BY <1>6, <1>12 DEF d
<1> QED BY <1>8, <1>9, <1>10, <1>11, <1>12

\* A number of timers.
LEMMA TimersSet ==
    ASSUME NEW s \in Runners, NEW m \in Nat
    PROVE  LET t == [s EXCEPT !.timers = m]
           IN /\ t \in Runners /\ t.timers = m
              /\ t.pc = s.pc /\ t.health = s.health /\ t.sock = s.sock
              /\ t.handled = s.handled /\ t.auto = s.auto /\ t.building = s.building
              /\ t.silent = s.silent /\ t.closing = s.closing /\ t.verdict = s.verdict
  BY DEF Runners

\* scheduleReconnectOrGiveUp has one timer more, or hands over to the give up.
LEMMA ScheduledKeeps ==
    ASSUME NEW r \in Runners, r.timers = 0, ~r.building, r.sock = "closed", r.handled
    PROVE  Sound(Scheduled(r)) /\ Scheduled(r).pc = r.pc /\ Scheduled(r).health = r.health
<1>1. CASE ~r.auto
  <2>1. Scheduled(r) = Handled(r)
    BY <1>1 DEF Scheduled
  <2> QED BY <2>1, HandledKeeps DEF Sound, Connects
<1> DEFINE h == Handled(r)
<1>2. /\ h \in Runners /\ ~h.silent /\ h.closing = "no" /\ h.pc = r.pc /\ h.health = r.health
      /\ h.sock = "closed" /\ h.handled /\ h.auto = r.auto /\ ~h.building /\ h.timers = 0
  BY HandledKeeps
<1> HIDE DEF h
<1>3. CASE r.auto /\ r.attempt + 1 > MaxAttempts
  <2>1. Scheduled(r) = [h EXCEPT !.closing = "giveup"]
    BY <1>3 DEF Scheduled, h
  <2>2. /\ Scheduled(r) \in Runners /\ Scheduled(r).pc = h.pc /\ Scheduled(r).health = h.health
        /\ Scheduled(r).sock = h.sock /\ Scheduled(r).handled = h.handled
        /\ Scheduled(r).auto = h.auto /\ Scheduled(r).building = h.building
        /\ Scheduled(r).timers = h.timers /\ Scheduled(r).silent = h.silent
        /\ Scheduled(r).closing = "giveup"
    BY <1>2, <2>1 DEF Runners
  <2> QED BY <1>2, <1>3, <2>2 DEF Sound, Connects
<1>4. CASE r.auto /\ ~(r.attempt + 1 > MaxAttempts)
  <2> DEFINE n == h.attempt + 1
             m == h.timers + 1
  <2>1. Scheduled(r) = [h EXCEPT !.attempt = n, !.timers = m]
    BY <1>2, <1>4 DEF Scheduled, h, Runners
  <2>2. n \in Nat /\ m = 1
    BY <1>2 DEF Runners
  <2> HIDE DEF n, m
  <2> DEFINE s == [h EXCEPT !.attempt = n]
  <2>4. /\ s \in Runners /\ s.pc = h.pc /\ s.health = h.health
        /\ s.sock = h.sock /\ s.handled = h.handled
        /\ s.auto = h.auto /\ s.building = h.building
        /\ s.silent = h.silent /\ s.closing = "no"
    BY <1>2, <2>2 DEF Runners
  <2>5. Scheduled(r) = [s EXCEPT !.timers = m]
    BY <1>2, <2>1 DEF Runners
  <2> HIDE DEF s
  <2>3. /\ Scheduled(r) \in Runners /\ Scheduled(r).pc = h.pc /\ Scheduled(r).health = h.health
        /\ Scheduled(r).sock = h.sock /\ Scheduled(r).handled = h.handled
        /\ Scheduled(r).auto = h.auto /\ Scheduled(r).building = h.building
        /\ Scheduled(r).timers = m /\ Scheduled(r).silent = h.silent
        /\ Scheduled(r).closing = "no"
    <3> DEFINE t == [s EXCEPT !.timers = m]
    <3>1. /\ t \in Runners /\ t.timers = m
          /\ t.pc = s.pc /\ t.health = s.health /\ t.sock = s.sock
          /\ t.handled = s.handled /\ t.auto = s.auto /\ t.building = s.building
          /\ t.silent = s.silent /\ t.closing = s.closing
      BY <2>2, <2>4, TimersSet
    <3>2. Scheduled(r) = t
      BY <2>5
    <3> HIDE DEF t
    <3> QED BY <2>4, <3>1, <3>2
  <2> QED BY <1>2, <1>4, <2>2, <2>3 DEF Sound, Connects
<1> QED BY <1>1, <1>3, <1>4 DEF Runners

\* teardown takes the timers and leaves the rest.
LEMMA TornDownKeeps ==
    ASSUME NEW r, Sound(r), NEW pc \in {"live", "releasing", "down", "unborn"}
    PROVE  Sound(TornDown(r, pc)) /\ TornDown(r, pc).pc = pc
           /\ TornDown(r, pc).health = r.health
<1> DEFINE t == TornDown(r, pc)
<1>1. r \in Runners
  BY DEF Sound
<1>2. EndSocket(r) \in Runners /\ EndSocket(r) = [r EXCEPT !.ended = TRUE]
  BY <1>1 DEF EndSocket, Runners
<1>3. /\ t \in Runners /\ t.pc = pc /\ t.health = r.health /\ t.sock = r.sock
      /\ t.handled = r.handled /\ t.auto = r.auto /\ t.building = r.building /\ t.timers = 0
      /\ t.silent = r.silent /\ t.closing = r.closing /\ t.verdict = r.verdict
  BY <1>1, <1>2, ZenonT(60) DEF TornDown, Runners
<1> HIDE DEF t
<1>4. r.timers \in Nat
  BY <1>1 DEF Runners
<1>5. Sound(t)
  BY <1>3, <1>4 DEF Sound, Connects
<1> QED BY <1>3, <1>5 DEF t

LEMMA GoneIsSound ==
    /\ Sound(Gone) /\ Gone.pc = "down"
    /\ Sound(Unborn)
<1>1. Unborn \in Runners
  BY DEF Unborn, Runners, Healths
<1>2. Sound(Unborn)
  BY <1>1 DEF Unborn, Sound, Connects
<1>3. /\ Gone \in Runners /\ Gone.pc = "down" /\ Gone.timers = Unborn.timers
      /\ Gone.sock = Unborn.sock /\ Gone.building = Unborn.building
      /\ Gone.closing = Unborn.closing /\ Gone.silent = Unborn.silent
  BY <1>1 DEF Gone, Runners
<1>4. Sound(Gone)
  BY <1>3 DEF Unborn, Sound, Connects
<1> QED BY <1>2, <1>3, <1>4
-----------------------------------------------------------------------------
(* Steps. *)

\* One runner goes on as r, or is gone; the others are as they were.
LEMMA UpdateKeeps ==
    ASSUME runner \in [Fences -> Runners], \A g \in Fences : Sound(runner[g]),
           NEW f \in Fences, NEW r, Sound(r), Update(f, r)
    PROVE  /\ runner' \in [Fences -> Runners]
           /\ \A g \in Fences : Sound(runner[g])'
           /\ \A g \in Fences : g # f => runner'[g] = runner[g]
           /\ runner'[f].pc = "live" => runner'[f] = r
<1> DEFINE n == IF Finished(r) THEN Gone ELSE r
<1>1. Sound(n) /\ (n.pc = "live" => n = r)
  BY GoneIsSound
<1>2. runner' = [runner EXCEPT ![f] = n]
  BY DEF Update
<1>3. n \in Runners
  BY <1>1 DEF Sound
<1> HIDE DEF n
<1>4. /\ runner' \in [Fences -> Runners] /\ runner'[f] = n
      /\ \A g \in Fences : g # f => runner'[g] = runner[g]
  BY <1>2, <1>3
<1>5. \A g \in Fences : Sound(runner'[g])
  BY <1>1, <1>4
<1>6. \A g \in Fences : Sound(runner[g])'
  BY <1>5 DEF Sound, Connects
<1> QED BY <1>1, <1>4, <1>6

\* A step of a runner that writes nothing of the row.
LEMMA QuietStep ==
    ASSUME InstanceInv, NEW f \in Fences, NEW r, Sound(r), Update(f, r),
           UNCHANGED <<row, lease>>,
           r.pc = "live" => runner[f].pc = "live" /\ (runner[f].health = "connected"
                                                      => r.health = "connected")
    PROVE  InstanceInv'
<1>1. /\ runner' \in [Fences -> Runners] /\ \A g \in Fences : Sound(runner[g])'
      /\ \A g \in Fences : g # f => runner'[g] = runner[g]
      /\ runner'[f].pc = "live" => runner'[f] = r
  BY UpdateKeeps DEF InstanceInv
<1>2. \A g \in Fences : OwnedBy(g)' <=> OwnedBy(g)
  BY DEF OwnedBy
<1>3. ConnectedIsBelieved'
  BY <1>1, <1>2 DEF InstanceInv, ConnectedIsBelieved
<1> QED BY <1>1, <1>3 DEF InstanceInv

\* A step of the owner that writes a health which it then believes.
LEMMA OwnerStep ==
    ASSUME InstanceInv, NEW f \in Fences, NEW r, Sound(r), Update(f, r),
           OwnedBy(f), lease' = lease, row' \in Rows,
           r.pc = "live" /\ row'.health = "connected" => r.health = "connected"
    PROVE  InstanceInv'
<1>1. /\ runner' \in [Fences -> Runners] /\ \A g \in Fences : Sound(runner[g])'
      /\ \A g \in Fences : g # f => runner'[g] = runner[g]
      /\ runner'[f].pc = "live" => runner'[f] = r
  BY UpdateKeeps DEF InstanceInv
<1>2. \A g \in Fences : OwnedBy(g)' => g = f
  BY DEF OwnedBy
<1>3. ConnectedIsBelieved'
  BY <1>1, <1>2 DEF ConnectedIsBelieved
<1> QED BY <1>1, <1>3 DEF InstanceInv

\* A write of somebody else: it never says connected of an instance that was not.
LEMMA RowStep ==
    ASSUME InstanceInv, row' \in Rows, UNCHANGED <<lease, runner>>,
           row'.health = "connected" => row.health = "connected"
    PROVE  InstanceInv'
<1>1. \A f \in Fences : Sound(runner[f])'
  BY DEF InstanceInv, Sound, Connects
<1>2. ConnectedIsBelieved'
  BY DEF InstanceInv, ConnectedIsBelieved, OwnedBy
<1> QED BY <1>1, <1>2 DEF InstanceInv
-----------------------------------------------------------------------------
(* The steps of a close. *)

LEMMA HandledSound ==
    ASSUME NEW r, Sound(r)
    PROVE  Sound(Handled(r))
  BY HandledKeeps DEF Sound, Connects

LEMMA ClosedStep ==
    ASSUME InstanceInv, NEW f \in Fences, NEW code \in Codes, NEW expected \in BOOLEAN,
           Closed(f, code, expected)
    PROVE  InstanceInv'
<1> DEFINE r == runner[f]
           d == ApplyDisconnect(r, code, expected)
           auto == code \in AutoReconnect
           next == IF code = "logout" THEN "purge" ELSE "write"
           n == [d EXCEPT !.sock = "closed", !.handled = TRUE, !.auto = auto, !.closing = next]
<1>1. Sound(r) /\ r \in Runners
  BY DEF InstanceInv
<1>2. /\ r.sock # "none" /\ r.closing = "no" /\ ~r.handled
      /\ Update(f, n) /\ UNCHANGED <<row, lease>>
  BY DEF Closed, SingleFlight
<1> HIDE DEF r
<1>3. r.sock \in {"opening", "open"} /\ r.timers \in Nat
  BY <1>1, <1>2 DEF Sound, Runners
<1>4. r.timers = 0 /\ ~r.building /\ ~r.silent
  BY <1>1, <1>2, <1>3 DEF Sound, Connects
<1>5. /\ d \in Runners /\ d.pc = r.pc /\ d.health = r.health
      /\ d.timers = r.timers /\ d.building = r.building
      /\ d.silent /\ d.verdict = "connected" => r.health = "connected"
  BY <1>1, <1>4, Verdict
<1>6. auto \in BOOLEAN /\ next \in {"purge", "write"}
  OBVIOUS
<1> HIDE DEF d, auto, next
<1>7. /\ n \in Runners /\ n.pc = d.pc /\ n.health = d.health /\ n.timers = d.timers
      /\ n.building = d.building /\ n.silent = d.silent /\ n.verdict = d.verdict
      /\ n.sock = "closed" /\ n.handled /\ n.closing = next
  <2> DEFINE a == [d EXCEPT !.sock = "closed"]
             b == [a EXCEPT !.handled = TRUE]
             c == [b EXCEPT !.auto = auto]
  <2>1. /\ a \in Runners /\ a.pc = d.pc /\ a.health = d.health /\ a.timers = d.timers
        /\ a.building = d.building /\ a.silent = d.silent /\ a.verdict = d.verdict
        /\ a.sock = "closed"
    BY <1>5 DEF Runners
  <2> HIDE DEF a
  <2>2. /\ b \in Runners /\ b.pc = a.pc /\ b.health = a.health /\ b.timers = a.timers
        /\ b.building = a.building /\ b.silent = a.silent /\ b.verdict = a.verdict
        /\ b.sock = a.sock /\ b.handled = TRUE
    BY <2>1 DEF Runners
  <2> HIDE DEF b
  <2>3. /\ c \in Runners /\ c.pc = b.pc /\ c.health = b.health /\ c.timers = b.timers
        /\ c.building = b.building /\ c.silent = b.silent /\ c.verdict = b.verdict
        /\ c.sock = b.sock /\ c.handled = b.handled
    BY <1>6, <2>2 DEF Runners
  <2> HIDE DEF c
  <2>4. n = [c EXCEPT !.closing = next]
    BY <1>5 DEF a, b, c, Runners
  <2>5. LET e == [c EXCEPT !.closing = next]
        IN /\ e \in Runners /\ e.pc = c.pc /\ e.health = c.health /\ e.timers = c.timers
           /\ e.building = c.building /\ e.silent = c.silent /\ e.verdict = c.verdict
           /\ e.sock = c.sock /\ e.handled = c.handled /\ e.closing = next
    BY <1>6, <2>3 DEF Runners
  <2> HIDE DEF n
  <2> QED BY <2>1, <2>2, <2>3, <2>4, <2>5
<1> HIDE DEF n
<1>8. Sound(n)
  BY <1>4, <1>5, <1>6, <1>7 DEF Sound, Connects
<1>9. n.pc = runner[f].pc /\ n.health = runner[f].health
  BY <1>5, <1>7 DEF r
<1> QED BY <1>2, <1>8, <1>9, QuietStep

LEMMA ClosePurgeStep ==
    ASSUME InstanceInv, NEW f \in Fences, ClosePurge(f)
    PROVE  InstanceInv'
<1> DEFINE r == runner[f]
           n == [r EXCEPT !.closing = "write"]
<1>1. Sound(r) /\ r \in Runners /\ row \in Rows /\ r.closing = "purge"
  BY DEF InstanceInv, ClosePurge
<1>2. CASE OwnedBy(f)
  <2>1. /\ row' = [row EXCEPT !.health = "logged_out", !.link = "unlinked"]
        /\ Update(f, n) /\ lease' = lease
    BY <1>2 DEF ClosePurge
  <2>2. row' \in Rows /\ row'.health = "logged_out"
    BY <1>1, <2>1 DEF Rows, Healths, Links
  <2>3. /\ n \in Runners /\ n.pc = r.pc /\ n.health = r.health /\ n.sock = r.sock
        /\ n.handled = r.handled /\ n.auto = r.auto /\ n.building = r.building
        /\ n.timers = r.timers /\ n.silent = r.silent /\ n.verdict = r.verdict
        /\ n.closing = "write"
    BY <1>1 DEF Runners
  <2> HIDE DEF n, r
  <2>4. Sound(n)
    BY <1>1, <2>3 DEF Sound, Connects
  <2> QED BY <1>2, <2>1, <2>2, <2>4, OwnerStep
<1>3. CASE ~OwnedBy(f)
  <2>1. Update(f, Handled(r)) /\ UNCHANGED <<row, lease>>
    BY <1>3 DEF ClosePurge
  <2>2. Sound(Handled(r)) /\ Handled(r).pc = r.pc /\ Handled(r).health = r.health
    BY <1>1, HandledKeeps, HandledSound
  <2> QED BY <2>1, <2>2, QuietStep
<1> QED BY <1>2, <1>3

LEMMA HealthSet ==
    ASSUME NEW s \in Runners, NEW h \in Healths
    PROVE  LET t == [s EXCEPT !.health = h]
           IN /\ t \in Runners /\ t.health = h /\ t.timers = s.timers
              /\ t.pc = s.pc /\ t.sock = s.sock
              /\ t.handled = s.handled /\ t.auto = s.auto /\ t.building = s.building
              /\ t.silent = s.silent /\ t.closing = s.closing /\ t.verdict = s.verdict
  BY DEF Runners

LEMMA CloseWriteStep ==
    ASSUME InstanceInv, NEW f \in Fences, CloseWrite(f)
    PROVE  InstanceInv'
<1> DEFINE r == runner[f]
           h == IF r.silent THEN r.health ELSE r.verdict
           n == [r EXCEPT !.health = h]
<1>1. Sound(r) /\ r \in Runners /\ row \in Rows /\ r.closing = "write"
  BY DEF InstanceInv, CloseWrite
<1>2. CASE OwnedBy(f)
  <2>1. /\ row' = [row EXCEPT !.health = r.verdict,
                              !.link = IF r.verdict = "logged_out" /\ ~r.silent
                                       THEN "unlinked" ELSE @]
        /\ Update(f, Scheduled(n)) /\ lease' = lease
    BY <1>1, <1>2 DEF CloseWrite
  <2>2. row' \in Rows /\ row'.health = r.verdict
    BY <1>1, <2>1 DEF Rows, Healths, Links, Runners
  <2>3. h \in Healths /\ (r.verdict = "connected" => h = "connected")
    BY <1>1 DEF Runners, Sound
  <2> HIDE DEF h
  <2>4. /\ n \in Runners /\ n.health = h /\ n.timers = r.timers /\ n.sock = r.sock
        /\ n.handled = r.handled /\ n.building = r.building
    BY <1>1, <2>3, HealthSet
  <2> HIDE DEF n, r
  <2>5. n.timers = 0 /\ ~n.building /\ n.sock = "closed" /\ n.handled
    BY <1>1, <2>4 DEF Sound
  <2>6. Sound(Scheduled(n)) /\ Scheduled(n).health = n.health
    BY <2>4, <2>5, ScheduledKeeps
  <2> QED BY <1>2, <2>1, <2>2, <2>3, <2>4, <2>6, OwnerStep
<1>3. CASE ~OwnedBy(f)
  <2>1. Update(f, Handled(r)) /\ UNCHANGED <<row, lease>>
    BY <1>3 DEF CloseWrite
  <2>2. Sound(Handled(r)) /\ Handled(r).pc = r.pc /\ Handled(r).health = r.health
    BY <1>1, HandledKeeps, HandledSound
  <2> QED BY <2>1, <2>2, QuietStep
<1> QED BY <1>2, <1>3

LEMMA GiveUpStep ==
    ASSUME InstanceInv, NEW f \in Fences, GiveUp(f)
    PROVE  InstanceInv'
<1> DEFINE r == runner[f]
           h == Handled(r)
           n == [h EXCEPT !.health = "paused"]
           pc == IF r.pc = "live" THEN "releasing" ELSE r.pc
<1>1. Sound(r) /\ r \in Runners /\ row \in Rows
  BY DEF InstanceInv
<1>2. Sound(h) /\ h \in Runners /\ h.pc = r.pc /\ h.health = r.health /\ ~h.silent
  BY <1>1, HandledKeeps, HandledSound
<1>3. CASE OwnedBy(f)
  <2>1. /\ row' = [row EXCEPT !.health = "paused"] /\ Update(f, TornDown(n, pc)) /\ lease' = lease
    BY <1>3 DEF GiveUp
  <2>2. row' \in Rows /\ row'.health = "paused"
    BY <1>1, <2>1 DEF Rows, Healths
  <2>3. pc \in {"live", "releasing", "down", "unborn"}
    BY <1>1 DEF Runners
  <2> HIDE DEF h, pc, r
  <2>4. "paused" \in Healths
    BY DEF Healths
  <2>5. /\ n \in Runners /\ n.timers = h.timers /\ n.sock = h.sock
        /\ n.handled = h.handled /\ n.auto = h.auto /\ n.building = h.building
        /\ n.silent = h.silent /\ n.closing = h.closing
    BY <1>2, <2>4, HealthSet
  <2> HIDE DEF n
  <2>6. Sound(n)
    BY <1>2, <2>5 DEF Sound, Connects
  <2>7. Sound(TornDown(n, pc))
    BY <2>3, <2>6, TornDownKeeps
  <2> QED BY <1>3, <2>1, <2>2, <2>7, OwnerStep
<1>4. CASE ~OwnedBy(f)
  <2>1. Update(f, h) /\ UNCHANGED <<row, lease>>
    BY <1>4 DEF GiveUp
  <2> QED BY <1>2, <2>1, QuietStep
<1> QED BY <1>3, <1>4
-----------------------------------------------------------------------------
(* The steps of a connect. *)

LEMMA StartStep ==
    ASSUME InstanceInv, NEW f \in Fences, Start(f)
    PROVE  InstanceInv'
<1> DEFINE h == row.health
           n == [Unborn EXCEPT !.pc = "live", !.timers = 1, !.health = h]
<1>1. lease' = [fence |-> f, owned |-> TRUE] /\ Update(f, n) /\ row' = row
  BY DEF Start
<1>2. row \in Rows /\ h \in Healths
  BY DEF InstanceInv, Rows
<1> HIDE DEF h
<1>3. /\ n \in Runners /\ n.pc = "live" /\ n.timers = 1 /\ n.health = h
      /\ n.sock = "none" /\ ~n.building /\ n.closing = "no" /\ ~n.silent
  BY <1>2 DEF Unborn, Runners, Healths
<1> HIDE DEF n
<1>4. Sound(n)
  BY <1>3 DEF Sound, Connects
<1>5. /\ runner' \in [Fences -> Runners] /\ \A g \in Fences : Sound(runner[g])'
      /\ runner'[f].pc = "live" => runner'[f] = n
  BY <1>1, <1>4, UpdateKeeps DEF InstanceInv
<1>6. \A g \in Fences : OwnedBy(g)' => g = f
  BY <1>1 DEF OwnedBy
<1>7. ConnectedIsBelieved'
  BY <1>1, <1>3, <1>5, <1>6 DEF ConnectedIsBelieved, h
<1>8. lease' \in [fence : 0 .. MaxFence, owned : BOOLEAN]
  BY <1>1, InstanceAssumption DEF Fences
<1> QED BY <1>1, <1>2, <1>5, <1>7, <1>8 DEF InstanceInv

LEMMA PassGateStep ==
    ASSUME InstanceInv, NEW f \in Fences, PassGate(f)
    PROVE  InstanceInv'
<1> DEFINE r == runner[f]
           t == r.timers - 1
           b == r.building \/ (~r.ended /\ r.pc = "live")
           m == [r EXCEPT !.timers = t]
           n == [m EXCEPT !.building = b]
<1>1. Sound(r) /\ r \in Runners /\ r.timers \in Nat /\ r.timers > 0
  BY DEF InstanceInv, PassGate, Runners
<1>2. Update(f, n) /\ UNCHANGED <<row, lease>>
  <2>1. [r EXCEPT !.timers = @ - 1,
                  !.building = @ \/ (~r.ended /\ r.pc = "live")] = n
    BY <1>1 DEF Runners
  <2> QED BY <2>1 DEF PassGate
<1>3. t \in Nat /\ b \in BOOLEAN
  BY <1>1
<1> HIDE DEF b
<1>4. /\ m \in Runners /\ m.timers = t
      /\ m.pc = r.pc /\ m.health = r.health /\ m.sock = r.sock
      /\ m.handled = r.handled /\ m.auto = r.auto /\ m.building = r.building
      /\ m.silent = r.silent /\ m.closing = r.closing /\ m.verdict = r.verdict
  BY <1>1, <1>3, TimersSet
<1> HIDE DEF m
<1>5. /\ n \in Runners /\ n.timers = m.timers /\ n.building = b
      /\ n.pc = m.pc /\ n.health = m.health /\ n.sock = m.sock
      /\ n.handled = m.handled /\ n.auto = m.auto
      /\ n.silent = m.silent /\ n.closing = m.closing /\ n.verdict = m.verdict
  BY <1>3, <1>4 DEF Runners
<1> HIDE DEF n
<1>6. ~r.building /\ r.timers = 1 /\ r.sock \notin {"opening", "open"} /\ r.closing = "no"
  BY <1>1 DEF Sound, Connects
<1>7. r.sock = "closed" => r.auto
  BY <1>1 DEF Sound
<1> HIDE DEF r
<1>8. Connects(n) <= 1
  BY <1>4, <1>5, <1>6 DEF Connects
<1>9. Sound(n)
  BY <1>1, <1>4, <1>5, <1>6, <1>7, <1>8 DEF Sound
<1>10. n.pc = runner[f].pc /\ n.health = runner[f].health
  BY <1>4, <1>5 DEF r
<1> QED BY <1>2, <1>9, <1>10, QuietStep

LEMMA BuildStep ==
    ASSUME InstanceInv, NEW f \in Fences, Build(f)
    PROVE  InstanceInv'
<1> DEFINE r == runner[f]
           a == [r EXCEPT !.building = FALSE]
           b == [a EXCEPT !.sock = "opening"]
           c == [b EXCEPT !.auto = FALSE]
           d == [c EXCEPT !.ended = FALSE]
           n == [d EXCEPT !.handled = FALSE]
<1>1. Sound(r) /\ r \in Runners /\ r.timers \in Nat /\ r.building
  BY DEF InstanceInv, Build, Runners
<1>2. Update(f, n) /\ UNCHANGED <<row, lease>>
  <2>1. [r EXCEPT !.building = FALSE, !.sock = "opening", !.auto = FALSE,
                  !.ended = FALSE, !.handled = FALSE] = n
    BY <1>1 DEF Runners
  <2> QED BY <2>1 DEF Build
<1>3. r.timers = 0 /\ r.closing = "no"
  BY <1>1 DEF Sound, Connects
<1>4. /\ a \in Runners /\ a.timers = r.timers /\ a.pc = r.pc /\ a.health = r.health
      /\ a.building = FALSE /\ a.silent = r.silent /\ a.closing = r.closing
  BY <1>1 DEF Runners
<1> HIDE DEF a
<1>5. /\ b \in Runners /\ b.timers = a.timers /\ b.pc = a.pc /\ b.health = a.health
      /\ b.building = a.building /\ b.silent = a.silent /\ b.closing = a.closing
      /\ b.sock = "opening"
  BY <1>4 DEF Runners
<1> HIDE DEF b
<1>6. /\ c \in Runners /\ c.timers = b.timers /\ c.pc = b.pc /\ c.health = b.health
      /\ c.building = b.building /\ c.silent = b.silent /\ c.closing = b.closing
      /\ c.sock = b.sock
  BY <1>5 DEF Runners
<1> HIDE DEF c
<1>7. /\ d \in Runners /\ d.timers = c.timers /\ d.pc = c.pc /\ d.health = c.health
      /\ d.building = c.building /\ d.silent = c.silent /\ d.closing = c.closing
      /\ d.sock = c.sock
  BY <1>6 DEF Runners
<1> HIDE DEF d
<1>8. /\ n \in Runners /\ n.timers = d.timers /\ n.pc = d.pc /\ n.health = d.health
      /\ n.building = d.building /\ n.silent = d.silent /\ n.closing = d.closing
      /\ n.sock = d.sock
  BY <1>7 DEF Runners
<1> HIDE DEF n
<1>9. /\ n.timers = 0 /\ n.building = FALSE /\ n.silent = r.silent /\ n.closing = "no"
      /\ n.sock = "opening" /\ n.pc = r.pc /\ n.health = r.health
  BY <1>3, <1>4, <1>5, <1>6, <1>7, <1>8
<1>10. ~r.silent
  BY <1>1, <1>3 DEF Sound
<1>11. Sound(n)
  BY <1>8, <1>9, <1>10 DEF Sound, Connects
<1> QED BY <1>2, <1>9, <1>11, QuietStep

LEMMA OpenedStep ==
    ASSUME InstanceInv, NEW f \in Fences, Opened(f)
    PROVE  InstanceInv'
<1> DEFINE r == runner[f]
           n == [r EXCEPT !.sock = "open", !.saving = TRUE]
<1>1. Sound(r) /\ r \in Runners /\ r.sock = "opening"
  BY DEF InstanceInv, Opened
<1>2. Update(f, n) /\ UNCHANGED <<row, lease>>
  BY DEF Opened
<1> HIDE DEF r
<1>3. /\ n \in Runners /\ n.timers = r.timers /\ n.pc = r.pc /\ n.health = r.health
      /\ n.building = r.building /\ n.silent = r.silent /\ n.closing = r.closing
      /\ n.verdict = r.verdict /\ n.sock = "open"
  BY <1>1 DEF Runners
<1> HIDE DEF n
<1>4. Sound(n)
  BY <1>1, <1>3 DEF Sound, Connects
<1>5. n.pc = runner[f].pc /\ n.health = runner[f].health
  BY <1>3 DEF r
<1> QED BY <1>2, <1>4, <1>5, QuietStep

LEMMA MarkConnectedStep ==
    ASSUME InstanceInv, NEW f \in Fences, MarkConnected(f)
    PROVE  InstanceInv'
<1> DEFINE r == runner[f]
           s == [r EXCEPT !.saving = FALSE]
<1>1. Sound(r) /\ r \in Runners /\ row \in Rows
  BY DEF InstanceInv
<1>2. /\ s \in Runners /\ s.timers = r.timers /\ s.pc = r.pc /\ s.health = r.health
      /\ s.building = r.building /\ s.silent = r.silent /\ s.closing = r.closing
      /\ s.verdict = r.verdict /\ s.sock = r.sock /\ s.handled = r.handled
      /\ s.auto = r.auto /\ s.attempt = r.attempt
  BY <1>1 DEF Runners
<1>3. CASE OwnedBy(f)
  <2>1. PICK long \in BOOLEAN :
          Update(f, [r EXCEPT !.saving = FALSE, !.health = "connected",
                              !.opened = TRUE,
                              !.attempt = IF r.opened /\ long THEN 0 ELSE @])
    BY <1>3 DEF MarkConnected
  <2> DEFINE k == IF r.opened /\ long THEN 0 ELSE r.attempt
             t == [s EXCEPT !.health = "connected"]
             o == [t EXCEPT !.opened = TRUE]
             n == [o EXCEPT !.attempt = k]
  <2>2. Update(f, n)
    <3>1. [r EXCEPT !.saving = FALSE, !.health = "connected", !.opened = TRUE,
                    !.attempt = IF r.opened /\ long THEN 0 ELSE @] = n
      BY <1>1 DEF Runners
    <3> QED BY <2>1, <3>1
  <2>3. row' = [row EXCEPT !.link = "linked", !.health = "connected"] /\ lease' = lease
    BY <1>3 DEF MarkConnected
  <2>4. row' \in Rows
    BY <1>1, <2>3 DEF Rows, Healths, Links
  <2>5. k \in Nat /\ "connected" \in Healths
    BY <1>1 DEF Runners, Healths
  <2> HIDE DEF k, s
  <2>6. /\ t \in Runners /\ t.health = "connected" /\ t.timers = s.timers
        /\ t.pc = s.pc /\ t.sock = s.sock
        /\ t.handled = s.handled /\ t.auto = s.auto /\ t.building = s.building
        /\ t.silent = s.silent /\ t.closing = s.closing /\ t.verdict = s.verdict
    BY <1>2, <2>5, HealthSet
  <2> HIDE DEF t
  <2>7. /\ o \in Runners /\ o.timers = t.timers /\ o.pc = t.pc /\ o.health = t.health
        /\ o.building = t.building /\ o.silent = t.silent /\ o.closing = t.closing
        /\ o.verdict = t.verdict /\ o.sock = t.sock /\ o.handled = t.handled
        /\ o.auto = t.auto
    BY <2>6 DEF Runners
  <2> HIDE DEF o
  <2>8. /\ n \in Runners /\ n.timers = o.timers /\ n.pc = o.pc /\ n.health = o.health
        /\ n.building = o.building /\ n.silent = o.silent /\ n.closing = o.closing
        /\ n.verdict = o.verdict /\ n.sock = o.sock /\ n.handled = o.handled
        /\ n.auto = o.auto
    BY <2>5, <2>7 DEF Runners
  <2> HIDE DEF n, r
  <2>9. /\ n.timers = r.timers /\ n.health = "connected"
        /\ n.building = r.building /\ n.silent = r.silent /\ n.closing = r.closing
        /\ n.verdict = r.verdict /\ n.sock = r.sock /\ n.handled = r.handled
        /\ n.auto = r.auto
    BY <1>2, <2>6, <2>7, <2>8
  <2>10. Sound(n)
    BY <1>1, <2>8, <2>9 DEF Sound, Connects
  <2> QED BY <1>3, <2>2, <2>3, <2>4, <2>9, <2>10, OwnerStep
<1>4. CASE ~OwnedBy(f)
  <2>1. Update(f, s) /\ UNCHANGED <<row, lease>>
    BY <1>4 DEF MarkConnected
  <2> HIDE DEF s
  <2>2. Sound(s)
    BY <1>1, <1>2 DEF Sound, Connects
  <2> QED BY <1>2, <2>1, <2>2, QuietStep
<1> QED BY <1>3, <1>4

LEMMA PairingExpiresStep ==
    ASSUME InstanceInv, NEW f \in Fences, PairingExpires(f)
    PROVE  InstanceInv'
<1> DEFINE r == runner[f]
           pc == IF r.pc = "live" THEN "releasing" ELSE r.pc
<1>1. Sound(r) /\ r \in Runners /\ row \in Rows
  BY DEF InstanceInv
<1>2. /\ OwnedBy(f) /\ row' = [row EXCEPT !.link = "unlinked"]
      /\ Update(f, TornDown(r, pc)) /\ lease' = lease
  BY DEF PairingExpires
<1>3. row' \in Rows
  BY <1>1, <1>2 DEF Rows, Links
<1>4. pc \in {"live", "releasing", "down", "unborn"} /\ pc # "live"
  BY <1>1 DEF Runners
<1> HIDE DEF pc
<1>5. Sound(TornDown(r, pc)) /\ TornDown(r, pc).pc # "live"
  BY <1>1, <1>4, TornDownKeeps
<1> QED BY <1>2, <1>3, <1>5, OwnerStep

LEMMA DegradeStep ==
    ASSUME InstanceInv, NEW f \in Fences, DegradeKeepSocket(f)
    PROVE  InstanceInv'
<1> DEFINE r == runner[f]
           n == [r EXCEPT !.health = "degraded"]
<1>1. Sound(r) /\ r \in Runners /\ row \in Rows /\ r.sock = "open"
  BY DEF InstanceInv, DegradeKeepSocket
<1>2. /\ OwnedBy(f) /\ row' = [row EXCEPT !.health = "degraded"]
      /\ Update(f, n) /\ lease' = lease
  BY DEF DegradeKeepSocket
<1>3. row' \in Rows /\ row'.health = "degraded"
  BY <1>1, <1>2 DEF Rows, Healths
<1>4. "degraded" \in Healths
  BY DEF Healths
<1> HIDE DEF r
<1>5. /\ n \in Runners /\ n.timers = r.timers /\ n.sock = r.sock
      /\ n.handled = r.handled /\ n.auto = r.auto /\ n.building = r.building
      /\ n.silent = r.silent /\ n.closing = r.closing
  BY <1>1, <1>4, HealthSet
<1> HIDE DEF n
<1>6. ~r.silent
  BY <1>1 DEF Sound, Runners
<1>7. Sound(n)
  BY <1>1, <1>5, <1>6 DEF Sound, Connects
<1> QED BY <1>2, <1>3, <1>7, OwnerStep
-----------------------------------------------------------------------------
(* The steps of an end. *)

LEMMA TeardownStep ==
    ASSUME InstanceInv, NEW f \in Fences, Sweep(f) \/ Drain(f) \/ LoseLease(f)
    PROVE  InstanceInv'
<1>1. PICK pc \in {"releasing", "down"} : Update(f, TornDown(runner[f], pc))
  BY DEF Sweep, Drain, LoseLease
<1>2. Sound(TornDown(runner[f], pc)) /\ TornDown(runner[f], pc).pc = pc
  BY TornDownKeeps DEF InstanceInv
<1>3. UNCHANGED <<row, lease>>
  BY DEF Sweep, Drain, LoseLease
<1> QED BY <1>1, <1>2, <1>3, QuietStep

LEMMA CrashStep ==
    ASSUME InstanceInv, NEW f \in Fences, Crash(f)
    PROVE  InstanceInv'
  BY GoneIsSound, QuietStep DEF Crash

LEMMA ReleaseStep ==
    ASSUME InstanceInv, NEW f \in Fences, Release(f)
    PROVE  InstanceInv'
<1> DEFINE r == runner[f]
           n == [r EXCEPT !.pc = "down"]
<1>1. Sound(r) /\ r \in Runners /\ lease \in [fence : 0 .. MaxFence, owned : BOOLEAN]
  BY DEF InstanceInv
<1>2. /\ lease' = IF OwnedBy(f) THEN [lease EXCEPT !.owned = FALSE] ELSE lease
      /\ Update(f, n) /\ row' = row
  BY DEF Release
<1>3. /\ n \in Runners /\ n.pc = "down" /\ n.timers = r.timers /\ n.health = r.health
      /\ n.building = r.building /\ n.silent = r.silent /\ n.closing = r.closing
      /\ n.verdict = r.verdict /\ n.sock = r.sock /\ n.handled = r.handled
      /\ n.auto = r.auto
  BY <1>1 DEF Runners
<1> HIDE DEF n, r
<1>4. Sound(n)
  BY <1>1, <1>3 DEF Sound, Connects
<1>5. /\ runner' \in [Fences -> Runners] /\ \A g \in Fences : Sound(runner[g])'
      /\ \A g \in Fences : g # f => runner'[g] = runner[g]
      /\ runner'[f].pc = "live" => runner'[f] = n
  BY <1>2, <1>4, UpdateKeeps DEF InstanceInv
<1>6. \A g \in Fences : OwnedBy(g)' => OwnedBy(g)
  BY <1>1, <1>2 DEF OwnedBy
<1>7. ConnectedIsBelieved'
  BY <1>2, <1>3, <1>5, <1>6 DEF InstanceInv, ConnectedIsBelieved
<1>8. lease' \in [fence : 0 .. MaxFence, owned : BOOLEAN]
  BY <1>1, <1>2
<1> QED BY <1>2, <1>5, <1>7, <1>8 DEF InstanceInv

LEMMA OthersStep ==
    ASSUME InstanceInv, Others
    PROVE  InstanceInv'
<1> USE DEF Write, Rows, Healths, Links
<1>1. row \in Rows
  BY DEF InstanceInv
<1>2. UNCHANGED <<lease, runner>>
  BY DEF Others, SignalPause, StaffPause, InfraUnavailable, Resume, BeginPairing, Park, Online
<1>3. row' \in Rows /\ (row'.health = "connected" => row.health = "connected")
  <2>1. CASE SignalPause
    BY <1>1, <2>1 DEF SignalPause
  <2>2. CASE StaffPause
    BY <1>1, <2>2 DEF StaffPause
  <2>3. CASE InfraUnavailable
    BY <1>1, <2>3 DEF InfraUnavailable
  <2>4. CASE Resume
    BY <1>1, <2>4 DEF Resume, Resumed
  <2>5. CASE BeginPairing
    BY <1>1, <2>5 DEF BeginPairing
  <2>6. CASE Park
    BY <1>1, <2>6 DEF Park
  <2>7. CASE Online
    BY <1>1, <2>7 DEF Online
  <2> QED BY <2>1, <2>2, <2>3, <2>4, <2>5, <2>6, <2>7 DEF Others
<1> QED BY <1>2, <1>3, RowStep
-----------------------------------------------------------------------------
(* The invariant. *)

LEMMA Starting ==
    ASSUME Init
    PROVE  InstanceInv
<1>1. row \in Rows
  BY DEF Init, Rows, Healths, Links
<1>2. lease \in [fence : 0 .. MaxFence, owned : BOOLEAN]
  BY InstanceAssumption DEF Init
<1>3. runner \in [Fences -> Runners] /\ \A f \in Fences : Sound(runner[f])
  BY GoneIsSound DEF Init, Sound
<1>4. ConnectedIsBelieved
  BY DEF Init, ConnectedIsBelieved, OwnedBy
<1> QED BY <1>1, <1>2, <1>3, <1>4 DEF InstanceInv

LEMMA Step ==
    ASSUME InstanceInv, [Next]_vars
    PROVE  InstanceInv'
<1>1. ASSUME NEW f \in Fences, Runs(f)
      PROVE  InstanceInv'
  <2>1. CASE \E code \in Codes, expected \in BOOLEAN : Closed(f, code, expected)
    BY <2>1, ClosedStep
  <2>2. CASE ClosePurge(f)
    BY <2>2, ClosePurgeStep
  <2>3. CASE CloseWrite(f)
    BY <2>3, CloseWriteStep
  <2>4. CASE GiveUp(f)
    BY <2>4, GiveUpStep
  <2>5. CASE Start(f)
    BY <2>5, StartStep
  <2>6. CASE PassGate(f)
    BY <2>6, PassGateStep
  <2>7. CASE Build(f)
    BY <2>7, BuildStep
  <2>8. CASE Opened(f)
    BY <2>8, OpenedStep
  <2>9. CASE MarkConnected(f)
    BY <2>9, MarkConnectedStep
  <2>10. CASE PairingExpires(f)
    BY <2>10, PairingExpiresStep
  <2>11. CASE DegradeKeepSocket(f)
    BY <2>11, DegradeStep
  <2>12. CASE Sweep(f) \/ Drain(f) \/ LoseLease(f)
    BY <2>12, TeardownStep
  <2>13. CASE Release(f)
    BY <2>13, ReleaseStep
  <2>14. CASE Crash(f)
    BY <2>14, CrashStep
  <2> QED
    BY <1>1, <2>1, <2>2, <2>3, <2>4, <2>5, <2>6, <2>7, <2>8, <2>9, <2>10, <2>11,
       <2>12, <2>13, <2>14 DEF Runs
<1>2. CASE Others
  BY <1>2, OthersStep
<1>3. CASE UNCHANGED vars
  BY <1>3, RowStep DEF vars, InstanceInv
<1> QED BY <1>1, <1>2, <1>3 DEF Next

LEMMA Invariance == Spec => []InstanceInv
  BY Starting, Step, PTL DEF Spec
-----------------------------------------------------------------------------
(* The theorems. *)

\* The row, the lease and every runner have their types, with timers and counters
\* that never go below zero.
THEOREM TypeCorrect == Spec => []TypeOK
<1>1. InstanceInv => TypeOK
  BY DEF InstanceInv, TypeOK
<1> QED BY <1>1, Invariance, PTL

\* A runner has one connect under way at most: the socket that lives, one that is
\* built, a timer or a close that will set one, whatever closes and opens interleave.
THEOREM OneConnectAtATime == Spec => []OneConnect
<1>1. InstanceInv => OneConnect
  BY DEF InstanceInv, Sound, OneConnect
<1> QED BY <1>1, Invariance, PTL

\* After a restriction, a log out or a replacement no connect comes of itself.
THEOREM RestrictionsHold == Spec => []RestrictedStaysClosed
<1>1. InstanceInv => RestrictedStaysClosed
  BY DEF InstanceInv, Sound, RestrictedStaysClosed
<1> QED BY <1>1, Invariance, PTL

\* Where the row says connected to the queue, the runner that holds the lease and
\* lives believes so too: also when it was a close without a verdict that said it.
THEOREM ConnectedBelieved == Spec => []ConnectedIsBelieved
<1>1. InstanceInv => ConnectedIsBelieved
  BY DEF InstanceInv
<1> QED BY <1>1, Invariance, PTL

\* What a superseded runner still does after an await leaves the row as it is: each
\* of its writes asks for its fence.
THEOREM SupersededIsHarmless == Spec => SupersededChangesNothing
<1> DEFINE Harmless == \A f \in Fences : runner'[f] # runner[f] /\ f < lease.fence => row' = row
<1>1. ASSUME InstanceInv, [Next]_vars
      PROVE  [Harmless]_vars
  <2>1. \A f, g \in Fences : \A r : f # g /\ Update(f, r) => runner'[g] = runner[g]
    BY <1>1 DEF Update, InstanceInv
  <2>2. \A f \in Fences : f < lease.fence => ~OwnedBy(f)
    BY DEF OwnedBy, Fences
  <2>3. ASSUME NEW f \in Fences, Runs(f)
        PROVE  Harmless
    <3>1. \E r : Update(f, r)
      BY <2>3 DEF Runs, Closed, ClosePurge, CloseWrite, GiveUp, Start, PassGate, Build, Opened,
           MarkConnected, PairingExpires, DegradeKeepSocket, Sweep, Drain, Release, LoseLease,
           Crash
    <3>2. f < lease.fence => row' = row
      BY <2>2, <2>3 DEF Runs, Closed, ClosePurge, CloseWrite, GiveUp, Start, PassGate, Build,
           Opened, MarkConnected, PairingExpires, DegradeKeepSocket, Sweep, Drain, Release,
           LoseLease, Crash
    <3> QED BY <2>1, <3>1, <3>2
  <2>4. CASE Others
    <3>1. runner' = runner
      BY <2>4 DEF Others, Write, SignalPause, StaffPause, InfraUnavailable, Resume, BeginPairing,
           Park, Online
    <3> QED BY <3>1
  <2> QED BY <1>1, <2>3, <2>4 DEF Next
<1>2. Spec => [][Harmless]_vars
  BY <1>1, Invariance, PTL DEF Spec
<1> QED BY <1>2 DEF SupersededChangesNothing
=============================================================================
