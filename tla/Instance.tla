------------------------------ MODULE Instance ------------------------------
(***************************************************************************)
(* One WhatsApp instance: its whatsapp_instances row, the session runners  *)
(* that have held its lease one after the other, and the people and sweeps *)
(* that pause, resume, pair and park it.                                   *)
(*                                                                         *)
(* A runner is known by its fence.  It keeps the health and the link it    *)
(* believes in (RunnerSessionState), and every one of its writes of the    *)
(* row asks whether the lease row still has its fence and its worker.  Its *)
(* handlers run between the awaits of each other: an open is one step to   *)
(* the save of the credentials and one after it, a close one step to the   *)
(* side effects, one for each write.  How leases are won and lost is the   *)
(* matter of Lease; here a lease may be lost or taken over at any time.    *)
(***************************************************************************)
EXTENDS Integers

CONSTANTS
    MaxFence,       \* bound: runners, one after the other
    MaxAttempts,    \* MAX_ATTEMPTS of reconnect-policy
    FreeRestarts,   \* 515s that are not counted as unknown
    UnknownLimit    \* the unknown close that pauses

ASSUME InstanceAssumption ==
    /\ MaxFence \in Nat \ {0} /\ MaxAttempts \in Nat /\ FreeRestarts \in Nat
    /\ UnknownLimit \in Nat \ {0}

VARIABLES
    row,      \* the whatsapp_instances row
    lease,    \* current_fence, and whether a worker is named beside it
    runner    \* the runners by fence

vars == <<row, lease, runner>>

Fences == 1 .. MaxFence

-----------------------------------------------------------------------------
(* The row and the runners. *)

Healths == {"never_linked", "connected", "degraded", "paused", "logged_out"}
\* pairing and linked are one: the scan takes both.
Links   == {"unlinked", "linked"}
Rows    == [health : Healths, link : Links, desired : {"online", "offline"}]

\* disconnect-map: 515, 428/408/503, any other, 440, 401/411/500, 402/403/406.
Codes == {"restart", "transient", "unknown", "replaced", "logout", "restriction"}
AutoReconnect == {"restart", "transient", "unknown"}

Runners ==
    [pc : {"unborn", "live", "releasing", "down"},   \* tornDown, releasedLease
     ended : BOOLEAN,                                \* end() was called
     health : Healths,                               \* as it believes
     sock : {"none", "opening", "open", "closed"},
     saving : BOOLEAN,                               \* onOpen awaits saveCreds
     closing : {"no", "purge", "write", "giveup"},   \* handleClose
     verdict : Healths, silent : BOOLEAN,            \* the transition's health
     handled : BOOLEAN,                              \* closeInFlightGeneration
     auto : BOOLEAN,                                 \* the close may reconnect
     timers : Nat, building : BOOLEAN,               \* connects to come
     attempt : Nat, restarts : Nat, unknowns : Nat,
     opened : BOOLEAN]                               \* openedAtMs is set

Unborn == [pc |-> "unborn", ended |-> FALSE, health |-> "never_linked",
           sock |-> "none", saving |-> FALSE, closing |-> "no",
           verdict |-> "never_linked", silent |-> FALSE,
           handled |-> FALSE, auto |-> FALSE, timers |-> 0, building |-> FALSE,
           attempt |-> 0, restarts |-> 0, unknowns |-> 0, opened |-> FALSE]

Init ==
    /\ row = [health |-> "never_linked", link |-> "unlinked",
              desired |-> "offline"]
    /\ lease = [fence |-> 0, owned |-> FALSE]
    /\ runner = [f \in Fences |-> Unborn]

\* Mutant of OwnedBy: the writes ask for the instance and not for the fence.
OwnedByAnyone(f) == lease.owned

\* The EXISTS of every engine write.
OwnedBy(f) == lease = [fence |-> f, owned |-> TRUE]

\* Torn down, with nothing awaited and no event to come: nobody holds it any
\* more, and what it believed is forgotten.
Gone == [Unborn EXCEPT !.pc = "down", !.ended = TRUE]
Finished(r) ==
    /\ r.pc = "down" /\ r.closing = "no" /\ r.timers = 0
    /\ ~r.saving /\ ~r.building /\ (r.sock = "none" \/ r.handled)

Update(f, r) ==
    runner' = [runner EXCEPT ![f] = IF Finished(r) THEN Gone ELSE r]

-----------------------------------------------------------------------------
(* Disconnects. *)

\* end() and the flag; Baileys answers it with a close that has no code.
EndSocket(r) == [r EXCEPT !.ended = TRUE]

\* A transition without a health: what was believed is written again.
Silent(r) == [r EXCEPT !.verdict = r.health, !.silent = TRUE]

\* Mutant of ApplyUnknown: a health the enum wa_health does not have.
ApplyUnknownNamed(r) == [r EXCEPT !.verdict = "unknown"]

ApplyUnknown(r) ==
    IF r.unknowns + 1 < UnknownLimit
    THEN [r EXCEPT !.unknowns = @ + 1, !.verdict = "degraded"]
    ELSE [r EXCEPT !.verdict = "paused"]

\* applyDisconnect of what toFsmRow makes of the code: the rows with a backoff
\* come out as the action 'reconnect', for which it has no case but the default.
\* The counters stop at the last value that is told apart.
ApplyDisconnect(r, code, expected) ==
    LET free == code = "restart" /\ r.restarts < FreeRestarts IN
    CASE free -> Silent([r EXCEPT !.restarts = @ + 1])
      [] ~free /\ code \in {"restart", "unknown"} -> ApplyUnknown(r)
      [] code = "replaced" /\ expected ->
             Silent(EndSocket(r))
      [] code = "logout" -> [r EXCEPT !.verdict = "logged_out"]
      [] OTHER -> [r EXCEPT !.verdict = "paused"]

\* Mutant of SingleFlight: a close that comes again is handled again.
SingleFlightNot(r) == TRUE

\* closeInFlightGeneration.
SingleFlight(r) == ~r.handled

\* A close event: the socket's own, its repetition, or the answer to end().
\* Neither ended nor tornDown is asked for.
Closed(f, code, expected) ==
    /\ runner[f].sock # "none"
    /\ runner[f].ended => code = "unknown"
    /\ expected => code = "replaced"
    /\ SingleFlight(runner[f]) /\ runner[f].closing = "no"
    /\ LET r == ApplyDisconnect(runner[f], code, expected)
       IN Update(f, [r EXCEPT !.sock = "closed", !.handled = TRUE,
                              !.auto = code \in AutoReconnect,
                              !.closing = IF code = "logout" THEN "purge" ELSE "write"])
    /\ UNCHANGED <<row, lease>>

\* The handler is done with the transition.
Handled(r) == [r EXCEPT !.closing = "no", !.verdict = Unborn.verdict, !.silent = FALSE]

\* runLoggedOutFlow; a lost fence is logged and ends the handler.
ClosePurge(f) ==
    /\ runner[f].closing = "purge"
    /\ IF OwnedBy(f)
       THEN /\ row' = [row EXCEPT !.health = "logged_out", !.link = "unlinked"]
            /\ Update(f, [runner[f] EXCEPT !.closing = "write"])
       ELSE UNCHANGED row /\ Update(f, Handled(runner[f]))
    /\ UNCHANGED lease

\* Mutant of Scheduled: beyond the budget nothing is done.
ScheduledWithin(r) ==
    IF r.auto /\ r.attempt + 1 <= MaxAttempts
    THEN [Handled(r) EXCEPT !.attempt = @ + 1, !.timers = @ + 1] ELSE Handled(r)

\* scheduleReconnectOrGiveUp.
Scheduled(r) ==
    CASE ~r.auto -> Handled(r)
      [] r.auto /\ r.attempt + 1 > MaxAttempts -> [Handled(r) EXCEPT !.closing = "giveup"]
      [] OTHER -> [Handled(r) EXCEPT !.attempt = @ + 1, !.timers = @ + 1]

\* applyEngineTransition, then the belief, then the schedule.
CloseWrite(f) ==
    LET r == runner[f]
    IN /\ r.closing = "write"
       /\ IF OwnedBy(f)
          THEN /\ row' = [row EXCEPT !.health = r.verdict,
                                     !.link = IF r.verdict = "logged_out" /\ ~r.silent
                                              THEN "unlinked" ELSE @]
               /\ Update(f, Scheduled([r EXCEPT !.health =
                                           IF r.silent THEN @ ELSE r.verdict]))
          ELSE UNCHANGED row /\ Update(f, Handled(r))
       /\ UNCHANGED lease

\* teardown: nothing waits any more but what has passed the gate.
TornDown(r, pc) == [EndSocket(r) EXCEPT !.pc = pc, !.timers = 0]

\* RECONNECT_FAILED, then teardownWithRelease.
GiveUp(f) ==
    LET r == runner[f]
    IN /\ r.closing = "giveup"
       /\ IF OwnedBy(f)
          THEN /\ row' = [row EXCEPT !.health = "paused"]
               /\ Update(f, TornDown([Handled(r) EXCEPT !.health = "paused"],
                                     IF r.pc = "live" THEN "releasing" ELSE r.pc))
          ELSE UNCHANGED row /\ Update(f, Handled(r))
       /\ UNCHANGED lease

-----------------------------------------------------------------------------
(* Connecting. *)

\* Discovery's scan and grab, then start: the row is read once.  A lease that
\* is taken from an owner is one it has stopped renewing (see Lease).
Start(f) ==
    /\ f = lease.fence + 1
    /\ row.desired = "online" /\ row.link # "unlinked" /\ row.health # "logged_out"
    /\ lease' = [fence |-> f, owned |-> TRUE]
    /\ Update(f, [Unborn EXCEPT !.pc = "live", !.timers = 1, !.health = row.health])
    /\ UNCHANGED row

\* The deferred first open, or a reconnect timer: through the connect gate.
PassGate(f) ==
    LET r == runner[f]
    IN /\ r.timers > 0
       /\ Update(f, [r EXCEPT !.timers = @ - 1,
                              !.building = @ \/ (~r.ended /\ r.pc = "live")])
       /\ UNCHANGED <<row, lease>>

\* buildAndWireSocket after its awaits, which looks at nothing again.
Build(f) ==
    /\ runner[f].building
    /\ Update(f, [runner[f] EXCEPT !.building = FALSE, !.sock = "opening", !.auto = FALSE,
                                   !.ended = FALSE, !.handled = FALSE])
    /\ UNCHANGED <<row, lease>>

Opened(f) ==
    /\ runner[f].sock = "opening" /\ ~runner[f].ended
    /\ Update(f, [runner[f] EXCEPT !.sock = "open", !.saving = TRUE])
    /\ UNCHANGED <<row, lease>>

\* onOpen after saveCreds: what happened while it waited is not looked at.
\* Whether the time since the last open is past the threshold is not known.
MarkConnected(f) ==
    LET r == runner[f]
    IN /\ r.saving
       /\ IF OwnedBy(f)
          THEN /\ row' = [row EXCEPT !.link = "linked", !.health = "connected"]
               /\ \E long \in BOOLEAN :
                    Update(f, [r EXCEPT !.saving = FALSE, !.health = "connected",
                                        !.opened = TRUE,
                                        !.attempt = IF r.opened /\ long THEN 0 ELSE @])
          ELSE UNCHANGED row /\ Update(f, [r EXCEPT !.saving = FALSE])
       /\ UNCHANGED lease

\* A QR code beyond the limit of codes or of time: the socket is ended and
\* pairing has expired.
PairingExpires(f) ==
    LET r == runner[f]
    IN /\ r.sock = "opening" /\ ~r.ended /\ OwnedBy(f)
       /\ row' = [row EXCEPT !.link = "unlinked"]
       /\ Update(f, TornDown(r, IF r.pc = "live" THEN "releasing" ELSE r.pc))
       /\ UNCHANGED lease

\* A Signal-tier write failed: degraded, and the socket stays.
DegradeKeepSocket(f) ==
    /\ runner[f].pc = "live" /\ runner[f].sock = "open" /\ OwnedBy(f)
    /\ row' = [row EXCEPT !.health = "degraded"]
    /\ Update(f, [runner[f] EXCEPT !.health = "degraded"])
    /\ UNCHANGED lease

-----------------------------------------------------------------------------
(* The end of a runner. *)

\* Mutant of Sweep: it looks at connected sessions.
SweepConnected(f) ==
    /\ runner[f].pc = "live" /\ row.desired # "online" /\ runner[f].health = "connected"
    /\ Update(f, TornDown(runner[f], "releasing"))
    /\ UNCHANGED <<row, lease>>

\* The sweep finds the instance parked.
Sweep(f) ==
    /\ runner[f].pc = "live" /\ row.desired # "online"
    /\ Update(f, TornDown(runner[f], "releasing"))
    /\ UNCHANGED <<row, lease>>

\* Drain or shed.
Drain(f) ==
    /\ runner[f].pc = "live"
    /\ Update(f, TornDown(runner[f], "releasing"))
    /\ UNCHANGED <<row, lease>>

\* The release that ends a teardown, after the flush of the credentials.
Release(f) ==
    /\ runner[f].pc = "releasing"
    /\ lease' = IF OwnedBy(f) THEN [lease EXCEPT !.owned = FALSE] ELSE lease
    /\ Update(f, [runner[f] EXCEPT !.pc = "down"])
    /\ UNCHANGED row

\* onFenceLost, or a handler that failed: without release.
LoseLease(f) ==
    /\ runner[f].pc = "live"
    /\ Update(f, TornDown(runner[f], "down"))
    /\ UNCHANGED <<row, lease>>

\* Its worker is gone.
Crash(f) ==
    /\ runner[f].pc # "unborn"
    /\ Update(f, Gone)
    /\ UNCHANGED <<row, lease>>

-----------------------------------------------------------------------------
(* Pauses, and the people. *)

Write(r) == row' = r /\ UNCHANGED <<lease, runner>>

\* pauseInstanceForResult and applyHardSignalPause: whatever the health was.
SignalPause == Write([row EXCEPT !.health = "paused"])

\* staffPause under FOR UPDATE.
StaffPause ==
    /\ row.health \in {"connected", "degraded"}
    /\ Write([row EXCEPT !.health = "paused"])

\* Discovery could not place an instance that has no fresh owner.
InfraUnavailable ==
    /\ \A f \in Fences : OwnedBy(f) => runner[f].pc # "live"
    /\ Write([row EXCEPT !.health = "degraded"])

\* Mutant of Resumed: a resumed instance is said to be connected.
ResumedConnected(r) == [r EXCEPT !.health = "connected"]

\* humanResume.
Resumed(r) == [r EXCEPT !.health = "degraded"]

\* Of the client or of staff; what they read before does not gate the write.
Resume ==
    /\ row.health = "paused"
    /\ Write(Resumed(row))

BeginPairing == Write([row EXCEPT !.desired = "online", !.link = "linked"])

Park ==
    /\ row.desired = "online"
    /\ Write([row EXCEPT !.desired = "offline"])

Online ==
    /\ row.desired = "offline"
    /\ Write([row EXCEPT !.desired = "online"])

-----------------------------------------------------------------------------
Runs(f) ==
    \/ \E code \in Codes, expected \in BOOLEAN : Closed(f, code, expected)
    \/ ClosePurge(f) \/ CloseWrite(f) \/ GiveUp(f)
    \/ Start(f) \/ PassGate(f) \/ Build(f) \/ Opened(f) \/ MarkConnected(f)
    \/ PairingExpires(f) \/ DegradeKeepSocket(f)
    \/ Sweep(f) \/ Drain(f) \/ Release(f) \/ LoseLease(f) \/ Crash(f)

Others ==
    \/ SignalPause \/ StaffPause \/ InfraUnavailable \/ Resume
    \/ BeginPairing \/ Park \/ Online

Next == (\E f \in Fences : Runs(f)) \/ Others

Spec == Init /\ [][Next]_vars

\* Handlers return, timers fire, the gate lets through, sockets are built, the
\* sweep comes round, and the heartbeat tells a superseded runner.
Fairness ==
    \A f \in Fences :
        /\ WF_vars(ClosePurge(f)) /\ WF_vars(CloseWrite(f)) /\ WF_vars(GiveUp(f))
        /\ WF_vars(PassGate(f)) /\ WF_vars(Build(f)) /\ WF_vars(MarkConnected(f))
        /\ WF_vars(Sweep(f)) /\ WF_vars(Release(f))
        /\ WF_vars(LoseLease(f) /\ ~OwnedBy(f))

FairSpec == Spec /\ Fairness

-----------------------------------------------------------------------------
(* Safety. *)

TypeOK ==
    /\ row \in Rows
    /\ lease \in [fence : 0 .. MaxFence, owned : BOOLEAN]
    /\ runner \in [Fences -> Runners]

\* A runner whose lease has gone to another changes nothing of the row with
\* what it still has in hand: a close or an open it was handling when it was
\* superseded, a budget it exhausts afterwards, a socket opened too late.
SupersededChangesNothing ==
    [][\A f \in Fences : runner'[f] # runner[f] /\ f < lease.fence => row' = row]_vars

\* After a close that must never reconnect by itself (a restriction, a log out,
\* a session replaced) the runner has no connect to come, however closes and
\* timers follow each other.
RestrictedStaysClosed ==
    \A f \in Fences :
        runner[f].sock = "closed" /\ ~runner[f].auto
            => runner[f].timers = 0 /\ ~runner[f].building

\* A runner never has two connects under way: a socket that lives, one being
\* built, timers, and a close that will schedule one.
Connects(r) == r.timers + (IF r.building THEN 1 ELSE 0)
                 + (IF r.sock \in {"opening", "open"} THEN 1 ELSE 0)
OneConnect == \A f \in Fences : Connects(runner[f]) <= 1

\* The queue claims for a row that says connected; while its owner lives, the
\* owner believes so too and would hand its socket to the send, whoever paused
\* and resumed the instance meanwhile.
ConnectedIsBelieved ==
    \A f \in Fences :
        OwnedBy(f) /\ runner[f].pc = "live" /\ row.health = "connected"
            => runner[f].health = "connected"

(* Liveness. *)

\* A close that may reconnect is answered by a new socket or by the end of the
\* runner: no session stays closed with its lease held.
AutoReconnects ==
    \A f \in Fences :
        runner[f].sock = "closed" /\ runner[f].auto /\ ~runner[f].ended
            ~> runner[f].sock = "opening" \/ runner[f].pc # "live"

\* An instance parked for good, or deleted, is let go by its worker.
ParkedIsReleased ==
    <>[](row.desired # "online") => <>[](\A f \in Fences : runner[f].pc # "live")

(* What the repository says of the instance and the code does not do; TLC *)
(* finds each violated on a small instance, and README.md tells the story. *)

\* transitions.ts: nothing leaves paused but by the act of a person.
PausedUntilHuman ==
    [][row.health = "paused" /\ row'.health # "paused" => Resume]_vars
=============================================================================
