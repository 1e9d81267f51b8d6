----------------------------- MODULE QueueStore -----------------------------
(***************************************************************************)
(* The rows one message job lives in, and the SQL statements that change   *)
(* them, as operators from the stored value to the value left behind.      *)
(*                                                                         *)
(*   - a job, the message_jobs row;                                        *)
(*   - its attempts, the send_attempts rows by attempt_no;                 *)
(*   - the wallet, the guard rows of wallet_charge_guards by kind (a guard *)
(*     row and its ledger entry are one statement) and the charge list;    *)
(*   - ids, the message_wa_ids rows of messages sent for the job.  An      *)
(*     echo has message_id NULL; a row that is owned names the job.        *)
(*                                                                         *)
(* A provider message is named by the number of the attempt that sent it.  *)
(***************************************************************************)
EXTENDS Naturals

CONSTANTS
    Leases,       \* lease ids (gen_random_uuid), reused once forgotten
    MaxAttempts,  \* max_attempts
    WholeMillis   \* created_at is a whole number of milliseconds

ASSUME QueueAssumption ==
    /\ Leases \subseteq Nat \ {0}
    /\ MaxAttempts \in Nat \ {0}
    /\ WholeMillis \in BOOLEAN

-----------------------------------------------------------------------------
(* Jobs and attempts. *)

NoLease == 0

\* mj_attempts_range: attempts <= max_attempts + 1.
Counts == 0 .. MaxAttempts + 1
Nos    == Counts \ {0}

Final    == {"sent", "failed", "cancelled"}
Statuses == {"queued", "processing", "needs_reconcile",
             "blocked_needs_review"} \cup Final

Jobs == [status : Statuses, lease : Leases \cup {NoLease}, expired : BOOLEAN,
         attempts : Counts]

\* classify: transient is RETRY_BACKOFF, permanent is FAIL_PERMANENT, unknown
\* is PAUSE_INSTANCE.
Classes == {"none", "transient", "permanent", "unknown"}

Settled == {"acked", "reconciled_sent"}
Decided == {"reconciled_sent", "reconciled_lost", "abandoned"}

\* Time since dispatched_at or resolved_at, in units of ten minutes.
Ages == 0 .. 2

Attempts == [state : {"none", "prepared", "dispatched", "acked", "failed"}
                         \cup Decided,
             lease : Leases \cup {NoLease}, class : Classes, age : Ages]

NoAttempt == [state |-> "none", lease |-> NoLease, class |-> "none", age |-> 0]

Stated(a, state) == [a EXCEPT !.state = state, !.age = 0]

\* Mutant of Holds: the outcome write looks at the lease alone.
HoldsWhateverStatus(j, l) == j.lease = l

\* The predicate of the outcome writes: lease_id = $1 AND status = 'processing'.
Holds(j, l) == j.lease = l /\ j.status = "processing"

\* claim-jobs: attempts and everything else stay.
Claimed(j, l) == [j EXCEPT !.status = "processing", !.lease = l, !.expired = FALSE]

\* Outcome writes set the status; those that give the job back clear the lease.
Become(j, status)   == [j EXCEPT !.status = status]
Unleased(j, status) ==
    [j EXCEPT !.status = status, !.lease = NoLease, !.expired = FALSE]

\* UPDATE ... WHERE status = 'needs_reconcile', as the reaper's and the
\* reconciler's later writes have it.
IfUnresolved(j, status) ==
    IF j.status = "needs_reconcile" THEN Become(j, status) ELSE j

\* isRetryBudgetExhausted.
Exhausted(n) == n >= MaxAttempts

\* Mutant of AfterFailure: the pause is written to the job.
AfterFailurePauses(c, n) == IF c = "unknown" THEN "paused" ELSE "failed"

\* What a failure of class c in attempt n makes of the job.
AfterFailure(c, n) ==
    CASE c = "permanent" -> "failed"
      [] c = "unknown"   -> "queued"
      [] OTHER           -> IF Exhausted(n) THEN "failed" ELSE "queued"

\* Mutants of Reaped: a dispatched message counts as sent, is sent again, or
\* a prepared attempt gives its number back.
ReapedAsSent(j, state) ==
    Unleased(j, IF state \in {"dispatched", "acked"} THEN "sent" ELSE "queued")
ReapedAsUnsent(j, state) ==
    Unleased(j, IF state = "acked" THEN "sent" ELSE "queued")
ReapedGivesBack(j, state) ==
    LET r == Unleased(j, IF state = "acked" THEN "sent" ELSE "needs_reconcile")
    IN IF state = "prepared"
       THEN [Become(r, "queued") EXCEPT !.attempts = j.attempts - 1] ELSE r

\* wp_reap_expired_leases: the CASE over the state of the attempt that was
\* made under the job's lease, "none" when there is no such attempt.
Reaped(j, state) ==
    Unleased(j,
        CASE state = "none"     -> "queued"
          [] state = "prepared" -> IF Exhausted(j.attempts) THEN "failed" ELSE "queued"
          [] state = "acked"    -> "sent"
          [] OTHER              -> "needs_reconcile")

-----------------------------------------------------------------------------
(* The wallet and the evidence. *)

Wallets == [debits : SUBSET Nos, adjusted : SUBSET Nos, pending : SUBSET Nos]

\* Mutants of Chargeable: reconciled sends, or the state, are forgotten.
ChargeableAcked(a) == WholeMillis /\ a.state = "acked"
ChargeableAny(a)   == WholeMillis /\ a.state # "none"

\* What the repair statements and check B select: the attempt is settled and
\* joins the job on created_at, which the attempt has from a Date.
Chargeable(a) == WholeMillis /\ a.state \in Settled

\* debit-send and debit-repaired-send, given the job row they select.
Debit(wallet, n) == [wallet EXCEPT !.debits = @ \cup {n}]

\* debit-repaired-send.
DebitRepaired(wallet, n, a, j) ==
    IF Chargeable(a) /\ j.status = "sent" THEN Debit(wallet, n) ELSE wallet

\* wallet-adjustment-debit: a guard of its own kind, whatever the job's status.
Adjust(wallet, n, a) ==
    IF Chargeable(a) THEN [wallet EXCEPT !.adjusted = @ \cup {n}] ELSE wallet

\* The sink's enqueue: best effort.
Enqueue(wallet, n) == {wallet, [wallet EXCEPT !.pending = @ \cup {n}]}

\* What WhatsApp may still be given and what it has been given, and the ids.
Wires == [flying : SUBSET Nos, delivered : SUBSET Nos,
          echoes : SUBSET Nos, owned : SUBSET Nos]

\* The plain INSERT of the settlement: the primary key refuses a second row of
\* the message, message_wa_ids_message_id_uq a second row of the job.
Insertable(wire, n) == n \notin wire.echoes /\ wire.owned = {}

Own(wire, n) == [wire EXCEPT !.owned = @ \cup {n}, !.echoes = @ \ {n}]
=============================================================================
