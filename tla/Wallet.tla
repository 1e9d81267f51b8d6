------------------------------- MODULE Wallet -------------------------------
(***************************************************************************)
(* One client's wallet: the wallet_accounts row, its ledger, the guard     *)
(* rows that make a charge happen once, and the staff requests that credit,*)
(* freeze and reprice it while sends are being charged.                    *)
(*                                                                         *)
(* Every SQL statement that moves money locks the account row, so it is    *)
(* one step; its stamp of the guard row is in the same transaction and     *)
(* part of the step.  A staff request is a transaction of several steps:   *)
(* it opens (its audit row holds the idempotency key), reads, and commits  *)
(* or is rolled back.  Other transactions see nothing of it until then,    *)
(* except that they wait for its key and for the top-up row it has locked. *)
(*                                                                         *)
(* A send is one attempt.  What becomes of its job is SendQueue's matter;  *)
(* here it is only told apart as far as the charge statements look at it.  *)
(* Wakes and notices that follow a commit are left out: they only make     *)
(* the next claim come sooner.                                             *)
(***************************************************************************)
EXTENDS Integers, FiniteSets

CONSTANTS
    Attempts,      \* send_attempts rows
    Staff,         \* staff requests that can be under way together
    Keys,          \* idempotency keys, each of one request and its retries
    Topups,        \* topup_requests rows
    Rates,         \* prices a send may have
    Signup,        \* credit at signup
    Credit,        \* amount of a staff credit and of a top-up
    LowThreshold   \* low_balance_threshold_minor

ASSUME WalletAssumption ==
    /\ Rates \subseteq Nat \ {0} /\ Rates # {}
    /\ Signup \in Nat /\ Credit \in Nat \ {0} /\ LowThreshold \in Nat

VARIABLES
    account,   \* the wallet_accounts row
    price,     \* the client's effective rate
    ledger,    \* wallet_ledger rows
    guards,    \* wallet_charge_guards: ledger_seq by attempt and kind
    send,      \* what has become of each attempt and its job
    sink,      \* attempts given up whose onReconciledLost is still to come
    topup,     \* topup_requests.status
    audit,     \* staff_audit_log: what each key was used for
    request    \* the staff requests

books == <<account, ledger, guards>>
sends == <<send, sink>>
staff == <<price, topup, audit, request>>
vars  == <<books, sends, staff>>

-----------------------------------------------------------------------------
(* The rows. *)

States == {"active", "low", "empty", "frozen"}

Accounts == [balance : Int, state : States, maxRate : Rates, seq : Nat,
             credited : Int, debited : Int]

Kinds == {"debit_send", "adjustment_debit", "refund_send"}

\* No guard row; an action that is about nothing.
None == 0

\* external_ref, or the attempt, of a ledger row.
TopupRef(t) == <<"topup", t>>
KeyRef(k)   == <<"staff", k>>
SendRef(a)  == <<"send", a>>
SignupRef   == <<"signup">>
Refs == {TopupRef(t) : t \in Topups} \cup {KeyRef(k) : k \in Keys}
            \cup {SendRef(a) : a \in Attempts} \cup {SignupRef}

Entries == [seq : Nat, kind : Kinds \cup {"credit"}, ref : Refs,
            amount : Int, after : Int]

Row(seq) == CHOOSE e \in ledger : e.seq = seq

\* wallet_ledger_ext_refs: written with the ledger row, one row a reference.
RefTaken(ref) == \E e \in ledger : e.ref = ref /\ e.kind = "credit"

Sends    == {"queued", "claimed", "acked", "sent", "lost"}
Actions  == {"credit", "approve", "reject", "freeze", "unfreeze", "pricing"}
Requests == [pc : {"idle", "open", "read"}, key : Keys \cup {"none"},
             action : Actions \cup {"none"}, on : Topups \cup Rates \cup {None},
             saw : States \cup {"pending", "approved", "rejected", "none"}]
NoRequest == [pc |-> "idle", key |-> "none", action |-> "none", on |-> None,
              saw |-> "none"]

-----------------------------------------------------------------------------
(* Moving money. *)

\* Mutant of NextWalletState: a value the enum wallet_state does not have.
NextWalletStateStops(a) ==
    IF a.state = "frozen"         THEN "frozen"
    ELSE IF a.balance < a.maxRate THEN "stopped"
    ELSE IF a.balance < LowThreshold THEN "low" ELSE "active"

\* nextWalletState, and the CASE of every statement that moves money.
NextWalletState(a) ==
    IF a.state = "frozen"         THEN "frozen"
    ELSE IF a.balance < a.maxRate THEN "empty"
    ELSE IF a.balance < LowThreshold THEN "low" ELSE "active"

\* Mutant of Moved: a refund is booked as a credit.
MovedRefundCredits(a, kind, amount) ==
    LET credits == kind \in {"credit", "refund_send"}
        b == [a EXCEPT !.balance  = @ + amount,
                       !.seq      = @ + 1,
                       !.credited = IF credits THEN @ + amount ELSE @,
                       !.debited  = IF credits THEN @ ELSE @ - amount]
    IN [b EXCEPT !.state = NextWalletState(b)]

\* The SET clause: a refund takes back from lifetime_debit_minor.
Moved(a, kind, amount) ==
    LET b == [a EXCEPT !.balance  = @ + amount,
                       !.seq      = @ + 1,
                       !.credited = IF kind = "credit" THEN @ + amount ELSE @,
                       !.debited  = IF kind = "credit" THEN @ ELSE @ - amount]
    IN [b EXCEPT !.state = NextWalletState(b)]

\* acct and ins of every money statement.
Post(kind, ref, amount) ==
    /\ account' = Moved(account, kind, amount)
    /\ ledger' = ledger \cup
         {[seq |-> account'.seq, kind |-> kind, ref |-> ref, amount |-> amount,
           after |-> account'.balance]}

\* A charge or refund, gated by its guard row and stamped.
PostOnce(kind, a, amount) ==
    IF guards[a][kind] = None
    THEN /\ Post(kind, SendRef(a), amount)
         /\ guards' = [guards EXCEPT ![a][kind] = account'.seq]
    ELSE UNCHANGED books

\* Mutant of RefundAmount: the price is resolved again.
RefundAmountResolved(a) == price

\* The rate of the ledger row the debit's guard points to.
RefundAmount(a) == -Row(guards[a]["debit_send"]).amount

\* refund-send: no debit, no refund.
Refund(a) ==
    IF guards[a]["debit_send"] # None
    THEN PostOnce("refund_send", a, RefundAmount(a))
    ELSE UNCHANGED books

-----------------------------------------------------------------------------
(* Sends. *)

Init ==
    /\ price \in Rates
    /\ account = [balance |-> Signup, state |-> "active", maxRate |-> price,
                  seq |-> 1, credited |-> Signup, debited |-> 0]
    /\ ledger = {[seq |-> 1, kind |-> "credit", ref |-> SignupRef,
                  amount |-> Signup, after |-> Signup]}
    /\ guards = [a \in Attempts |-> [k \in Kinds |-> None]]
    /\ send = [a \in Attempts |-> "queued"]
    /\ sink = {}
    /\ topup = [t \in Topups |-> "pending"]
    /\ audit = [k \in Keys |-> "none"]
    /\ request = [s \in Staff |-> NoRequest]

Becomes(a, from, to) ==
    /\ send[a] \in from
    /\ send' = [send EXCEPT ![a] = to]

\* The wallet predicates of claim-jobs.
Claim(a) ==
    /\ account.state \notin {"empty", "frozen"} /\ account.balance >= account.maxRate
    /\ Becomes(a, {"queued"}, "claimed")
    /\ UNCHANGED <<books, sink, staff>>

\* resolveAck: the job becomes sent and is paid for in one transaction.
SettleAck(a) ==
    /\ Becomes(a, {"claimed"}, "sent")
    /\ PostOnce("debit_send", a, -price)
    /\ UNCHANGED <<sink, staff>>

\* The attempt is acked and the job is not settled; markAttempt asks for
\* nothing but the row, so the attempt may have been given up.
RecordAck(a) ==
    /\ Becomes(a, {"claimed", "lost"}, "acked")
    /\ UNCHANGED <<books, sink, staff>>

\* The reaper, the reconciler or a later attempt makes the job sent.
Repaired(a) ==
    /\ Becomes(a, {"acked"}, "sent")
    /\ UNCHANGED <<books, sink, staff>>

\* chargeRepairedSend, from the charge list or check B.
ChargeRepaired(a) ==
    /\ send[a] = "sent"
    /\ PostOnce("debit_send", a, -price)
    /\ UNCHANGED <<sends, staff>>

\* Check B's correction of an attempt whose job is not sent, which found it
\* without a guard row (SendQueue has the two apart).
Adjust(a) ==
    /\ send[a] = "acked"
    /\ guards[a]["debit_send"] = None
    /\ PostOnce("adjustment_debit", a, -price)
    /\ UNCHANGED <<sends, staff>>

\* retryUnresolved: refund with the transaction, the sink's after it.
GiveUp(a) ==
    /\ Becomes(a, {"claimed"}, "lost")
    /\ Refund(a)
    /\ sink' = sink \cup {a}
    /\ UNCHANGED staff

\* onReconciledLost, however late.
SinkRefund(a) ==
    /\ a \in sink
    /\ Refund(a)
    /\ sink' = sink \ {a}
    /\ UNCHANGED <<send, staff>>

SinkDies(a) ==
    /\ a \in sink
    /\ sink' = sink \ {a}
    /\ UNCHANGED <<books, send, staff>>

-----------------------------------------------------------------------------
(* Staff requests. *)

Does(s, pc, action) == request[s].pc = pc /\ request[s].action = action

\* Mutant of Held: the audit row is only written with the result.
HeldByNobody(k) == FALSE

\* The unique idempotency_key: used, or inserted by a transaction still open.
Used(k) == audit[k] # "none"
Held(k) == \E s \in Staff : request[s].key = k

\* Mutant of Locked: the top-up is read without FOR UPDATE.
LockedNever(t) == FALSE

Locked(t) == \E s \in Staff : Does(s, "read", "approve") /\ request[s].on = t

\* What an action is about: a top-up, a price, nothing.
Objects(action) ==
    CASE action \in {"approve", "reject"} -> Topups
      [] action = "pricing"               -> Rates
      [] OTHER                            -> {None}

\* BEGIN, the audit row first.  A key that is used is answered with what is
\* stored for it, or refused, and changes nothing; a key that is held waits.
Open(s) ==
    /\ request[s] = NoRequest
    /\ \E k \in Keys, action \in Actions :
        /\ ~Used(k) /\ ~Held(k)
        /\ \E o \in Objects(action) :
             request' = [request EXCEPT ![s] =
                 [pc |-> "open", key |-> k, action |-> action, on |-> o, saw |-> "none"]]
    /\ UNCHANGED <<books, sends, price, topup, audit>>

Saw(s, what) ==
    request' = [request EXCEPT ![s].pc = "read", ![s].saw = what]

\* readTopupForDecision FOR UPDATE; a rejected one throws.
ReadTopup(s) ==
    /\ Does(s, "open", "approve") /\ ~Locked(request[s].on)
    /\ topup[request[s].on] # "rejected"
    /\ Saw(s, topup[request[s].on])
    /\ UNCHANGED <<books, sends, price, topup, audit>>

\* applyFreezeOrUnfreeze reads the row and derives the state, with no lock.
ReadFrozen(s) ==
    /\ Does(s, "open", "unfreeze")
    /\ Saw(s, IF account.state = "frozen"
              THEN NextWalletState([account EXCEPT !.state = "active"]) ELSE "none")
    /\ UNCHANGED <<books, sends, price, topup, audit>>

\* UPDATE staff_audit_log, COMMIT.
Commit(s) ==
    /\ audit' = [audit EXCEPT ![request[s].key] = request[s].action]
    /\ request' = [request EXCEPT ![s] = NoRequest]

\* creditWallet: the external reference gates the credit.
CreditOnce(ref) ==
    IF RefTaken(ref) THEN UNCHANGED books
    ELSE Post("credit", ref, Credit) /\ UNCHANGED guards

CommitCredit(s) ==
    /\ Does(s, "open", "credit")
    /\ CreditOnce(KeyRef(request[s].key))
    /\ Commit(s)
    /\ UNCHANGED <<sends, price, topup>>

\* Approved once or more, credited once: markTopupDecided asks for pending.
CommitApprove(s) ==
    LET t == request[s].on
    IN /\ Does(s, "read", "approve")
       /\ topup' = [topup EXCEPT ![t] =
                      IF request[s].saw = "pending" /\ @ = "pending" THEN "approved" ELSE @]
       /\ CreditOnce(TopupRef(t))
       /\ Commit(s)
       /\ UNCHANGED <<sends, price>>

CommitReject(s) ==
    LET t == request[s].on
    IN /\ Does(s, "open", "reject") /\ ~Locked(t)
       /\ topup[t] = "pending"
       /\ topup' = [topup EXCEPT ![t] = "rejected"]
       /\ Commit(s)
       /\ UNCHANGED <<books, sends, price>>

CommitFreeze(s) ==
    /\ Does(s, "open", "freeze")
    /\ account' = [account EXCEPT !.state = "frozen"]
    /\ Commit(s)
    /\ UNCHANGED <<ledger, guards, sends, price, topup>>

\* UPDATE ... WHERE state = 'frozen', to what was derived when it was read.
CommitUnfreeze(s) ==
    /\ Does(s, "read", "unfreeze")
    /\ account' = [account EXCEPT !.state =
                     IF @ = "frozen" /\ request[s].saw # "none" THEN request[s].saw ELSE @]
    /\ Commit(s)
    /\ UNCHANGED <<ledger, guards, sends, price, topup>>

\* The override and max_rate_minor together; the state is left as it is.
CommitPricing(s) ==
    /\ Does(s, "open", "pricing")
    /\ price' = request[s].on
    /\ account' = [account EXCEPT !.maxRate = request[s].on]
    /\ Commit(s)
    /\ UNCHANGED <<ledger, guards, sends, topup>>

\* A refused decision, a failed statement or a process that dies: ROLLBACK.
Rollback(s) ==
    /\ request[s] # NoRequest
    /\ request' = [request EXCEPT ![s] = NoRequest]
    /\ UNCHANGED <<books, sends, price, topup, audit>>

-----------------------------------------------------------------------------
Sending(a) ==
    \/ Claim(a) \/ SettleAck(a) \/ RecordAck(a) \/ Repaired(a) \/ ChargeRepaired(a)
    \/ Adjust(a) \/ GiveUp(a) \/ SinkRefund(a) \/ SinkDies(a)

Serving(s) ==
    \/ Open(s) \/ ReadTopup(s) \/ ReadFrozen(s)
    \/ CommitCredit(s) \/ CommitApprove(s) \/ CommitReject(s)
    \/ CommitFreeze(s) \/ CommitUnfreeze(s) \/ CommitPricing(s) \/ Rollback(s)

Next == (\E a \in Attempts : Sending(a)) \/ (\E s \in Staff : Serving(s))

Spec == Init /\ [][Next]_vars

-----------------------------------------------------------------------------
(* Safety. *)

TypeOK ==
    /\ account \in Accounts /\ price \in Rates
    /\ ledger \subseteq Entries
    /\ guards \in [Attempts -> [Kinds -> Nat]]
    /\ send \in [Attempts -> Sends] /\ sink \subseteq Attempts
    /\ topup \in [Topups -> {"pending", "approved", "rejected"}]
    /\ audit \in [Keys -> Actions \cup {"none"}]
    /\ request \in [Staff -> Requests]

Credits == {e \in ledger : e.kind = "credit" /\ e.ref # SignupRef}

\* What check A of the wallet reconciler looks for never exists: the rows of
\* the ledger number 1 .. entry_seq, each continues the balance of the one
\* before, the last is the account's, and lifetime credits and debits are what
\* its rows say, whatever charges, refunds and credits ran against each other.
LedgerContinues ==
    /\ {e.seq : e \in ledger} = 1 .. account.seq
    /\ \A d, e \in ledger :
         /\ d.seq = e.seq => d = e
         /\ e.seq = d.seq + 1 => e.after = d.after + e.amount
    /\ \A e \in ledger : e.seq = account.seq => e.after = account.balance
    /\ account.balance = account.credited - account.debited
    /\ account.credited = Signup + Credit * Cardinality(Credits)

\* A refund gives back exactly what was taken for the attempt, though the
\* price has changed since, and no attempt is refunded twice or unpaid.
RefundReversesDebit ==
    \A e \in ledger : e.kind = "refund_send" =>
        /\ \E d \in ledger : d.kind = "debit_send" /\ d.ref = e.ref
                               /\ d.seq < e.seq /\ d.amount = -e.amount
        /\ \A f \in ledger : f.kind = "refund_send" /\ f.ref = e.ref => f = e

\* However often and by whomever a top-up is approved or rejected, it is
\* credited once if it ended approved and never otherwise.
TopupPaidOnce ==
    \A t \in Topups :
        Cardinality({e \in ledger : e.ref = TopupRef(t)})
            = IF topup[t] = "approved" THEN 1 ELSE 0

\* The audit row and the mutation commit together: the ledger has a staff
\* credit for a key exactly when the log says the key was used for one.
AuditMatchesCredits ==
    \A k \in Keys : audit[k] = "credit" <=> RefTaken(KeyRef(k))

(* What the repository says of the wallet and the code does not do. *)

\* wallet-freeze-state.ts:21-24: the state an unfreeze writes is the one that
\* nextWalletState gives for the row it leaves, whatever ran since the read.
UnfreezeFits ==
    [][account.state = "frozen" /\ account'.state # "frozen" =>
         account'.state = NextWalletState(account')]_vars
=============================================================================
