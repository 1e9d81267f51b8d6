---------------------------- MODULE WalletProofs ----------------------------
(***************************************************************************)
(* Theorems about Wallet, for any attempts, staff requests, keys, top-ups  *)
(* and rates.                                                              *)
(***************************************************************************)
EXTENDS Wallet, FiniteSetTheorems, TLAPS

(* The inductive invariant. *)

\* A request under way has a key nobody else has and nobody has used; what it has
\* read of a top-up it holds is still so.
Fits(s) ==
    /\ request[s].pc \in {"open", "read"}
    /\ request[s].key \in Keys /\ ~Used(request[s].key)
    /\ request[s].action \in Actions /\ request[s].on \in Objects(request[s].action)
    /\ \A u \in Staff : request[u] # NoRequest /\ request[u].key = request[s].key => u = s
    /\ Does(s, "read", "approve") =>
         /\ request[s].saw = topup[request[s].on]
         /\ request[s].saw \in {"pending", "approved"}
         /\ \A u \in Staff : Does(u, "read", "approve") /\ request[u].on = request[s].on
                                => u = s
    /\ Does(s, "read", "unfreeze") => request[s].saw \in States \cup {"none"}

Orderly == \A s \in Staff : request[s] # NoRequest => Fits(s)

\* The guard rows and the rows of charges and refunds know of each other.
Guarded ==
    /\ \A e \in ledger : e.kind \in Kinds =>
         \E a \in Attempts : e.ref = SendRef(a) /\ guards[a][e.kind] = e.seq
    /\ \A a \in Attempts, k \in Kinds : guards[a][k] # None =>
         \E e \in ledger : e.seq = guards[a][k] /\ e.kind = k /\ e.ref = SendRef(a)
    /\ \A e \in ledger : e.kind = "refund_send" =>
         \E d \in ledger : d.kind = "debit_send" /\ d.ref = e.ref
                             /\ d.seq < e.seq /\ d.amount = -e.amount

\* A credit has a reference of its own: an approved top-up, or a key used for it.
Credited ==
    /\ \A e \in ledger : e.kind = "credit" =>
         e.ref \in {TopupRef(t) : t \in Topups} \cup {KeyRef(k) : k \in Keys} \cup {SignupRef}
    /\ \A e, f \in ledger : e.kind = "credit" /\ f.kind = "credit" /\ e.ref = f.ref => e = f
    /\ \A t \in Topups : topup[t] = "approved" <=> RefTaken(TopupRef(t))
    /\ AuditMatchesCredits

WalletInv ==
    TypeOK /\ IsFiniteSet(ledger) /\ LedgerContinues /\ Orderly /\ Guarded /\ Credited
-----------------------------------------------------------------------------
(* Moving money. *)

\* What a movement makes of the row of the account.
LEMMA MovedRow ==
    ASSUME NEW a \in Accounts, NEW kind, NEW amount \in Int
    PROVE  /\ Moved(a, kind, amount) \in Accounts
           /\ Moved(a, kind, amount).balance = a.balance + amount
           /\ Moved(a, kind, amount).seq = a.seq + 1
           /\ Moved(a, kind, amount).credited - Moved(a, kind, amount).debited
                = a.credited - a.debited + amount
           /\ Moved(a, kind, amount).credited
                = IF kind = "credit" THEN a.credited + amount ELSE a.credited
<1> DEFINE b == [a EXCEPT !.balance  = @ + amount,
                           !.seq      = @ + 1,
                           !.credited = IF kind = "credit" THEN @ + amount ELSE @,
                           !.debited  = IF kind = "credit" THEN @ ELSE @ - amount]
<1>1. /\ b \in Accounts /\ b.balance = a.balance + amount /\ b.seq = a.seq + 1
      /\ b.credited = IF kind = "credit" THEN a.credited + amount ELSE a.credited
      /\ b.debited = IF kind = "credit" THEN a.debited ELSE a.debited - amount
  <2> DEFINE credited == IF kind = "credit" THEN a.credited + amount ELSE a.credited
             debited  == IF kind = "credit" THEN a.debited ELSE a.debited - amount
  <2>1. a.balance \in Int /\ a.seq \in Nat /\ a.credited \in Int /\ a.debited \in Int
    BY DEF Accounts
  <2>2. credited \in Int /\ debited \in Int
    BY <2>1
  <2>3. b = [a EXCEPT !.balance = a.balance + amount, !.seq = a.seq + 1,
                      !.credited = credited, !.debited = debited]
    BY Zenon DEF Accounts
  <2> HIDE DEF b, credited, debited
  <2>5. a = [balance |-> a.balance, state |-> a.state, maxRate |-> a.maxRate,
             seq |-> a.seq, credited |-> a.credited, debited |-> a.debited]
    BY DEF Accounts
  <2>6. b = [balance |-> a.balance + amount, state |-> a.state, maxRate |-> a.maxRate,
             seq |-> a.seq + 1, credited |-> credited, debited |-> debited]
    BY <2>3, <2>5
  <2>4. b \in Accounts /\ b.balance = a.balance + amount /\ b.seq = a.seq + 1
        /\ b.credited = credited /\ b.debited = debited
    BY <2>1, <2>2, <2>6 DEF Accounts
  <2> QED BY <2>4 DEF credited, debited
<1>2. NextWalletState(b) \in States
  BY DEF NextWalletState, States
<1>3. Moved(a, kind, amount) = [b EXCEPT !.state = NextWalletState(b)]
  BY DEF Moved
<1> HIDE DEF b
<1>4. /\ Moved(a, kind, amount) \in Accounts
      /\ Moved(a, kind, amount).balance = b.balance /\ Moved(a, kind, amount).seq = b.seq
      /\ Moved(a, kind, amount).credited = b.credited
      /\ Moved(a, kind, amount).debited = b.debited
  BY <1>1, <1>2, <1>3 DEF Accounts
<1>5. a.credited \in Int /\ a.debited \in Int
  BY DEF Accounts
<1> QED BY <1>1, <1>4, <1>5

\* The row a movement adds to the ledger.
Added(kind, ref, amount) ==
    [seq |-> account.seq + 1, kind |-> kind, ref |-> ref, amount |-> amount,
     after |-> account.balance + amount]

LEMMA Posted ==
    ASSUME account \in Accounts, NEW kind, NEW ref, NEW amount \in Int,
           Post(kind, ref, amount)
    PROVE  ledger' = ledger \cup {Added(kind, ref, amount)}
  BY MovedRow DEF Post, Added

\* A movement keeps the books, if credits are of the amount that is counted.
LEMMA PostContinues ==
    ASSUME TypeOK, IsFiniteSet(ledger), LedgerContinues,
           NEW kind \in Kinds \cup {"credit"}, NEW ref \in Refs, NEW amount \in Int,
           kind = "credit" => amount = Credit /\ ref # SignupRef,
           Post(kind, ref, amount)
    PROVE  account' \in Accounts /\ (ledger \subseteq Entries)'
           /\ IsFiniteSet(ledger)' /\ LedgerContinues'
<1> DEFINE new == Added(kind, ref, amount)
<1>1. account \in Accounts /\ ledger \subseteq Entries /\ account.seq \in Nat
      /\ account.balance \in Int /\ account.credited \in Int /\ account.debited \in Int
  BY DEF TypeOK, Accounts
<1>2. ledger' = ledger \cup {new} /\ account' = Moved(account, kind, amount)
  BY <1>1, Posted DEF Post
<1>3. /\ new \in Entries /\ new.seq = account.seq + 1 /\ new.kind = kind
      /\ new.ref = ref /\ new.amount = amount /\ new.after = account.balance + amount
  BY <1>1 DEF Added, Entries
<1>4. \A e \in ledger : e.seq \in 1 .. account.seq
  BY DEF LedgerContinues
<1>5. new \notin ledger
  BY <1>1, <1>3, <1>4
<1>6. IsFiniteSet(ledger)'
  BY <1>2, FS_AddElement
<1> HIDE DEF new
<1>7. {e.seq : e \in ledger'} = 1 .. account'.seq
  <2>1. {e.seq : e \in ledger'} = {e.seq : e \in ledger} \cup {account.seq + 1}
    BY <1>2, <1>3
  <2>2. account'.seq = account.seq + 1
    BY <1>1, <1>2, MovedRow
  <2>3. 1 .. (account.seq + 1) = (1 .. account.seq) \cup {account.seq + 1}
    BY <1>1
  <2>4. {e.seq : e \in ledger} = 1 .. account.seq
    BY DEF LedgerContinues
  <2> QED BY <2>1, <2>2, <2>3, <2>4
<1>8. \A d, e \in ledger' : /\ d.seq = e.seq => d = e
                            /\ e.seq = d.seq + 1 => e.after = d.after + e.amount
  <2> SUFFICES ASSUME NEW d \in ledger', NEW e \in ledger'
               PROVE  /\ d.seq = e.seq => d = e
                      /\ e.seq = d.seq + 1 => e.after = d.after + e.amount
    OBVIOUS
  <2>1. CASE d \in ledger /\ e \in ledger
    BY <2>1 DEF LedgerContinues
  <2>2. CASE d \in ledger /\ e = new
    BY <1>1, <1>3, <1>4, <2>2 DEF LedgerContinues
  <2>3. CASE d = new /\ e \in ledger
    BY <1>1, <1>3, <1>4, <2>3
  <2>4. CASE d = new /\ e = new
    BY <1>1, <1>3, <2>4
  <2> QED BY <1>2, <2>1, <2>2, <2>3, <2>4
<1>9. \A e \in ledger' : e.seq = account'.seq => e.after = account'.balance
  BY <1>1, <1>2, <1>3, <1>4, MovedRow
<1>10. account'.balance = account'.credited - account'.debited
  <2>1. account'.balance \in Int /\ account'.credited \in Int /\ account'.debited \in Int
    BY <1>1, <1>2, MovedRow DEF Accounts
  <2> QED BY <1>1, <1>2, <2>1, MovedRow DEF LedgerContinues
<1>11. account'.credited = Signup + Credit * Cardinality(Credits')
  <2>1. IsFiniteSet(Credits) /\ Cardinality(Credits) \in Nat
    <3>1. Credits \in SUBSET ledger
      BY DEF Credits
    <3> QED BY <3>1, FS_Subset, FS_CardinalityType
  <2>2. CASE kind = "credit"
    <3>1. Credits' = Credits \cup {new}
      BY <1>2, <1>3, <2>2 DEF Credits
    <3>2. Cardinality(Credits') = Cardinality(Credits) + 1
      BY <1>5, <2>1, <3>1, FS_AddElement DEF Credits
    <3>3. Credit * (Cardinality(Credits) + 1) = Credit * Cardinality(Credits) + Credit
      BY <2>1, WalletAssumption
    <3>4. account'.credited = account.credited + Credit
      BY <1>1, <1>2, <2>2, MovedRow
    <3>5. account.credited = Signup + Credit * Cardinality(Credits)
      BY DEF LedgerContinues
    <3>6. Credit * Cardinality(Credits) \in Int
      BY <2>1, WalletAssumption
    <3> QED BY <3>2, <3>3, <3>4, <3>5, <3>6, WalletAssumption
  <2>3. CASE kind # "credit"
    <3>1. Credits' = Credits
      BY <1>2, <1>3, <2>3 DEF Credits
    <3> QED BY <1>1, <1>2, <2>3, <3>1, MovedRow DEF LedgerContinues
  <2> QED BY <2>2, <2>3
<1>12. account' \in Accounts /\ (ledger \subseteq Entries)'
  BY <1>1, <1>2, <1>3, MovedRow
<1>13. LedgerContinues'
  BY <1>7, <1>8, <1>9, <1>10, <1>11 DEF LedgerContinues
<1> QED BY <1>6, <1>12, <1>13

\* The amount of a refund is that of the row its guard points to.
LEMMA RefundRow ==
    ASSUME TypeOK, LedgerContinues, Guarded, NEW a \in Attempts,
           guards[a]["debit_send"] # None
    PROVE  /\ RefundAmount(a) \in Int
           /\ \E d \in ledger : d.kind = "debit_send" /\ d.ref = SendRef(a)
                                /\ d.amount = -RefundAmount(a)
<1>1. PICK d \in ledger : d.seq = guards[a]["debit_send"] /\ d.kind = "debit_send"
                         /\ d.ref = SendRef(a)
  BY DEF Guarded, Kinds
<1>2. Row(guards[a]["debit_send"]) = d
  BY <1>1 DEF Row, LedgerContinues
<1>3. d.amount \in Int
  BY DEF TypeOK, Entries
<1> QED BY <1>1, <1>2, <1>3 DEF RefundAmount

\* A reference of a send is not that of a credit.
LEMMA RefsDiffer ==
    /\ \A a, b \in Attempts : SendRef(a) = SendRef(b) => a = b
    /\ \A a \in Attempts, t \in Topups : SendRef(a) # TopupRef(t)
    /\ \A a \in Attempts, k \in Keys : SendRef(a) # KeyRef(k)
    /\ \A s, t \in Topups : TopupRef(s) = TopupRef(t) => s = t
    /\ \A j, k \in Keys : KeyRef(j) = KeyRef(k) => j = k
    /\ \A t \in Topups, k \in Keys : TopupRef(t) # KeyRef(k)
    /\ \A t \in Topups : TopupRef(t) # SignupRef
    /\ \A k \in Keys : KeyRef(k) # SignupRef
  BY DEF SendRef, TopupRef, KeyRef, SignupRef

\* A charge or a refund keeps the books and the guards, and is no credit.
LEMMA PostOnceKeeps ==
    ASSUME TypeOK, IsFiniteSet(ledger), LedgerContinues, Guarded,
           NEW a \in Attempts, NEW kind \in Kinds, NEW amount \in Int,
           kind = "refund_send" =>
             \E d \in ledger : d.kind = "debit_send" /\ d.ref = SendRef(a) /\ d.amount = -amount,
           PostOnce(kind, a, amount)
    PROVE  /\ account' \in Accounts /\ (ledger \subseteq Entries)'
           /\ guards' \in [Attempts -> [Kinds -> Nat]]
           /\ IsFiniteSet(ledger)' /\ LedgerContinues' /\ Guarded'
           /\ {e \in ledger' : e.kind = "credit"} = {e \in ledger : e.kind = "credit"}
<1>1. CASE guards[a][kind] # None
  <2>1. UNCHANGED <<account, ledger, guards>>
    BY <1>1 DEF PostOnce, books
  <2> QED BY <2>1 DEF TypeOK, LedgerContinues, Guarded, Credits
<1>2. CASE guards[a][kind] = None
  <2> DEFINE new == Added(kind, SendRef(a), amount)
  <2>1. Post(kind, SendRef(a), amount) /\ guards' = [guards EXCEPT ![a][kind] = account'.seq]
    BY <1>2 DEF PostOnce
  <2>2. SendRef(a) \in Refs /\ kind # "credit"
    BY DEF Refs, Kinds
  <2>3. /\ account' \in Accounts /\ (ledger \subseteq Entries)'
        /\ IsFiniteSet(ledger)' /\ LedgerContinues'
    BY <2>1, <2>2, PostContinues
  <2>4. account \in Accounts /\ account.seq \in Nat
    BY DEF TypeOK, Accounts
  <2>5. ledger' = ledger \cup {new} /\ account'.seq = account.seq + 1
    BY <2>1, <2>4, Posted, MovedRow DEF Post
  <2>6. new.seq = account.seq + 1 /\ new.kind = kind /\ new.ref = SendRef(a)
        /\ new.amount = amount
    BY DEF Added
  <2> HIDE DEF new
  <2>7. guards' \in [Attempts -> [Kinds -> Nat]]
    BY <2>1, <2>4, <2>5 DEF TypeOK
  <2>8. \A b \in Attempts, k \in Kinds :
          guards'[b][k] = IF b = a /\ k = kind THEN account.seq + 1 ELSE guards[b][k]
    BY <2>1, <2>5 DEF TypeOK
  <2>9. {e \in ledger' : e.kind = "credit"} = {e \in ledger : e.kind = "credit"}
    BY <2>2, <2>5, <2>6
  <2>10. \A e \in ledger' : e.kind \in Kinds =>
           \E b \in Attempts : e.ref = SendRef(b) /\ guards'[b][e.kind] = e.seq
    <3> SUFFICES ASSUME NEW e \in ledger', e.kind \in Kinds
                 PROVE  \E b \in Attempts : e.ref = SendRef(b) /\ guards'[b][e.kind] = e.seq
      OBVIOUS
    <3>1. CASE e = new
      BY <2>6, <2>8, <3>1
    <3>2. CASE e \in ledger
      <4>1. PICK b \in Attempts : e.ref = SendRef(b) /\ guards[b][e.kind] = e.seq
        BY <3>2 DEF Guarded
      <4>2. e.seq # None
        BY <3>2 DEF LedgerContinues, None
      <4>3. ~ (b = a /\ e.kind = kind)
        BY <1>2, <4>1, <4>2
      <4> QED BY <2>8, <4>1, <4>3
    <3> QED BY <2>5, <3>1, <3>2
  <2>11. \A b \in Attempts, k \in Kinds : guards'[b][k] # None =>
           \E e \in ledger' : e.seq = guards'[b][k] /\ e.kind = k /\ e.ref = SendRef(b)
    <3> SUFFICES ASSUME NEW b \in Attempts, NEW k \in Kinds, guards'[b][k] # None
                 PROVE  \E e \in ledger' : e.seq = guards'[b][k] /\ e.kind = k
                                             /\ e.ref = SendRef(b)
      OBVIOUS
    <3>1. CASE b = a /\ k = kind
      BY <2>5, <2>6, <2>8, <3>1
    <3>2. CASE ~ (b = a /\ k = kind)
      BY <2>5, <2>8, <3>2 DEF Guarded
    <3> QED BY <3>1, <3>2
  <2>12. \A e \in ledger' : e.kind = "refund_send" =>
           \E d \in ledger' : d.kind = "debit_send" /\ d.ref = e.ref
                               /\ d.seq < e.seq /\ d.amount = -e.amount
    <3> SUFFICES ASSUME NEW e \in ledger', e.kind = "refund_send"
                 PROVE  \E d \in ledger' : d.kind = "debit_send" /\ d.ref = e.ref
                               /\ d.seq < e.seq /\ d.amount = -e.amount
      OBVIOUS
    <3>1. CASE e = new
      <4>1. PICK d \in ledger : d.kind = "debit_send" /\ d.ref = SendRef(a) /\ d.amount = -amount
        BY <2>6, <3>1
      <4>2. d.seq < account.seq + 1
        BY <2>4 DEF LedgerContinues
      <4> QED BY <2>5, <2>6, <3>1, <4>1, <4>2
    <3>2. CASE e \in ledger
      BY <2>5, <3>2 DEF Guarded
    <3> QED BY <2>5, <3>1, <3>2
  <2> QED BY <2>3, <2>7, <2>9, <2>10, <2>11, <2>12 DEF Guarded
<1> QED BY <1>1, <1>2

\* So does a refund, which has its amount from the books.
LEMMA RefundKeeps ==
    ASSUME TypeOK, IsFiniteSet(ledger), LedgerContinues, Guarded,
           NEW a \in Attempts, Refund(a)
    PROVE  /\ account' \in Accounts /\ (ledger \subseteq Entries)'
           /\ guards' \in [Attempts -> [Kinds -> Nat]]
           /\ IsFiniteSet(ledger)' /\ LedgerContinues' /\ Guarded'
           /\ {e \in ledger' : e.kind = "credit"} = {e \in ledger : e.kind = "credit"}
<1>1. CASE guards[a]["debit_send"] # None
  BY <1>1, RefundRow, PostOnceKeeps DEF Refund, Kinds
<1>2. CASE guards[a]["debit_send"] = None
  <2>1. UNCHANGED <<account, ledger, guards>>
    BY <1>2 DEF Refund, books
  <2> QED BY <2>1 DEF TypeOK, LedgerContinues, Guarded, Credits
<1> QED BY <1>1, <1>2
\* A credit with a reference of its own keeps the books and the guards.
LEMMA PostCredits ==
    ASSUME TypeOK, IsFiniteSet(ledger), LedgerContinues, Guarded,
           NEW ref \in Refs, ref # SignupRef, Post("credit", ref, Credit), guards' = guards
    PROVE  /\ account' \in Accounts /\ (ledger \subseteq Entries)'
           /\ IsFiniteSet(ledger)' /\ LedgerContinues' /\ Guarded'
           /\ ledger' = ledger \cup {Added("credit", ref, Credit)}
<1>1. Credit \in Int
  BY WalletAssumption
<1>2. /\ account' \in Accounts /\ (ledger \subseteq Entries)'
      /\ IsFiniteSet(ledger)' /\ LedgerContinues'
  BY <1>1, PostContinues
<1>3. ledger' = ledger \cup {Added("credit", ref, Credit)}
  BY <1>1, Posted DEF TypeOK
<1>4. Added("credit", ref, Credit).kind \notin Kinds
      /\ Added("credit", ref, Credit).kind # "refund_send"
  BY DEF Added, Kinds
<1>5. \A e \in ledger' : e.kind \in Kinds => e \in ledger
  BY <1>3, <1>4
<1>6. Guarded'
  <2>1. \A e \in ledger' : e.kind \in Kinds =>
          \E a \in Attempts : e.ref = SendRef(a) /\ guards'[a][e.kind] = e.seq
    BY <1>5 DEF Guarded
  <2>2. \A a \in Attempts, k \in Kinds : guards'[a][k] # None =>
          \E e \in ledger' : e.seq = guards'[a][k] /\ e.kind = k /\ e.ref = SendRef(a)
    BY <1>3 DEF Guarded
  <2>3. \A e \in ledger' : e.kind = "refund_send" =>
          \E d \in ledger' : d.kind = "debit_send" /\ d.ref = e.ref
                              /\ d.seq < e.seq /\ d.amount = -e.amount
    BY <1>3, <1>5 DEF Guarded, Kinds
  <2> QED BY <2>1, <2>2, <2>3 DEF Guarded
<1> QED BY <1>2, <1>3, <1>6

\* A step that moves no money keeps the books.
LEMMA BooksKept ==
    ASSUME IsFiniteSet(ledger), LedgerContinues, Guarded, UNCHANGED <<ledger, guards>>,
           account'.seq = account.seq, account'.balance = account.balance,
           account'.credited = account.credited, account'.debited = account.debited
    PROVE  IsFiniteSet(ledger)' /\ LedgerContinues' /\ Guarded'
<1>1. Credits' = Credits
  BY DEF Credits
<1>2. LedgerContinues'
  BY <1>1 DEF LedgerContinues
<1>3. Guarded'
  BY DEF Guarded
<1> QED BY <1>2, <1>3

\* No credit, no decision on a top-up and no use of a key as one for a credit.
LEMMA CreditedKept ==
    ASSUME Credited, topup' = topup,
           {e \in ledger' : e.kind = "credit"} = {e \in ledger : e.kind = "credit"},
           \A k \in Keys : audit'[k] = "credit" <=> audit[k] = "credit"
    PROVE  Credited'
<1>1. \A e : e \in ledger' /\ e.kind = "credit" <=> e \in ledger /\ e.kind = "credit"
  <2>1. \A e : e \in {d \in ledger' : d.kind = "credit"}
                 <=> e \in {d \in ledger : d.kind = "credit"}
    OBVIOUS
  <2> QED BY <2>1
<1>2. \A ref : RefTaken(ref)' <=> RefTaken(ref)
  BY <1>1 DEF RefTaken
<1>3. AuditMatchesCredits'
  BY <1>2 DEF AuditMatchesCredits, Credited
<1>4. \A t \in Topups : topup'[t] = "approved" <=> RefTaken(TopupRef(t))'
  BY <1>2 DEF Credited
<1> QED BY <1>1, <1>3, <1>4 DEF Credited
-----------------------------------------------------------------------------
(* Sends. *)

\* A step that leaves the staff alone, whatever it does with money and sends.
LEMMA SendingKeeps ==
    ASSUME WalletInv, UNCHANGED staff,
           account' \in Accounts, (ledger \subseteq Entries)',
           guards' \in [Attempts -> [Kinds -> Nat]],
           send' \in [Attempts -> Sends], sink' \subseteq Attempts,
           IsFiniteSet(ledger)', LedgerContinues', Guarded',
           {e \in ledger' : e.kind = "credit"} = {e \in ledger : e.kind = "credit"}
    PROVE  WalletInv'
<1>1. UNCHANGED <<price, topup, audit, request>>
  BY DEF staff
<1>2. TypeOK'
  BY <1>1 DEF WalletInv, TypeOK
<1>3. Orderly'
  BY <1>1 DEF WalletInv, Orderly, Fits, Used, Does
<1>4. Credited'
  BY <1>1, CreditedKept DEF WalletInv
<1> QED BY <1>2, <1>3, <1>4 DEF WalletInv

LEMMA SendingStep ==
    ASSUME WalletInv, NEW a \in Attempts, Sending(a)
    PROVE  WalletInv'
<1> USE DEF WalletInv
<1>1. /\ account \in Accounts /\ ledger \subseteq Entries /\ price \in Int
      /\ guards \in [Attempts -> [Kinds -> Nat]]
      /\ send \in [Attempts -> Sends] /\ sink \subseteq Attempts
  BY WalletAssumption DEF TypeOK
<1>2. -price \in Int
  BY <1>1
<1>3. \A from, to : to \in Sends /\ Becomes(a, from, to) => send' \in [Attempts -> Sends]
  BY <1>1 DEF Becomes
<1>4. ASSUME UNCHANGED books
      PROVE  /\ account' \in Accounts /\ (ledger \subseteq Entries)'
             /\ guards' \in [Attempts -> [Kinds -> Nat]]
             /\ IsFiniteSet(ledger)' /\ LedgerContinues' /\ Guarded'
             /\ {e \in ledger' : e.kind = "credit"} = {e \in ledger : e.kind = "credit"}
  <2>1. UNCHANGED <<account, ledger, guards>>
    BY <1>4 DEF books
  <2> QED BY <1>1, <2>1, BooksKept
<1>5. \A k \in Kinds : k # "refund_send" /\ PostOnce(k, a, -price) =>
        /\ account' \in Accounts /\ (ledger \subseteq Entries)'
        /\ guards' \in [Attempts -> [Kinds -> Nat]]
        /\ IsFiniteSet(ledger)' /\ LedgerContinues' /\ Guarded'
        /\ {e \in ledger' : e.kind = "credit"} = {e \in ledger : e.kind = "credit"}
  BY <1>2, PostOnceKeeps
<1>6. "debit_send" \in Kinds /\ "adjustment_debit" \in Kinds
  BY DEF Kinds
<1>7. {"claimed", "sent", "acked", "lost"} \subseteq Sends
  BY DEF Sends
<1>8. CASE Claim(a)
  BY <1>1, <1>3, <1>4, <1>7, <1>8, SendingKeeps DEF Claim
<1>9. CASE SettleAck(a)
  BY <1>1, <1>3, <1>5, <1>6, <1>7, <1>9, SendingKeeps DEF SettleAck
<1>10. CASE RecordAck(a)
  BY <1>1, <1>3, <1>4, <1>7, <1>10, SendingKeeps DEF RecordAck
<1>11. CASE Repaired(a)
  BY <1>1, <1>3, <1>4, <1>7, <1>11, SendingKeeps DEF Repaired
<1>12. CASE ChargeRepaired(a)
  BY <1>1, <1>5, <1>6, <1>12, SendingKeeps DEF ChargeRepaired, sends
<1>13. CASE Adjust(a)
  BY <1>1, <1>5, <1>6, <1>13, SendingKeeps DEF Adjust, sends
<1>14. CASE GiveUp(a)
  <2>1. sink' \subseteq Attempts
    BY <1>1, <1>14 DEF GiveUp
  <2> QED BY <1>1, <1>3, <1>7, <1>14, <2>1, RefundKeeps, SendingKeeps DEF GiveUp
<1>15. CASE SinkRefund(a)
  <2>1. sink' \subseteq Attempts
    BY <1>1, <1>15 DEF SinkRefund
  <2> QED BY <1>1, <1>15, <2>1, RefundKeeps, SendingKeeps DEF SinkRefund
<1>16. CASE SinkDies(a)
  <2>1. sink' \subseteq Attempts
    BY <1>1, <1>16 DEF SinkDies
  <2> QED BY <1>1, <1>4, <1>16, <2>1, SendingKeeps DEF SinkDies
<1> QED
  BY <1>8, <1>9, <1>10, <1>11, <1>12, <1>13, <1>14, <1>15, <1>16 DEF Sending
-----------------------------------------------------------------------------
(* Staff requests. *)

\* The transaction ends: its key is used, the others go on.
LEMMA CommitKeeps ==
    ASSUME TypeOK, Orderly, NEW s \in Staff, request[s] # NoRequest, Commit(s),
           \A u \in Staff : u # s /\ Does(u, "read", "approve")
                => topup'[request[u].on] = topup[request[u].on]
    PROVE  /\ audit' \in [Keys -> Actions \cup {"none"}]
           /\ request' \in [Staff -> Requests]
           /\ Orderly'
           /\ audit[request[s].key] = "none"
           /\ \A k \in Keys : audit'[k] = IF k = request[s].key THEN request[s].action
                                          ELSE audit[k]
<1>1. /\ audit \in [Keys -> Actions \cup {"none"}] /\ request \in [Staff -> Requests]
      /\ audit' = [audit EXCEPT ![request[s].key] = request[s].action]
      /\ request' = [request EXCEPT ![s] = NoRequest]
  BY DEF Commit, TypeOK
<1>2. request[s].key \in Keys /\ request[s].action \in Actions /\ ~Used(request[s].key)
  BY DEF Orderly, Fits
<1>3. NoRequest \in Requests
  BY DEF NoRequest, Requests
<1>4. /\ audit' \in [Keys -> Actions \cup {"none"}] /\ request' \in [Staff -> Requests]
      /\ \A k \in Keys : audit'[k] = IF k = request[s].key THEN request[s].action
                                     ELSE audit[k]
  BY <1>1, <1>2, <1>3
<1>5. \A u \in Staff : request'[u] = IF u = s THEN NoRequest ELSE request[u]
  BY <1>1
<1>6. Orderly'
  <2> SUFFICES ASSUME NEW u \in Staff, (request[u] # NoRequest)'
               PROVE  Fits(u)'
    BY DEF Orderly
  <2>1. u # s /\ request'[u] = request[u] /\ request[u] # NoRequest
    BY <1>5
  <2>2. /\ request[u].key \in Keys /\ ~Used(request[u].key)
        /\ request[u].key # request[s].key
    BY <2>1 DEF Orderly, Fits
  <2>3. ~Used(request[u].key)'
    BY <1>4, <2>1, <2>2 DEF Used
  <2>4. \A v \in Staff : Does(v, "read", "approve")' => v # s /\ Does(v, "read", "approve")
    BY <1>5 DEF Does, NoRequest
  <2> QED BY <1>5, <2>1, <2>2, <2>3, <2>4 DEF Orderly, Fits, Does
<1> QED BY <1>2, <1>4, <1>6 DEF Used

\* A request that is over after a step which moves no money.
LEMMA QuietCommit ==
    ASSUME WalletInv, NEW s \in Staff, request[s] # NoRequest, Commit(s),
           request[s].action # "credit",
           account' \in Accounts, price' \in Rates, topup' = topup,
           UNCHANGED <<ledger, guards, send, sink>>,
           account'.seq = account.seq, account'.balance = account.balance,
           account'.credited = account.credited, account'.debited = account.debited
    PROVE  WalletInv'
<1> USE DEF WalletInv
<1>1. /\ audit' \in [Keys -> Actions \cup {"none"}] /\ request' \in [Staff -> Requests]
      /\ Orderly' /\ audit[request[s].key] = "none"
      /\ \A k \in Keys : audit'[k] = IF k = request[s].key THEN request[s].action
                                     ELSE audit[k]
  BY CommitKeeps
<1>2. TypeOK'
  BY <1>1 DEF TypeOK
<1>3. IsFiniteSet(ledger)' /\ LedgerContinues' /\ Guarded'
  BY BooksKept
<1>4. Credited'
  BY <1>1, CreditedKept
<1> QED BY <1>1, <1>2, <1>3, <1>4

\* A step of a request that goes on: money, sends, top-ups and the log are left alone.
LEMMA RequestKeeps ==
    ASSUME WalletInv, UNCHANGED <<books, sends, price, topup, audit>>,
           request' \in [Staff -> Requests], Orderly'
    PROVE  WalletInv'
<1> USE DEF WalletInv
<1>1. UNCHANGED <<account, ledger, guards, send, sink>>
  BY DEF books, sends
<1>2. TypeOK'
  BY <1>1 DEF TypeOK
<1>3. IsFiniteSet(ledger)' /\ LedgerContinues' /\ Guarded'
  BY <1>1, BooksKept
<1>4. Credited'
  BY <1>1, CreditedKept
<1> QED BY <1>2, <1>3, <1>4

LEMMA StateDerived ==
    \A a : NextWalletState(a) \in States
  BY DEF NextWalletState, States

LEMMA OpenStep ==
    ASSUME WalletInv, NEW s \in Staff, Open(s)
    PROVE  WalletInv'
<1> USE DEF WalletInv
<1>1. PICK k \in Keys, action \in Actions : ~Used(k) /\ ~Held(k) /\ \E o \in Objects(action) :
         request' = [request EXCEPT ![s] =
             [pc |-> "open", key |-> k, action |-> action, on |-> o, saw |-> "none"]]
  BY DEF Open
<1>2. PICK o \in Objects(action) :
         request' = [request EXCEPT ![s] =
             [pc |-> "open", key |-> k, action |-> action, on |-> o, saw |-> "none"]]
  BY <1>1
<1>3. o \in Topups \cup Rates \cup {None}
  BY <1>2 DEF Objects
<1> DEFINE new == [pc |-> "open", key |-> k, action |-> action, on |-> o, saw |-> "none"]
<1>4. new \in Requests
  BY <1>3 DEF Requests
<1>5. request \in [Staff -> Requests]
  BY DEF TypeOK
<1>6. request' \in [Staff -> Requests]
      /\ \A u \in Staff : request'[u] = IF u = s THEN new ELSE request[u]
  BY <1>2, <1>4, <1>5
<1>7. UNCHANGED <<books, sends, price, topup, audit>> /\ audit' = audit /\ topup' = topup
  BY DEF Open
<1>8. \A u \in Staff : request[u].key # k
  BY <1>1 DEF Held
<1>9. Orderly'
  <2> SUFFICES ASSUME NEW u \in Staff, (request[u] # NoRequest)'
               PROVE  Fits(u)'
    BY DEF Orderly
  <2>1. CASE u = s
    <3>1. request'[u] = new
      BY <1>6, <2>1
    <3>2. ~Does(u, "read", "approve")' /\ ~Does(u, "read", "unfreeze")'
      BY <3>1 DEF Does
    <3>3. \A v \in Staff : request'[v].key = request'[u].key => v = u
      BY <1>6, <1>8, <2>1
    <3>4. ~Used(request[u].key)'
      BY <1>1, <1>7, <3>1 DEF Used
    <3> QED BY <1>2, <3>1, <3>2, <3>3, <3>4 DEF Fits
  <2>2. CASE u # s
    <3>1. request'[u] = request[u] /\ request[u] # NoRequest
      BY <1>6, <2>2
    <3>2. \A v \in Staff : Does(v, "read", "approve")' => v # s /\ Does(v, "read", "approve")
      BY <1>6 DEF Does
    <3> QED BY <1>6, <1>7, <1>8, <2>2, <3>1, <3>2 DEF Orderly, Fits, Used, Does
  <2> QED BY <2>1, <2>2
<1> QED BY <1>6, <1>7, <1>9, RequestKeeps

\* A read: of a top-up that nobody has read with a lock, or of the account.
LEMMA SawKeeps ==
    ASSUME WalletInv, NEW s \in Staff, NEW what, Saw(s, what),
           UNCHANGED <<books, sends, price, topup, audit>>,
           \/ /\ Does(s, "open", "approve") /\ ~Locked(request[s].on)
              /\ what = topup[request[s].on] /\ what \in {"pending", "approved"}
           \/ Does(s, "open", "unfreeze") /\ what \in States \cup {"none"}
    PROVE  WalletInv'
<1> USE DEF WalletInv
<1>0. audit' = audit /\ topup' = topup
  OBVIOUS
<1> DEFINE new == [request[s] EXCEPT !.pc = "read", !.saw = what]
<1>1. request \in [Staff -> Requests] /\ request[s] \in Requests
  BY DEF TypeOK
<1>2. request[s] # NoRequest
  BY DEF Does, NoRequest
<1>3. /\ new \in Requests /\ new.pc = "read" /\ new.saw = what /\ new.key = request[s].key
      /\ new.action = request[s].action /\ new.on = request[s].on
  BY <1>1 DEF Requests
<1>4. request' = [request EXCEPT ![s] = new]
  BY <1>1 DEF Saw
<1> HIDE DEF new
<1>5. request' \in [Staff -> Requests]
      /\ \A u \in Staff : request'[u] = IF u = s THEN new ELSE request[u]
  BY <1>1, <1>3, <1>4
<1>6. Orderly'
  <2> SUFFICES ASSUME NEW u \in Staff, (request[u] # NoRequest)'
               PROVE  Fits(u)'
    BY DEF Orderly
  <2>1. request[u] # NoRequest
    BY <1>2, <1>5
  <2>2. request'[u].key = request[u].key /\ request'[u].action = request[u].action
        /\ request'[u].on = request[u].on /\ request'[u].pc \in {"open", "read"}
    BY <1>3, <1>5, <2>1 DEF Orderly, Fits
  <2>3. /\ request'[u].key \in Keys /\ ~Used(request[u].key)'
        /\ request'[u].action \in Actions
        /\ request'[u].on \in Objects(request'[u].action)
    BY <1>0, <2>1, <2>2 DEF Orderly, Fits, Used
  <2>4. \A v \in Staff : request'[v] # NoRequest
          /\ request'[v].key = request'[u].key => v = u
    BY <1>2, <1>3, <1>5, <2>1, <2>2 DEF Orderly, Fits
  <2>5. ASSUME Does(u, "read", "approve")'
        PROVE  /\ request'[u].saw = topup'[request'[u].on]
               /\ request'[u].saw \in {"pending", "approved"}
               /\ \A v \in Staff : Does(v, "read", "approve")'
                    /\ request'[v].on = request'[u].on => v = u
    BY <1>0, <1>2, <1>3, <1>5, <2>1, <2>2, <2>5 DEF Orderly, Fits, Does, Locked
  <2>6. Does(u, "read", "unfreeze")' => request'[u].saw \in States \cup {"none"}
    BY <1>2, <1>3, <1>5, <2>1, <2>2 DEF Orderly, Fits, Does, Locked
  <2> QED BY <2>2, <2>3, <2>4, <2>5, <2>6 DEF Fits
<1> QED BY <1>5, <1>6, RequestKeeps

\* A credit with a reference nobody has: a key's, or an approved top-up's.
LEMMA CreditKeeps ==
    ASSUME WalletInv, NEW s \in Staff, request[s] # NoRequest, Commit(s),
           NEW ref \in Refs, ~RefTaken(ref), CreditOnce(ref), UNCHANGED <<sends, price>>,
           topup' \in [Topups -> {"pending", "approved", "rejected"}],
           \A u \in Staff : u # s /\ Does(u, "read", "approve")
                => topup'[request[u].on] = topup[request[u].on],
           ref \in {TopupRef(t) : t \in Topups} \cup {KeyRef(k) : k \in Keys},
           \A t \in Topups : topup'[t] = "approved"
                <=> topup[t] = "approved" \/ ref = TopupRef(t),
           request[s].action = "credit" <=> ref = KeyRef(request[s].key),
           \A k \in Keys : ref = KeyRef(k) => k = request[s].key
    PROVE  WalletInv'
<1> USE DEF WalletInv
<1>1. /\ audit' \in [Keys -> Actions \cup {"none"}] /\ request' \in [Staff -> Requests]
      /\ Orderly' /\ audit[request[s].key] = "none"
      /\ \A k \in Keys : audit'[k] = IF k = request[s].key THEN request[s].action
                                     ELSE audit[k]
  BY CommitKeeps
<1>2. ref # SignupRef
  BY RefsDiffer
<1>3. Post("credit", ref, Credit) /\ guards' = guards
  BY DEF CreditOnce
<1>4. /\ account' \in Accounts /\ (ledger \subseteq Entries)'
      /\ IsFiniteSet(ledger)' /\ LedgerContinues' /\ Guarded'
      /\ ledger' = ledger \cup {Added("credit", ref, Credit)}
  BY <1>2, <1>3, PostCredits
<1>5. TypeOK'
  BY <1>1, <1>3, <1>4 DEF TypeOK, sends
<1> DEFINE new == Added("credit", ref, Credit)
<1>6. new.kind = "credit" /\ new.ref = ref
  BY DEF Added
<1>7. ledger' = ledger \cup {new}
  BY <1>4
<1> HIDE DEF new
<1>8. \A r : RefTaken(r)' <=> RefTaken(r) \/ r = ref
  BY <1>6, <1>7 DEF RefTaken
<1>9. Credited'
  <2>1. \A e \in ledger' : e.kind = "credit" =>
          e.ref \in {TopupRef(t) : t \in Topups} \cup {KeyRef(k) : k \in Keys} \cup {SignupRef}
    BY <1>6, <1>7 DEF Credited
  <2>2. \A e, f \in ledger' : e.kind = "credit" /\ f.kind = "credit" /\ e.ref = f.ref => e = f
    BY <1>6, <1>7 DEF Credited, RefTaken
  <2>3. \A t \in Topups : topup'[t] = "approved" <=> RefTaken(TopupRef(t))'
    BY <1>8 DEF Credited
  <2>4. AuditMatchesCredits'
    <3> SUFFICES ASSUME NEW k \in Keys
                 PROVE  audit'[k] = "credit" <=> RefTaken(KeyRef(k))'
      BY DEF AuditMatchesCredits
    <3>1. audit[k] = "credit" <=> RefTaken(KeyRef(k))
      BY DEF Credited, AuditMatchesCredits
    <3>2. RefTaken(KeyRef(k))' <=> RefTaken(KeyRef(k)) \/ KeyRef(k) = ref
      BY <1>8
    <3>3. CASE k = request[s].key
      BY <1>1, <3>1, <3>2, <3>3
    <3>4. CASE k # request[s].key
      BY <1>1, <3>1, <3>2, <3>4
    <3> QED BY <3>3, <3>4
  <2> QED BY <2>1, <2>2, <2>3, <2>4 DEF Credited
<1> QED BY <1>1, <1>4, <1>5, <1>9

LEMMA CreditStep ==
    ASSUME WalletInv, NEW s \in Staff, CommitCredit(s)
    PROVE  WalletInv'
<1>1. /\ request[s] # NoRequest /\ request[s].action = "credit" /\ request[s].key \in Keys
      /\ audit[request[s].key] = "none"
  BY DEF WalletInv, Orderly, Fits, CommitCredit, Does, NoRequest, Used
<1> DEFINE ref == KeyRef(request[s].key)
<1>2. /\ ref \in Refs /\ ~RefTaken(ref)
      /\ ref \in {TopupRef(t) : t \in Topups} \cup {KeyRef(k) : k \in Keys}
  BY <1>1 DEF Refs, WalletInv, Credited, AuditMatchesCredits
<1>3. /\ \A t \in Topups : ref # TopupRef(t)
      /\ \A k \in Keys : ref = KeyRef(k) => k = request[s].key
  BY <1>1, RefsDiffer
<1>4. topup' = topup /\ UNCHANGED <<sends, price>> /\ CreditOnce(ref) /\ Commit(s)
  BY DEF CommitCredit
<1>5. topup' \in [Topups -> {"pending", "approved", "rejected"}]
  BY <1>4 DEF WalletInv, TypeOK
<1> HIDE DEF ref
<1>6. request[s].action = "credit" <=> ref = KeyRef(request[s].key)
  BY <1>1 DEF ref
<1> QED BY <1>1, <1>2, <1>3, <1>4, <1>5, <1>6, CreditKeeps

LEMMA ApproveStep ==
    ASSUME WalletInv, NEW s \in Staff, CommitApprove(s)
    PROVE  WalletInv'
<1> DEFINE t == request[s].on
           ref == TopupRef(t)
<1>1. /\ request[s] # NoRequest /\ request[s].action = "approve" /\ request[s].key \in Keys
      /\ t \in Topups /\ request[s].saw = topup[t] /\ topup[t] \in {"pending", "approved"}
      /\ \A u \in Staff : Does(u, "read", "approve") /\ request[u].on = t => u = s
  BY DEF WalletInv, Orderly, Fits, CommitApprove, Does, NoRequest, Objects
<1>2. topup \in [Topups -> {"pending", "approved", "rejected"}]
  BY DEF WalletInv, TypeOK
<1>3. /\ topup' = [topup EXCEPT ![t] = IF request[s].saw = "pending" /\ @ = "pending"
                                        THEN "approved" ELSE @]
      /\ CreditOnce(ref) /\ Commit(s) /\ UNCHANGED <<sends, price>>
  BY DEF CommitApprove
<1>4. topup' = [topup EXCEPT ![t] = "approved"]
  BY <1>1, <1>2, <1>3
<1>5. \A u \in Staff : u # s /\ Does(u, "read", "approve")
        => topup'[request[u].on] = topup[request[u].on]
  BY <1>1, <1>2, <1>4
<1>6. topup' \in [Topups -> {"pending", "approved", "rejected"}]
      /\ \A u \in Topups : topup'[u] = "approved" <=> topup[u] = "approved" \/ u = t
  BY <1>1, <1>2, <1>4
<1>7. CASE topup[t] = "pending"
  <2>1. /\ ref \in Refs /\ ~RefTaken(ref)
        /\ ref \in {TopupRef(u) : u \in Topups} \cup {KeyRef(k) : k \in Keys}
    BY <1>1, <1>7 DEF Refs, WalletInv, Credited
  <2>2. \A u \in Topups : topup'[u] = "approved" <=> topup[u] = "approved" \/ ref = TopupRef(u)
    BY <1>1, <1>6, RefsDiffer
  <2>3. \A k \in Keys : ref # KeyRef(k)
    BY <1>1, RefsDiffer
  <2> HIDE DEF ref, t
  <2> QED BY <1>1, <1>3, <1>5, <1>6, <2>1, <2>2, <2>3, CreditKeeps
<1>8. CASE topup[t] = "approved"
  <2>1. RefTaken(ref)
    BY <1>1, <1>8 DEF WalletInv, Credited
  <2>2. UNCHANGED <<account, ledger, guards>>
    BY <1>3, <2>1 DEF CreditOnce, books
  <2>3. topup' = topup
    BY <1>2, <1>4, <1>8
  <2>4. account' \in Accounts /\ price' \in Rates
    BY <1>3, <2>2 DEF WalletInv, TypeOK
  <2>5. UNCHANGED <<send, sink>>
    BY <1>3 DEF sends
  <2> QED BY <1>1, <1>3, <2>2, <2>3, <2>4, <2>5, QuietCommit
<1> QED BY <1>1, <1>7, <1>8

LEMMA RejectStep ==
    ASSUME WalletInv, NEW s \in Staff, CommitReject(s)
    PROVE  WalletInv'
<1> USE DEF WalletInv
<1> DEFINE t == request[s].on
<1>1. /\ request[s] # NoRequest /\ request[s].action = "reject" /\ t \in Topups
  BY DEF Orderly, Fits, CommitReject, Does, NoRequest, Objects
<1>2. /\ topup[t] = "pending" /\ topup' = [topup EXCEPT ![t] = "rejected"] /\ ~Locked(t)
      /\ Commit(s) /\ UNCHANGED <<account, ledger, guards, send, sink, price>>
  BY DEF CommitReject, books, sends
<1>3. topup \in [Topups -> {"pending", "approved", "rejected"}]
  BY DEF TypeOK
<1>4. \A u \in Staff : u # s /\ Does(u, "read", "approve")
        => topup'[request[u].on] = topup[request[u].on]
  BY <1>2, <1>3 DEF Locked
<1>5. /\ audit' \in [Keys -> Actions \cup {"none"}] /\ request' \in [Staff -> Requests]
      /\ Orderly' /\ audit[request[s].key] = "none"
      /\ \A k \in Keys : audit'[k] = IF k = request[s].key THEN request[s].action
                                     ELSE audit[k]
  BY <1>1, <1>2, <1>4, CommitKeeps
<1>6. topup' \in [Topups -> {"pending", "approved", "rejected"}]
      /\ \A u \in Topups : topup'[u] = "approved" <=> topup[u] = "approved"
  BY <1>1, <1>2, <1>3
<1>7. TypeOK'
  BY <1>2, <1>5, <1>6 DEF TypeOK
<1>8. IsFiniteSet(ledger)' /\ LedgerContinues' /\ Guarded'
  BY <1>2, BooksKept
<1>9. Credited'
  <2>1. \A ref : RefTaken(ref)' <=> RefTaken(ref)
    BY <1>2 DEF RefTaken
  <2>2. AuditMatchesCredits'
    BY <1>1, <1>5, <2>1 DEF Credited, AuditMatchesCredits
  <2> QED BY <1>2, <1>6, <2>1, <2>2 DEF Credited
<1> QED BY <1>5, <1>7, <1>8, <1>9

\* The account row gets a state or a rate and is otherwise as it was.
LEMMA RowKept ==
    ASSUME NEW a \in Accounts, NEW st \in States, NEW rate \in Rates
    PROVE  /\ [a EXCEPT !.state = st] \in Accounts /\ [a EXCEPT !.maxRate = rate] \in Accounts
           /\ \A b \in {[a EXCEPT !.state = st], [a EXCEPT !.maxRate = rate]} :
                /\ b.seq = a.seq /\ b.balance = a.balance
                /\ b.credited = a.credited /\ b.debited = a.debited
  BY DEF Accounts

LEMMA FreezeStep ==
    ASSUME WalletInv, NEW s \in Staff,
           CommitFreeze(s) \/ CommitUnfreeze(s) \/ CommitPricing(s)
    PROVE  WalletInv'
<1>1. account \in Accounts /\ account.state \in States /\ price \in Rates
  BY DEF WalletInv, TypeOK, Accounts
<1>2. CASE CommitFreeze(s)
  <2>1. request[s] # NoRequest /\ request[s].action # "credit"
    BY <1>2 DEF CommitFreeze, Does, NoRequest
  <2>2. /\ account' = [account EXCEPT !.state = "frozen"] /\ Commit(s) /\ price' = price
        /\ topup' = topup /\ UNCHANGED <<ledger, guards, send, sink>>
    BY <1>2 DEF CommitFreeze, sends
  <2>3. "frozen" \in States
    BY DEF States
  <2> QED BY <1>1, <2>1, <2>2, <2>3, RowKept, QuietCommit
<1>3. CASE CommitUnfreeze(s)
  <2>1. /\ request[s] # NoRequest /\ request[s].action # "credit"
        /\ request[s].saw \in States \cup {"none"}
    BY <1>3 DEF CommitUnfreeze, Does, NoRequest, WalletInv, Orderly, Fits
  <2>2. /\ account' = [account EXCEPT !.state =
                         IF @ = "frozen" /\ request[s].saw # "none" THEN request[s].saw ELSE @]
        /\ Commit(s) /\ price' = price
        /\ topup' = topup /\ UNCHANGED <<ledger, guards, send, sink>>
    BY <1>3 DEF CommitUnfreeze, sends
  <2>3. PICK st \in States : account' = [account EXCEPT !.state = st]
    BY <1>1, <2>1, <2>2 DEF Accounts
  <2>4. /\ account' \in Accounts /\ account'.seq = account.seq
        /\ account'.balance = account.balance
        /\ account'.credited = account.credited /\ account'.debited = account.debited
    BY <1>1, <2>3, RowKept
  <2>5. /\ Commit(s) /\ price' \in Rates /\ topup' = topup
        /\ UNCHANGED <<ledger, guards, send, sink>>
    BY <1>1, <2>2
  <2> QED BY <2>1, <2>4, <2>5, QuietCommit
<1>4. CASE CommitPricing(s)
  <2>1. /\ request[s] # NoRequest /\ request[s].action # "credit" /\ request[s].on \in Rates
    BY <1>4 DEF CommitPricing, Does, NoRequest, WalletInv, Orderly, Fits, Objects
  <2>2. /\ account' = [account EXCEPT !.maxRate = request[s].on] /\ price' = request[s].on
        /\ Commit(s) /\ topup' = topup /\ UNCHANGED <<ledger, guards, send, sink>>
    BY <1>4 DEF CommitPricing, sends
  <2> QED BY <1>1, <2>1, <2>2, RowKept, QuietCommit
<1> QED BY <1>2, <1>3, <1>4

LEMMA RollbackStep ==
    ASSUME WalletInv, NEW s \in Staff, Rollback(s)
    PROVE  WalletInv'
<1> USE DEF WalletInv
<1>1. /\ request' = [request EXCEPT ![s] = NoRequest]
      /\ UNCHANGED <<books, sends, price, topup, audit>> /\ audit' = audit /\ topup' = topup
  BY DEF Rollback
<1>2. request \in [Staff -> Requests] /\ NoRequest \in Requests
  BY DEF TypeOK, Requests, NoRequest
<1>3. request' \in [Staff -> Requests]
      /\ \A u \in Staff : request'[u] = IF u = s THEN NoRequest ELSE request[u]
  BY <1>1, <1>2
<1>4. Orderly'
  <2> SUFFICES ASSUME NEW u \in Staff, (request[u] # NoRequest)'
               PROVE  Fits(u)'
    BY DEF Orderly
  <2>1. u # s /\ request'[u] = request[u] /\ request[u] # NoRequest
    BY <1>3
  <2>2. \A v \in Staff : Does(v, "read", "approve")' => v # s /\ Does(v, "read", "approve")
    BY <1>3 DEF Does, NoRequest
  <2> QED BY <1>1, <1>3, <2>1, <2>2 DEF Orderly, Fits, Does, Used
<1> QED BY <1>1, <1>3, <1>4, RequestKeeps
-----------------------------------------------------------------------------
(* The invariant. *)

LEMMA Start ==
    ASSUME Init
    PROVE  WalletInv
<1> DEFINE first == [seq |-> 1, kind |-> "credit", ref |-> SignupRef,
                     amount |-> Signup, after |-> Signup]
<1>1. ledger = {first} /\ account.seq = 1 /\ account.balance = Signup
      /\ account.credited = Signup /\ account.debited = 0 /\ Signup \in Nat /\ Credit \in Int
  BY WalletAssumption DEF Init
<1>2. TypeOK
  <2>1. account \in Accounts /\ price \in Rates
    BY WalletAssumption DEF Init, Accounts, States
  <2>2. ledger \subseteq Entries
    BY <1>1 DEF Entries, Refs
  <2>3. guards \in [Attempts -> [Kinds -> Nat]]
    BY DEF Init, None
  <2>4. send \in [Attempts -> Sends] /\ sink \subseteq Attempts
        /\ topup \in [Topups -> {"pending", "approved", "rejected"}]
        /\ audit \in [Keys -> Actions \cup {"none"}]
    BY DEF Init, Sends
  <2>5. request \in [Staff -> Requests]
    BY DEF Init, NoRequest, Requests
  <2> QED BY <2>1, <2>2, <2>3, <2>4, <2>5 DEF TypeOK
<1>3. IsFiniteSet(ledger)
  BY <1>1, FS_Singleton
<1>4. LedgerContinues
  <2>1. Credits = {}
    BY <1>1 DEF Credits
  <2>2. Cardinality(Credits) = 0
    BY <2>1, FS_EmptySet
  <2>3. Credit * 0 = 0
    BY WalletAssumption
  <2>4. {e.seq : e \in ledger} = 1 .. 1
    BY <1>1
  <2> QED BY <1>1, <2>2, <2>3, <2>4 DEF LedgerContinues
<1>5. Orderly
  BY DEF Init, Orderly
<1>6. Guarded
  <2>1. \A e \in ledger : e.kind \notin Kinds /\ e.kind # "refund_send"
    BY <1>1 DEF Kinds
  <2> QED BY <2>1 DEF Guarded, Init
<1>7. Credited
  <2>1. /\ \A t \in Topups : ~RefTaken(TopupRef(t)) /\ topup[t] = "pending"
        /\ \A k \in Keys : ~RefTaken(KeyRef(k)) /\ audit[k] = "none"
    BY <1>1, RefsDiffer DEF RefTaken, Init
  <2> QED BY <1>1, <2>1 DEF Credited, AuditMatchesCredits
<1> QED BY <1>2, <1>3, <1>4, <1>5, <1>6, <1>7 DEF WalletInv

LEMMA Step ==
    ASSUME WalletInv, [Next]_vars
    PROVE  WalletInv'
<1>1. ASSUME NEW a \in Attempts, Sending(a)
      PROVE  WalletInv'
  BY <1>1, SendingStep
<1>2. ASSUME NEW s \in Staff, Serving(s)
      PROVE  WalletInv'
  <2>1. CASE Open(s)
    BY <2>1, OpenStep
  <2>2. CASE ReadTopup(s)
    <3>1. topup[request[s].on] \in {"pending", "approved", "rejected"}
      BY <2>2 DEF ReadTopup, Does, NoRequest, WalletInv, TypeOK, Orderly, Fits, Objects
    <3> QED BY <2>2, <3>1, SawKeeps DEF ReadTopup
  <2>3. CASE ReadFrozen(s)
    <3> DEFINE what == IF account.state = "frozen"
                       THEN NextWalletState([account EXCEPT !.state = "active"]) ELSE "none"
    <3>1. what \in States \cup {"none"}
      BY StateDerived
    <3>2. Saw(s, what) /\ Does(s, "open", "unfreeze")
          /\ UNCHANGED <<books, sends, price, topup, audit>>
      BY <2>3 DEF ReadFrozen
    <3> HIDE DEF what
    <3> QED BY <3>1, <3>2, SawKeeps
  <2>4. CASE CommitCredit(s)
    BY <2>4, CreditStep
  <2>5. CASE CommitApprove(s)
    BY <2>5, ApproveStep
  <2>6. CASE CommitReject(s)
    BY <2>6, RejectStep
  <2>7. CASE CommitFreeze(s) \/ CommitUnfreeze(s) \/ CommitPricing(s)
    BY <2>7, FreezeStep
  <2>8. CASE Rollback(s)
    BY <2>8, RollbackStep
  <2> QED
    BY <1>2, <2>1, <2>2, <2>3, <2>4, <2>5, <2>6, <2>7, <2>8 DEF Serving
<1>3. CASE UNCHANGED vars
  <2>1. UNCHANGED <<account, ledger, guards, send, sink, price, topup, audit, request>>
    BY <1>3 DEF vars, books, sends, staff
  <2>2. TypeOK' /\ Orderly'
    BY <2>1 DEF WalletInv, TypeOK, Orderly, Fits, Used, Does
  <2>3. IsFiniteSet(ledger)' /\ LedgerContinues' /\ Guarded'
    BY <2>1, BooksKept DEF WalletInv
  <2>4. Credited'
    BY <2>1, CreditedKept DEF WalletInv
  <2> QED BY <2>2, <2>3, <2>4 DEF WalletInv
<1> QED BY <1>1, <1>2, <1>3 DEF Next

LEMMA Invariance == Spec => []WalletInv
  BY Start, Step, PTL DEF Spec
-----------------------------------------------------------------------------
(* The theorems. *)

\* Every row is one of the schema: no statement that moves money, derives a
\* state or stamps a guard leaves the types of the columns it writes.
THEOREM TypeCorrect == Spec => []TypeOK
<1>1. WalletInv => TypeOK
  BY DEF WalletInv
<1> QED BY <1>1, Invariance, PTL

\* What check A of the wallet reconciler looks for never exists: the ledger rows
\* number 1 .. entry_seq without a gap, each continues the balance before it, and
\* the lifetime sums are those of the rows, whoever moves money against whom.
THEOREM LedgerIsContinuous == Spec => []LedgerContinues
<1>1. WalletInv => LedgerContinues
  BY DEF WalletInv
<1> QED BY <1>1, Invariance, PTL

\* A refund gives back what its debit took, after it, and once: the guard rows of
\* an attempt point to the one charge and the one refund it may have.
THEOREM RefundsReverse == Spec => []RefundReversesDebit
<1>1. ASSUME WalletInv
      PROVE  RefundReversesDebit
  <2> SUFFICES ASSUME NEW e \in ledger, e.kind = "refund_send"
               PROVE  /\ \E d \in ledger : d.kind = "debit_send" /\ d.ref = e.ref
                                             /\ d.seq < e.seq /\ d.amount = -e.amount
                      /\ \A f \in ledger : f.kind = "refund_send" /\ f.ref = e.ref => f = e
    BY DEF RefundReversesDebit
  <2>1. \E d \in ledger : d.kind = "debit_send" /\ d.ref = e.ref
                             /\ d.seq < e.seq /\ d.amount = -e.amount
    BY <1>1 DEF WalletInv, Guarded
  <2>2. ASSUME NEW f \in ledger, f.kind = "refund_send", f.ref = e.ref
        PROVE  f = e
    <3>1. PICK a \in Attempts : e.ref = SendRef(a) /\ guards[a]["refund_send"] = e.seq
      BY <1>1 DEF WalletInv, Guarded, Kinds
    <3>2. PICK b \in Attempts : f.ref = SendRef(b) /\ guards[b]["refund_send"] = f.seq
      BY <1>1, <2>2 DEF WalletInv, Guarded, Kinds
    <3>3. a = b
      BY <2>2, <3>1, <3>2, RefsDiffer
    <3> QED BY <1>1, <3>1, <3>2, <3>3 DEF WalletInv, LedgerContinues
  <2> QED BY <2>1, <2>2
<1> QED BY <1>1, Invariance, PTL

\* A top-up is credited once if it was approved and never otherwise, however many
\* requests decide on it together: the one that has read it holds its row lock.
THEOREM TopupsPaidOnce == Spec => []TopupPaidOnce
<1>1. ASSUME WalletInv
      PROVE  TopupPaidOnce
  <2> SUFFICES ASSUME NEW t \in Topups
               PROVE  Cardinality({e \in ledger : e.ref = TopupRef(t)})
                        = IF topup[t] = "approved" THEN 1 ELSE 0
    BY DEF TopupPaidOnce
  <2>1. \A e \in ledger : e.ref = TopupRef(t) => e.kind = "credit"
    <3> SUFFICES ASSUME NEW e \in ledger, e.ref = TopupRef(t), e.kind # "credit"
                 PROVE  FALSE
      OBVIOUS
    <3>1. e.kind \in Kinds
      BY <1>1 DEF WalletInv, TypeOK, Entries
    <3> QED BY <1>1, <3>1, RefsDiffer DEF WalletInv, Guarded
  <2>2. CASE topup[t] = "approved"
    <3>1. PICK e \in ledger : e.ref = TopupRef(t) /\ e.kind = "credit"
      BY <1>1, <2>2 DEF WalletInv, Credited, RefTaken
    <3>2. {d \in ledger : d.ref = TopupRef(t)} = {e}
      BY <1>1, <2>1, <3>1 DEF WalletInv, Credited
    <3> QED BY <2>2, <3>2, FS_Singleton
  <2>3. CASE topup[t] # "approved"
    <3>1. {d \in ledger : d.ref = TopupRef(t)} = {}
      BY <1>1, <2>1, <2>3 DEF WalletInv, Credited, RefTaken
    <3> QED BY <2>3, <3>1, FS_EmptySet
  <2> QED BY <2>2, <2>3
<1> QED BY <1>1, Invariance, PTL

\* The log says that a key was used for a credit exactly when the ledger has one
\* with it, though requests die between their statements.
THEOREM AuditMatches == Spec => []AuditMatchesCredits
<1>1. WalletInv => AuditMatchesCredits
  BY DEF WalletInv, Credited
<1> QED BY <1>1, Invariance, PTL
=============================================================================
