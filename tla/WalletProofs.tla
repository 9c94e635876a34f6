---------------------------- MODULE WalletProofs ----------------------------
(***************************************************************************)
(* The wallet's balance is exact for every number of tenants, requests and *)
(* workers.  CreditedExactlyOnce is not inductive by itself: a transaction *)
(* in flight carries a sum it computed earlier, so the invariant also says *)
(* that this sum is still the committed balance plus the one amount, which *)
(* holds because the balance row has been locked since.                    *)
(***************************************************************************)
EXTENDS Wallet, TLAPS

(* Every transaction in flight holds the claim on the one pending request  *)
(* it decides.                                                             *)
ClaimsHeld ==
    \A w \in Workers :
        phase[w] # "idle" =>
            /\ target[w] \in Payments
            /\ claim[target[w]] = w
            /\ status[target[w]] = "pending"

(* A written and uncommitted balance is the committed one plus the amount, *)
(* and its row is locked by the transaction that wrote it.                 *)
WritesCurrent ==
    \A w \in Workers :
        phase[w] = "credited" =>
            LET t == TenantOf[target[w]] IN
            /\ rowLock[t] = w
            /\ written[w] = Credited(credits[t], target[w])

(* A tenant without a balance row has been credited nothing. *)
EmptyWithoutRow ==
    \A t \in Tenants : ~hasRow[t] => credits[t] = NoCredit

IInv ==
    /\ TypeOK
    /\ ClaimsHeld
    /\ WritesCurrent
    /\ EmptyWithoutRow
    /\ CreditedExactlyOnce

-----------------------------------------------------------------------------

LEMMA InitIInv == Init => IInv
BY TenantOfAssumption
DEF Init, IInv, TypeOK, ClaimsHeld, WritesCurrent, EmptyWithoutRow,
    CreditedExactlyOnce, NoCredit, Phases, Credited

LEMMA TopupIInv ==
    ASSUME IInv, NEW p \in Payments, Topup(p)
    PROVE  IInv'
BY TenantOfAssumption, NoWorkerAssumption
DEF IInv, TypeOK, Topup, ClaimsHeld, WritesCurrent, EmptyWithoutRow, CreditedExactlyOnce

LEMMA ClaimIInv ==
    ASSUME IInv, NEW w \in Workers, NEW p \in Payments,
           NEW next \in {"claimed", "rejected"}, Claim(w, p, next)
    PROVE  IInv'
BY TenantOfAssumption, NoWorkerAssumption
DEF IInv, TypeOK, Claim, Claimable, tables, Phases, NoCredit,
    ClaimsHeld, WritesCurrent, EmptyWithoutRow, CreditedExactlyOnce

LEMMA GoOnIInv ==
    ASSUME IInv, NEW w \in Workers, phase[w] # "idle",
           NEW next \in {"insert", "retry"}, GoOn(w, next)
    PROVE  IInv'
BY TenantOfAssumption, NoWorkerAssumption
DEF IInv, TypeOK, GoOn, tables, Phases,
    ClaimsHeld, WritesCurrent, EmptyWithoutRow, CreditedExactlyOnce

(* The statement that writes the balance: the lock it takes was free, so no *)
(* other transaction has a sum of its own for this row.                     *)
LEMMA WriteBalanceIInv ==
    ASSUME IInv, NEW w \in Workers, phase[w] # "idle", WriteBalance(w)
    PROVE  IInv'
<1> DEFINE p == target[w]
           t == TenantOf[p]
<1>1. /\ p \in Payments /\ t \in Tenants
      /\ claim[p] = w /\ status[p] = "pending"
  BY TenantOfAssumption DEF IInv, ClaimsHeld
<1>2. BalanceBefore(t) = credits[t]
  BY <1>1 DEF IInv, EmptyWithoutRow, BalanceBefore
<1>3. TypeOK'
  BY <1>1, <1>2 DEF IInv, TypeOK, WriteBalance, tables, Credited, Phases
<1>4. ClaimsHeld'
  BY <1>1 DEF IInv, TypeOK, ClaimsHeld, WriteBalance, tables
<1>5. WritesCurrent'
  <2> SUFFICES ASSUME NEW v \in Workers, phase'[v] = "credited"
               PROVE  LET u == TenantOf[target'[v]] IN
                      /\ rowLock'[u] = v
                      /\ written'[v] = Credited(credits'[u], target'[v])
    BY DEF WritesCurrent
  <2>1. CASE v = w
    BY <1>1, <1>2, <2>1 DEF IInv, TypeOK, WriteBalance, tables
  <2>2. CASE v # w
    <3>1. phase'[v] = phase[v] /\ target'[v] = target[v] /\ written'[v] = written[v] /\ TenantOf[target[v]] # t
      BY <1>1, <2>2, NoWorkerAssumption
      DEF IInv, TypeOK, WritesCurrent, WriteBalance, tables
    <3> QED
      BY <1>1, <2>2, <3>1 DEF IInv, TypeOK, WritesCurrent, WriteBalance, tables
  <2> QED BY <2>1, <2>2
<1>6. EmptyWithoutRow' /\ CreditedExactlyOnce'
  BY DEF IInv, EmptyWithoutRow, CreditedExactlyOnce, WriteBalance, tables
<1> QED BY <1>3, <1>4, <1>5, <1>6 DEF IInv

(* What a transaction that ends does to the others: nothing. *)
OnlyOwnReleased(w) ==
    /\ claim' \in [Payments -> Workers \cup {NoWorker}]
    /\ rowLock' \in [Tenants -> Workers \cup {NoWorker}]
    /\ phase' = [phase EXCEPT ![w] = "idle"]
    /\ target' = [target EXCEPT ![w] = NoPayment]
    /\ written' = [written EXCEPT ![w] = NoCredit]
    /\ \A v \in Workers : v # w /\ phase[v] # "idle" => claim'[target[v]] = v
    /\ \A v \in Workers : v # w /\ phase[v] = "credited" =>
          rowLock'[TenantOf[target[v]]] = v

LEMMA ReleaseOthers ==
    ASSUME IInv, NEW w \in Workers, Release(w)
    PROVE  OnlyOwnReleased(w)
BY TenantOfAssumption
DEF IInv, TypeOK, ClaimsHeld, WritesCurrent, Release, OnlyOwnReleased

LEMMA CommitApprovalIInv ==
    ASSUME IInv, NEW w \in Workers, CommitApproval(w)
    PROVE  IInv'
<1> DEFINE p == target[w]
           t == TenantOf[p]
<1>1. /\ p \in Payments /\ t \in Tenants
      /\ claim[p] = w /\ status[p] = "pending" /\ rowLock[t] = w
      /\ written[w] = Credited(credits[t], p)
  BY TenantOfAssumption DEF IInv, ClaimsHeld, WritesCurrent, CommitApproval
<1>2. /\ status' = [status EXCEPT ![p] = "confirmed"]
      /\ hasRow' = [hasRow EXCEPT ![t] = TRUE]
      /\ credits' = [credits EXCEPT ![t] = Credited(credits[t], p)]
      /\ Release(w)
  BY <1>1 DEF CommitApproval, ConfirmedStatus
<1>3. \A v \in Workers : v # w /\ phase[v] # "idle" => target[v] # p
  BY <1>1 DEF IInv, ClaimsHeld
<1>4. \A v \in Workers : v # w /\ phase[v] = "credited" =>
        TenantOf[target[v]] # t
  BY <1>1 DEF IInv, WritesCurrent
<1>0. OnlyOwnReleased(w)
  BY <1>2, ReleaseOthers
<1>5. TypeOK'
  BY <1>1, <1>2, <1>0 DEF OnlyOwnReleased, IInv, TypeOK, NoCredit, Credited, Phases
<1>6. ClaimsHeld'
  BY <1>1, <1>2, <1>3, <1>0 DEF OnlyOwnReleased, IInv, TypeOK, ClaimsHeld
<1>7. WritesCurrent'
  BY <1>1, <1>2, <1>4, <1>0, TenantOfAssumption
  DEF OnlyOwnReleased, IInv, TypeOK, ClaimsHeld, WritesCurrent
<1>8. EmptyWithoutRow'
  BY <1>1, <1>2 DEF IInv, TypeOK, EmptyWithoutRow
<1>9. CreditedExactlyOnce'
  BY <1>1, <1>2 DEF IInv, TypeOK, CreditedExactlyOnce, Credited
<1> QED BY <1>5, <1>6, <1>7, <1>8, <1>9 DEF IInv

LEMMA CommitRejectionIInv ==
    ASSUME IInv, NEW w \in Workers, CommitRejection(w)
    PROVE  IInv'
<1> DEFINE p == target[w]
<1>1. p \in Payments /\ claim[p] = w /\ status[p] = "pending"
  BY DEF IInv, ClaimsHeld, CommitRejection
<1>2. /\ status' = [status EXCEPT ![p] = "cancelled"]
      /\ UNCHANGED <<hasRow, credits>>
      /\ Release(w)
  BY DEF CommitRejection
<1>3. \A v \in Workers : v # w /\ phase[v] # "idle" => target[v] # p
  BY <1>1 DEF IInv, ClaimsHeld
<1>0. OnlyOwnReleased(w)
  BY <1>2, ReleaseOthers
<1>4. TypeOK'
  BY <1>1, <1>2, <1>0 DEF OnlyOwnReleased, IInv, TypeOK, NoCredit, Credited, Phases
<1>5. ClaimsHeld'
  BY <1>1, <1>2, <1>3, <1>0 DEF OnlyOwnReleased, IInv, TypeOK, ClaimsHeld
<1>6. WritesCurrent'
  BY <1>1, <1>2, <1>0 DEF OnlyOwnReleased, IInv, TypeOK, WritesCurrent
<1>7. EmptyWithoutRow' /\ CreditedExactlyOnce'
  BY <1>1, <1>2 DEF IInv, TypeOK, EmptyWithoutRow, CreditedExactlyOnce
<1> QED BY <1>4, <1>5, <1>6, <1>7 DEF IInv

LEMMA AbortIInv ==
    ASSUME IInv, NEW w \in Workers, Abort(w)
    PROVE  IInv'
<1>1. UNCHANGED <<status, hasRow, credits>> /\ Release(w)
  BY DEF Abort, tables
<1>0. OnlyOwnReleased(w)
  BY <1>1, ReleaseOthers
<1>2. TypeOK'
  BY <1>1, <1>0 DEF OnlyOwnReleased, IInv, TypeOK, NoCredit, Phases
<1>3. ClaimsHeld' /\ WritesCurrent'
  BY <1>1, <1>0 DEF OnlyOwnReleased, IInv, TypeOK, ClaimsHeld, WritesCurrent
<1>4. EmptyWithoutRow' /\ CreditedExactlyOnce'
  BY <1>1 DEF IInv, EmptyWithoutRow, CreditedExactlyOnce
<1> QED BY <1>2, <1>3, <1>4 DEF IInv

-----------------------------------------------------------------------------

LEMMA NextIInv == IInv /\ [Next]_vars => IInv'
<1> SUFFICES ASSUME IInv, [Next]_vars PROVE IInv'
  OBVIOUS
<1>1. ASSUME NEW p \in Payments, Topup(p) PROVE IInv'
  BY <1>1, TopupIInv
<1>2. ASSUME NEW w \in Workers, NEW p \in Payments,
             ClaimApproval(w, p) \/ ClaimRejection(w, p)
      PROVE  IInv'
  BY <1>2, ClaimIInv DEF ClaimApproval, ClaimRejection
<1>3. ASSUME NEW w \in Workers, CreditRow(w) PROVE IInv'
  BY <1>3, WriteBalanceIInv, GoOnIInv DEF CreditRow
<1>4. ASSUME NEW w \in Workers, InsertRow(w) PROVE IInv'
  BY <1>4, WriteBalanceIInv, GoOnIInv DEF InsertRow
<1>5. ASSUME NEW w \in Workers, RetryCredit(w) PROVE IInv'
  BY <1>5, WriteBalanceIInv DEF RetryCredit
<1>6. ASSUME NEW w \in Workers, CommitApproval(w) \/ CommitRejection(w) \/ Abort(w)
      PROVE  IInv'
  BY <1>6, CommitApprovalIInv, CommitRejectionIInv, AbortIInv
<1>7. CASE UNCHANGED vars
  BY <1>7 DEF vars, IInv, TypeOK, ClaimsHeld, WritesCurrent, EmptyWithoutRow,
              CreditedExactlyOnce
<1> QED BY <1>1, <1>2, <1>3, <1>4, <1>5, <1>6, <1>7 DEF Next

(* What holds of every claim, every uncommitted write and every missing row of *)
(* a balance, and with them the ledger itself, is never broken.                *)
THEOREM InductiveInvariant == Spec => []IInv
<1>1. IInv /\ [Next]_vars => IInv'
  BY NextIInv
<1> QED BY InitIInv, <1>1, PTL DEF Spec

(* The types of the wallet's tables and of its workers' transactions. *)
THEOREM TypeCorrect == Spec => []TypeOK
BY InductiveInvariant, PTL DEF IInv

(* Every stored balance is exactly the sum of the tenant's confirmed        *)
(* requests, for any number of concurrent approvals (credit_wallet).        *)
THEOREM BalanceExact == Spec => []CreditedExactlyOnce
BY InductiveInvariant, PTL DEF IInv

-----------------------------------------------------------------------------

(* A worker decides the pending request it claimed, so no step touches a   *)
(* request that is decided.                                                *)
LEMMA StepKeepsDecision ==
    ASSUME IInv, [Next]_vars, NEW p \in Payments,
           status[p] \in {"confirmed", "cancelled"}
    PROVE  status'[p] = status[p]
<1>1. CASE UNCHANGED vars
  BY <1>1 DEF vars
<1>2. ASSUME NEW q \in Payments, Topup(q) PROVE status'[p] = status[p]
  BY <1>2 DEF Topup, IInv, TypeOK
<1>3. ASSUME NEW w \in Workers, CommitApproval(w) \/ CommitRejection(w)
      PROVE  status'[p] = status[p]
  <2>1. target[w] \in Payments /\ status[target[w]] = "pending"
    BY <1>3 DEF CommitApproval, CommitRejection, IInv, ClaimsHeld
  <2> QED
    BY <1>3, <2>1 DEF CommitApproval, CommitRejection, IInv, TypeOK
<1>4. ASSUME NEW w \in Workers,
             \/ \E q \in Payments : ClaimApproval(w, q) \/ ClaimRejection(w, q)
             \/ CreditRow(w) \/ InsertRow(w) \/ RetryCredit(w) \/ Abort(w)
      PROVE  status'[p] = status[p]
  BY <1>4 DEF ClaimApproval, ClaimRejection, Claim, CreditRow, InsertRow,
              RetryCredit, WriteBalance, GoOn, Abort, tables
<1> QED BY <1>1, <1>2, <1>3, <1>4 DEF Next

(* A confirmed or cancelled top-up is never decided again, however many    *)
(* admins press a button (claim UPDATE in app/telegram.py).                *)
THEOREM DecisionsFinal == Spec => DecisionIsFinal
<1>1. IInv /\ [Next]_vars =>
        [\A p \in Payments :
            status[p] \in {"confirmed", "cancelled"} => status'[p] = status[p]]_vars
  BY StepKeepsDecision
<1> QED BY <1>1, InductiveInvariant, PTL DEF Spec, DecisionIsFinal

-----------------------------------------------------------------------------

(* An approval's commit is the ledger's Confirm of its request. *)
LEMMA ApprovalConfirms ==
    ASSUME IInv, NEW w \in Workers, CommitApproval(w)
    PROVE  target[w] \in Payments /\ Ledger!Confirm(target[w])
<1> DEFINE p == target[w]
           t == TenantOf[p]
<1>1. /\ p \in Payments /\ t \in Tenants /\ status[p] = "pending"
      /\ written[w] = Credited(credits[t], p)
  BY TenantOfAssumption DEF IInv, ClaimsHeld, WritesCurrent, CommitApproval
<1>2. credits[t] \in [Payments -> Nat]
  BY <1>1 DEF IInv, TypeOK
<1>3. Credited(credits[t], p) = [credits[t] EXCEPT ![p] = credits[t][p] + 1]
  BY <1>1, <1>2 DEF Credited
<1>4. credits' = [credits EXCEPT ![t] = [credits[t] EXCEPT ![p] = credits[t][p] + 1]]
  BY <1>1, <1>3 DEF CommitApproval
<1> QED
  BY <1>1, <1>4 DEF Ledger!Confirm, CommitApproval, ConfirmedStatus

(* Every step of the handlers is a step of the ledger or leaves it alone. *)
LEMMA StepImplements ==
    IInv /\ [Next]_vars => [Ledger!Next]_(Ledger!ledger)
<1> SUFFICES ASSUME IInv, [Next]_vars PROVE [Ledger!Next]_(Ledger!ledger)
  OBVIOUS
<1>1. ASSUME NEW p \in Payments, Topup(p) PROVE Ledger!Next
  BY <1>1 DEF Topup, Ledger!Next, Ledger!Request
<1>2. ASSUME NEW w \in Workers, CommitApproval(w) PROVE Ledger!Next
  BY <1>2, ApprovalConfirms DEF Ledger!Next
<1>3. ASSUME NEW w \in Workers, CommitRejection(w) PROVE Ledger!Next
  BY <1>3 DEF CommitRejection, IInv, ClaimsHeld, Ledger!Next, Ledger!Cancel
<1>4. ASSUME NEW w \in Workers,
             \/ \E q \in Payments : ClaimApproval(w, q) \/ ClaimRejection(w, q)
             \/ CreditRow(w) \/ InsertRow(w) \/ RetryCredit(w) \/ Abort(w)
      PROVE  UNCHANGED Ledger!ledger
  BY <1>4 DEF ClaimApproval, ClaimRejection, Claim, CreditRow, InsertRow,
              RetryCredit, WriteBalance, GoOn, Abort, tables, Ledger!ledger
<1>5. CASE UNCHANGED vars
  BY <1>5 DEF vars, Ledger!ledger
<1> QED BY <1>1, <1>2, <1>3, <1>4, <1>5 DEF Next

(* The handlers implement the ledger: decision and credit are one step, for *)
(* every interleaving of their transactions.                                *)
THEOREM HandlersImplementLedger == Spec => ImplementsLedger
<1>1. Init => Ledger!Init
  BY DEF Init, NoCredit, Ledger!Init
<1> QED BY <1>1, StepImplements, InductiveInvariant, PTL DEF Spec, ImplementsLedger,
     Ledger!Spec

=============================================================================
