------------------------------- MODULE Wallet -------------------------------
(***************************************************************************)
(* Wallet top-ups: payment_requests rows, the tenant's balance row in      *)
(* bot_state, and the Telegram handlers that decide a request and credit   *)
(* the balance in one database transaction.                                *)
(*                                                                         *)
(* Amounts are abstracted: credits[t][p] counts how often the amount of    *)
(* request p is contained in the stored balance of tenant t, so the        *)
(* balance is the sum of amount(p) * credits[t][p].                        *)
(*                                                                         *)
(* Transactions run at READ COMMITTED.  An UPDATE holds its row's lock to  *)
(* the end of the transaction; an INSERT holds its unique key.  status,    *)
(* hasRow and credits are the committed tables; what a transaction has     *)
(* written and not committed is told by its phase and by the locks.        *)
(***************************************************************************)
EXTENDS Naturals

CONSTANTS
    Payments,   \* payment_requests rows that may come to exist
    Tenants,
    TenantOf,   \* payment_requests.tenant_id
    Workers,    \* webhook invocations that may run at the same time
    NoWorker,   \* the holder of a free lock
    NoPayment   \* the request of an idle worker

ASSUME TenantOfAssumption == TenantOf \in [Payments -> Tenants]
ASSUME NoWorkerAssumption == NoWorker \notin Workers
ASSUME NoPaymentAssumption == NoPayment \notin Payments

VARIABLES
    status,     \* payment_requests.status, "absent" before the row exists
    claim,      \* who holds the row lock of a payment request
    hasRow,     \* whether bot_state has the (tenant, "balance") row
    credits,    \* what the stored balance is made of
    rowLock,    \* who holds the balance row, or its key while inserting it
    phase,      \* how far each worker's transaction is
    target,     \* the payment request it decides
    written     \* the balance it has written and not committed

tables == <<status, hasRow, credits>>
vars == <<status, claim, hasRow, credits, rowLock, phase, target, written>>

Phases == {"idle", "claimed", "insert", "retry", "credited", "rejected"}

TypeOK ==
    /\ status \in [Payments -> {"absent", "pending", "confirmed", "cancelled"}]
    /\ claim \in [Payments -> Workers \cup {NoWorker}]
    /\ hasRow \in [Tenants -> BOOLEAN]
    /\ credits \in [Tenants -> [Payments -> Nat]]
    /\ rowLock \in [Tenants -> Workers \cup {NoWorker}]
    /\ phase \in [Workers -> Phases]
    /\ target \in [Workers -> Payments \cup {NoPayment}]
    /\ written \in [Workers -> [Payments -> Nat]]

NoCredit == [p \in Payments |-> 0]
Credited(balance, p) == [q \in Payments |-> IF q = p THEN balance[q] + 1 ELSE balance[q]]

Init ==
    /\ status = [p \in Payments |-> "absent"]
    /\ claim = [p \in Payments |-> NoWorker]
    /\ hasRow = [t \in Tenants |-> FALSE]
    /\ credits = [t \in Tenants |-> NoCredit]
    /\ rowLock = [t \in Tenants |-> NoWorker]
    /\ phase = [w \in Workers |-> "idle"]
    /\ target = [w \in Workers |-> NoPayment]
    /\ written = [w \in Workers |-> NoCredit]

-----------------------------------------------------------------------------

(* POST /api/payments/topup: a new pending row. *)
Topup(p) ==
    /\ status[p] = "absent"
    /\ status' = [status EXCEPT ![p] = "pending"]
    /\ UNCHANGED <<claim, hasRow, credits, rowLock, phase, target, written>>

(* UPDATE payment_requests ... WHERE id = p AND status = 'pending': matches *)
(* only a pending row, and waits for the lock of a claim in flight.  A      *)
(* claim that matches nothing answers the admin and changes no state.       *)
ClaimableByAnyStatus(p) == status[p] # "absent" /\ claim[p] = NoWorker \* mutant
Claimable(p) == status[p] = "pending" /\ claim[p] = NoWorker

Claim(w, p, next) ==
    /\ phase[w] = "idle"
    /\ Claimable(p)
    /\ claim' = [claim EXCEPT ![p] = w]
    /\ phase' = [phase EXCEPT ![w] = next]
    /\ target' = [target EXCEPT ![w] = p]
    /\ UNCHANGED <<tables, rowLock, written>>

ClaimApproval(w, p) == Claim(w, p, "claimed")
ClaimRejection(w, p) == Claim(w, p, "rejected")

(* What the amount is added to: the value the UPDATE finds in the row, or   *)
(* nothing when the statement inserts the row.                              *)
BalanceBefore(t) == IF hasRow[t] THEN credits[t] ELSE NoCredit

(* A statement that writes the balance row: the sum is computed by the      *)
(* statement itself, and the row stays locked to the end of the transaction.*)
WriteUnlocked(w) == \* mutant: read, add in Python, write back at commit
    LET t == TenantOf[target[w]] IN
    /\ written' = [written EXCEPT ![w] = Credited(BalanceBefore(t), target[w])]
    /\ phase' = [phase EXCEPT ![w] = "credited"]
    /\ UNCHANGED <<tables, claim, rowLock, target>>

WriteBalance(w) ==
    LET t == TenantOf[target[w]] IN
    /\ rowLock[t] = NoWorker
    /\ rowLock' = [rowLock EXCEPT ![t] = w]
    /\ written' = [written EXCEPT ![w] = Credited(BalanceBefore(t), target[w])]
    /\ phase' = [phase EXCEPT ![w] = "credited"]
    /\ UNCHANGED <<tables, claim, target>>

(* A statement that wrote nothing: credit_wallet goes on to its next one. *)
GoOn(w, next) ==
    /\ phase' = [phase EXCEPT ![w] = next]
    /\ UNCHANGED <<tables, claim, rowLock, target, written>>

(* First UPDATE of the balance: it waits for the row's lock when the row is *)
(* there; with no committed row it matches nothing (rowcount 0).            *)
CreditRow(w) ==
    LET t == TenantOf[target[w]] IN
    /\ phase[w] = "claimed"
    /\ \/ hasRow[t] /\ WriteBalance(w)
       \/ ~hasRow[t] /\ GoOn(w, "insert")

(* INSERT inside a savepoint: it waits for an insert of the same key that   *)
(* is in flight, and fails (IntegrityError) when that one committed.        *)
InsertRow(w) ==
    LET t == TenantOf[target[w]] IN
    /\ phase[w] = "insert"
    /\ \/ ~hasRow[t] /\ WriteBalance(w)
       \/ hasRow[t] /\ GoOn(w, "retry")

(* The UPDATE again, after the IntegrityError.  No code deletes a balance   *)
(* row of a living tenant, so the row that made the INSERT fail is there.   *)
RetryCredit(w) ==
    /\ phase[w] = "retry"
    /\ hasRow[TenantOf[target[w]]]
    /\ WriteBalance(w)

ReleaseRowOnly(w) == \* mutant: the claim on the request is kept
    /\ UNCHANGED claim
    /\ rowLock' = [t \in Tenants |-> IF rowLock[t] = w THEN NoWorker ELSE rowLock[t]]
    /\ phase' = [phase EXCEPT ![w] = "idle"]
    /\ target' = [target EXCEPT ![w] = NoPayment]
    /\ written' = [written EXCEPT ![w] = NoCredit]

(* The end of a transaction frees its row locks and the worker. *)
Release(w) ==
    /\ claim' = [p \in Payments |-> IF claim[p] = w THEN NoWorker ELSE claim[p]]
    /\ rowLock' = [t \in Tenants |-> IF rowLock[t] = w THEN NoWorker ELSE rowLock[t]]
    /\ phase' = [phase EXCEPT ![w] = "idle"]
    /\ target' = [target EXCEPT ![w] = NoPayment]
    /\ written' = [written EXCEPT ![w] = NoCredit]

ConfirmedStatus == "confirmed"

(* db.commit() of an approval: the decision and the credit together. *)
CommitApproval(w) ==
    LET p == target[w]
        t == TenantOf[p]
    IN
    /\ phase[w] = "credited"
    /\ status' = [status EXCEPT ![p] = ConfirmedStatus]
    /\ hasRow' = [hasRow EXCEPT ![t] = TRUE]
    /\ credits' = [credits EXCEPT ![t] = written[w]]
    /\ Release(w)

CommitRejection(w) ==
    /\ phase[w] = "rejected"
    /\ status' = [status EXCEPT ![target[w]] = "cancelled"]
    /\ Release(w)
    /\ UNCHANGED <<hasRow, credits>>

(* The invocation dies or its session is closed: the transaction is rolled  *)
(* back and its locks are released.                                         *)
Abort(w) ==
    /\ phase[w] # "idle"
    /\ Release(w)
    /\ UNCHANGED tables

Next ==
    \/ \E p \in Payments : Topup(p)
    \/ \E w \in Workers :
        \/ \E p \in Payments : ClaimApproval(w, p) \/ ClaimRejection(w, p)
        \/ CreditRow(w)
        \/ InsertRow(w)
        \/ RetryCredit(w)
        \/ CommitApproval(w)
        \/ CommitRejection(w)
        \/ Abort(w)

Spec == Init /\ [][Next]_vars

(* A running transaction goes on, and PostgreSQL grants a lock in the order *)
(* of the requests, so one that waits for the balance row gets it.  Nobody  *)
(* promises that requests are made, decided or that no invocation dies.     *)
Fairness ==
    \A w \in Workers :
        /\ SF_vars(CreditRow(w))
        /\ SF_vars(InsertRow(w))
        /\ SF_vars(RetryCredit(w))
        /\ WF_vars(CommitApproval(w))
        /\ WF_vars(CommitRejection(w))

FairSpec == Spec /\ Fairness

-----------------------------------------------------------------------------

(* The stored balance holds each confirmed request's amount exactly once,   *)
(* in the right tenant's row, and nothing of any other request: no approval *)
(* is lost to a concurrent one, credited twice by two admins, or credited   *)
(* by a transaction that was rolled back (credit_wallet, telegram.py).      *)
CreditedExactlyOnce ==
    \A t \in Tenants, p \in Payments :
        credits[t][p] = IF status[p] = "confirmed" /\ TenantOf[p] = t THEN 1 ELSE 0

(* A decision on a request is never changed, whichever admin pressed last.  *)
DecisionIsFinal ==
    [][\A p \in Payments :
        status[p] \in {"confirmed", "cancelled"} => status'[p] = status[p]]_vars

(* No admin's claim keeps a request locked: the transaction that decides it *)
(* ends, even while others fight over the same balance row.                 *)
ClaimsEnd ==
    \A p \in Payments : claim[p] # NoWorker ~> claim[p] = NoWorker

(* The handlers do what the one-step ledger does: a decision and its credit *)
(* become visible together, and nothing else moves money (telegram.py).     *)
Ledger ==
    INSTANCE WalletLedger
        WITH Payments <- Payments, Tenants <- Tenants, TenantOf <- TenantOf,
             status <- status, credits <- credits
ImplementsLedger == Ledger!Spec

=============================================================================
