------------------------- MODULE SubscriptionProofs -------------------------
(***************************************************************************)
(* What holds of subscription payments for every number of users, tenants, *)
(* requests and handlers.  The properties are not inductive: that a        *)
(* payment is activated once rests on every decision in flight holding the *)
(* row lock of a payment that is still pending, and on no other handler    *)
(* inserting or withdrawing that row meanwhile.                            *)
(***************************************************************************)
EXTENDS Subscription, TLAPS

(* A decision in flight holds the claim on the pending payment it decides. *)
ClaimsHeld ==
    \A h \in Handlers :
        phase[h] \in Deciding =>
            /\ target[h] \in Payments
            /\ claim[target[h]] = h
            /\ pay[target[h]] = "pending"

(* The row a request is about to insert does not exist and is nobody       *)
(* else's.                                                                 *)
RowsFresh ==
    \A h \in Handlers :
        phase[h] \in {"asked", "vacant"} =>
            /\ target[h] \in Payments
            /\ pay[target[h]] = "none"
            /\ \A g \in Handlers : g # h => target[g] # target[h]

(* A withdrawal is about a row that exists. *)
CancelsExisting ==
    \A h \in Handlers :
        phase[h] = "cancelling" =>
            target[h] \in Payments /\ pay[target[h]] # "none"

(* An undecided payment has activated nothing, a verified one once. *)
ActivationsCounted ==
    \A p \in Payments :
        /\ activated[p] <= 1
        /\ pay[p] \in {"none", "pending"} => activated[p] = 0
        /\ pay[p] = "verified" => activated[p] = 1

(* OnePendingPerUser, said of pairs of payments. *)
PendingUnique ==
    \A p, q \in Payments :
        UserOf[p] = UserOf[q] /\ pay[p] = "pending" /\ pay[q] = "pending" => p = q

IInv ==
    /\ TypeOK
    /\ ClaimsHeld
    /\ RowsFresh
    /\ CancelsExisting
    /\ ActivationsCounted
    /\ PendingUnique
    /\ PaidNeedsApproval

USE UserOfAssumption, TenantOfAssumption, PlansAssumption, PlanOfAssumption,
    PeriodAssumption, NoHandlerAssumption, NoPaymentAssumption

-----------------------------------------------------------------------------

LEMMA InitIInv == Init => IInv
<1> SUFFICES ASSUME Init PROVE IInv
  OBVIOUS
<1>1. TypeOK
  BY DEF Init, TypeOK, TenantStatuses, Phases
<1>2. ClaimsHeld /\ RowsFresh /\ CancelsExisting /\ ActivationsCounted /\ PendingUnique
  BY DEF Init, ClaimsHeld, RowsFresh, CancelsExisting, ActivationsCounted,
       PendingUnique, Deciding
<1>3. PaidNeedsApproval
  BY DEF Init, PaidNeedsApproval
<1> QED BY <1>1, <1>2, <1>3 DEF IInv

LEMMA AskIInv ==
    ASSUME IInv, NEW h \in Handlers, NEW p \in Payments, Ask(h, p)
    PROVE  IInv'
<1>1. TypeOK'
  BY
  DEF IInv, TypeOK, Ask, Start, requests, tenants, Owner,
     TenantStatuses, Phases, Deciding
<1>2. ClaimsHeld'
  BY
  DEF IInv, TypeOK, ClaimsHeld, Ask, Start, requests, tenants,
     Owner, Deciding
<1>3. RowsFresh'
  BY
  DEF IInv, TypeOK, RowsFresh, Ask, Start, requests, tenants,
     Owner
<1>4. CancelsExisting'
  BY
  DEF IInv, TypeOK, CancelsExisting, Ask, Start, requests, tenants, Owner
<1>5. ActivationsCounted'
  BY
  DEF IInv, TypeOK, ActivationsCounted, Ask, Start, requests, tenants, Owner
<1>6. PendingUnique'
  BY
  DEF IInv, TypeOK, PendingUnique, Ask, Start, requests, tenants, Owner
<1>7. PaidNeedsApproval'
  BY
  DEF IInv, TypeOK, PaidNeedsApproval, Ask, Start, requests, tenants, Owner
<1> QED BY <1>1, <1>2, <1>3, <1>4, <1>5, <1>6, <1>7 DEF IInv

LEMMA LookForPendingIInv ==
    ASSUME IInv, NEW h \in Handlers, LookForPending(h)
    PROVE  IInv'
<1>1. TypeOK'
  BY
  DEF IInv, TypeOK, LookForPending, GoOn, Finish, requests, tenants, TenantStatuses, Phases, Deciding
<1>2. ClaimsHeld'
  BY
  DEF IInv, TypeOK, ClaimsHeld, LookForPending, GoOn, Finish, requests,
     tenants, Deciding
<1>3. RowsFresh'
  BY
  DEF IInv, TypeOK, RowsFresh, LookForPending, GoOn, Finish, requests,
     tenants
<1>4. CancelsExisting'
  BY
  DEF IInv, TypeOK, CancelsExisting, LookForPending, GoOn, Finish,
     requests, tenants
<1>5. ActivationsCounted'
  BY
  DEF IInv, TypeOK, ActivationsCounted, LookForPending, GoOn, Finish,
     requests, tenants
<1>6. PendingUnique'
  BY
  DEF IInv, TypeOK, PendingUnique, LookForPending, GoOn, Finish,
     requests, tenants
<1>7. PaidNeedsApproval'
  BY
  DEF IInv, TypeOK, PaidNeedsApproval, LookForPending, GoOn, Finish,
     requests, tenants, Owner
<1> QED BY <1>1, <1>2, <1>3, <1>4, <1>5, <1>6, <1>7 DEF IInv

(* The unique index refuses the row or there was no pending one. *)
LEMMA InsertIInv ==
    ASSUME IInv, NEW h \in Handlers, Insert(h)
    PROVE  IInv'
<1>1. target[h] \in Payments /\ pay[target[h]] = "none"
  BY DEF IInv, RowsFresh, Insert
<1>2. /\ \A g \in Handlers : g # h => target[g] # target[h]
      /\ pay' = pay \/ (pay' = [pay EXCEPT ![target[h]] = "pending"] /\ PendingOf(UserOf[target[h]]) = {})
  BY DEF IInv, RowsFresh, Insert, IndexAllows
<1>3. TypeOK'
  BY <1>1, <1>2
  DEF IInv, TypeOK, Insert, Finish, requests, tenants, PendingOf, TenantStatuses, Phases, Deciding
<1>4. ClaimsHeld'
  BY <1>1, <1>2
  DEF IInv, TypeOK, ClaimsHeld, Insert, Finish, requests,
     tenants, PendingOf, Deciding
<1>5. RowsFresh'
  BY <1>1, <1>2
  DEF IInv, TypeOK, RowsFresh, Insert, Finish, requests,
     tenants, PendingOf
<1>6. CancelsExisting'
  BY <1>1, <1>2
  DEF IInv, TypeOK, CancelsExisting, Insert, Finish, requests,
     tenants, PendingOf
<1>7. ActivationsCounted'
  BY <1>1, <1>2
  DEF IInv, TypeOK, ActivationsCounted, Insert, Finish,
     requests, tenants, PendingOf
<1>8. PendingUnique'
  BY <1>1, <1>2
  DEF IInv, TypeOK, PendingUnique, Insert, Finish, requests,
     tenants, PendingOf
<1>9. PaidNeedsApproval'
  BY <1>1, <1>2
  DEF IInv, TypeOK, PaidNeedsApproval, Insert, Finish,
     requests, tenants, PendingOf, Owner
<1> QED BY <1>3, <1>4, <1>5, <1>6, <1>7, <1>8, <1>9 DEF IInv

LEMMA ClaimIInv ==
    ASSUME IInv, NEW h \in Handlers, NEW p \in Payments, NEW next \in Deciding,
         Claim(h, p, next)
    PROVE  IInv'
<1>1. TypeOK'
  BY
  DEF IInv, TypeOK, Claim, Claimable, Start, requests, tenants,
     Owner, Deciding, TenantStatuses, Phases
<1>2. ClaimsHeld'
  BY
  DEF IInv, TypeOK, ClaimsHeld, Claim, Claimable, Start, requests,
     tenants, Owner, Deciding
<1>3. RowsFresh'
  BY
  DEF IInv, TypeOK, RowsFresh, Claim, Claimable, Start, requests,
     tenants, Owner, Deciding
<1>4. CancelsExisting'
  BY
  DEF IInv, TypeOK, CancelsExisting, Claim, Claimable, Start, requests,
     tenants, Owner, Deciding
<1>5. ActivationsCounted'
  BY
  DEF IInv, TypeOK, ActivationsCounted, Claim, Claimable, Start,
     requests, tenants, Owner, Deciding
<1>6. PendingUnique'
  BY
  DEF IInv, TypeOK, PendingUnique, Claim, Claimable, Start, requests,
     tenants, Owner, Deciding
<1>7. PaidNeedsApproval'
  BY
  DEF IInv, TypeOK, PaidNeedsApproval, Claim, Claimable, Start, requests,
     tenants, Owner, Deciding
<1> QED BY <1>1, <1>2, <1>3, <1>4, <1>5, <1>6, <1>7 DEF IInv

LEMMA CommitApprovalIInv ==
    ASSUME IInv, NEW h \in Handlers, CommitApproval(h)
    PROVE  IInv'
<1>1. /\ target[h] \in Payments /\ pay[target[h]] = "pending" /\ claim[target[h]] = h
      /\ \A g \in Handlers : g # h /\ phase[g] \in Deciding => target[g] # target[h]
  BY DEF IInv, ClaimsHeld, CommitApproval, Deciding
<1>2. Owner(target[h]) \in Tenants
  BY <1>1 DEF Owner
<1>3. TypeOK'
  <2>0. PlanOf[target[h]] \in Plans /\ Period[PlanOf[target[h]]] \in Nat /\ now \in Nat
    BY <1>1 DEF IInv, TypeOK
  <2>1. NewEnd(Owner(target[h]), target[h]) \in Nat
    BY <2>0 DEF NewEnd
  <2>2. pay' \in [Payments -> {"none", "pending", "verified", "cancelled"}]
    BY <1>1 DEF IInv, TypeOK, CommitApproval
  <2>3. claim' \in [Payments -> Handlers \cup {NoHandler}]
    BY DEF IInv, TypeOK, CommitApproval, Release
  <2>4. tstatus' \in [Tenants -> TenantStatuses]
    BY <1>2 DEF IInv, TypeOK, CommitApproval, Written, PaidStatus, TenantStatuses
  <2>5. tplan' \in [Tenants -> Plans \cup {NoPlan}]
    BY <1>2, <2>0 DEF IInv, TypeOK, CommitApproval, Written
  <2>6. tend' \in [Tenants -> Nat \cup {NoEnd}]
    BY <1>2, <2>1 DEF IInv, TypeOK, CommitApproval
  <2>7. activated' \in [Payments -> Nat] /\ now' \in Nat
    BY <1>1, <1>2 DEF IInv, TypeOK, CommitApproval
  <2>8. /\ phase' \in [Handlers -> Phases]
        /\ target' \in [Handlers -> Payments \cup {NoPayment}]
        /\ scope' \in [Handlers -> SUBSET Tenants]
        /\ seen' \in [Handlers -> TenantStatuses]
        /\ seenPlan' \in [Handlers -> Plans \cup {NoPlan}]
    BY DEF IInv, TypeOK, CommitApproval, Finish, Phases, TenantStatuses
  <2> QED BY <2>2, <2>3, <2>4, <2>5, <2>6, <2>7, <2>8 DEF TypeOK
<1>4. ClaimsHeld'
  BY <1>1, <1>2
  DEF IInv, TypeOK, ClaimsHeld, CommitApproval, Release,
     Finish, Written, NewEnd, PaidStatus, Deciding
<1>5. RowsFresh'
  BY <1>1, <1>2
  DEF IInv, TypeOK, RowsFresh, CommitApproval, Release,
     Finish, Written, NewEnd, PaidStatus
<1>6. CancelsExisting'
  BY <1>1, <1>2
  DEF IInv, TypeOK, CancelsExisting, CommitApproval, Release,
     Finish, Written, NewEnd, PaidStatus
<1>7. ActivationsCounted'
  BY <1>1, <1>2
  DEF IInv, TypeOK, ActivationsCounted, CommitApproval,
     Release, Finish, Written, NewEnd, PaidStatus
<1>8. PendingUnique'
  BY <1>1, <1>2
  DEF IInv, TypeOK, PendingUnique, CommitApproval, Release,
     Finish, Written, NewEnd, PaidStatus
<1>9. PaidNeedsApproval'
  BY <1>1, <1>2
  DEF IInv, TypeOK, PaidNeedsApproval, CommitApproval,
     Release, Finish, Written, NewEnd, PaidStatus, Owner
<1> QED BY <1>3, <1>4, <1>5, <1>6, <1>7, <1>8, <1>9 DEF IInv

LEMMA CommitRejectionIInv ==
    ASSUME IInv, NEW h \in Handlers, CommitRejection(h)
    PROVE  IInv'
<1>1. /\ target[h] \in Payments /\ pay[target[h]] = "pending" /\ claim[target[h]] = h
      /\ \A g \in Handlers : g # h /\ phase[g] \in Deciding => target[g] # target[h]
  BY DEF IInv, ClaimsHeld, CommitRejection, Deciding
<1>2. Owner(target[h]) \in Tenants
  BY <1>1 DEF Owner
<1>3. TypeOK'
  BY <1>1, <1>2
  DEF IInv, TypeOK, CommitRejection, Release, Finish, Written,
     RejectedStatus, TenantStatuses, Phases, Deciding
<1>4. ClaimsHeld'
  BY <1>1, <1>2
  DEF IInv, TypeOK, ClaimsHeld, CommitRejection, Release,
     Finish, Written, RejectedStatus, Deciding
<1>5. RowsFresh'
  BY <1>1, <1>2
  DEF IInv, TypeOK, RowsFresh, CommitRejection, Release,
     Finish, Written, RejectedStatus
<1>6. CancelsExisting'
  BY <1>1, <1>2
  DEF IInv, TypeOK, CancelsExisting, CommitRejection, Release,
     Finish, Written, RejectedStatus
<1>7. ActivationsCounted'
  BY <1>1, <1>2
  DEF IInv, TypeOK, ActivationsCounted, CommitRejection,
     Release, Finish, Written, RejectedStatus
<1>8. PendingUnique'
  BY <1>1, <1>2
  DEF IInv, TypeOK, PendingUnique, CommitRejection, Release,
     Finish, Written, RejectedStatus
<1>9. PaidNeedsApproval'
  BY <1>1, <1>2
  DEF IInv, TypeOK, PaidNeedsApproval, CommitRejection,
     Release, Finish, Written, RejectedStatus, Owner
<1> QED BY <1>3, <1>4, <1>5, <1>6, <1>7, <1>8, <1>9 DEF IInv

LEMMA ReadForCancelIInv ==
    ASSUME IInv, NEW h \in Handlers, NEW p \in Payments, ReadForCancel(h, p)
    PROVE  IInv'
<1>1. TypeOK'
  BY
  DEF IInv, TypeOK, ReadForCancel, Start, requests, tenants,
     Owner, TenantStatuses, Phases, Deciding
<1>2. ClaimsHeld'
  BY
  DEF IInv, TypeOK, ClaimsHeld, ReadForCancel, Start, requests, tenants, Owner, Deciding
<1>3. RowsFresh'
  BY
  DEF IInv, TypeOK, RowsFresh, ReadForCancel, Start, requests, tenants, Owner
<1>4. CancelsExisting'
  BY
  DEF IInv, TypeOK, CancelsExisting, ReadForCancel, Start, requests,
     tenants, Owner
<1>5. ActivationsCounted'
  BY
  DEF IInv, TypeOK, ActivationsCounted, ReadForCancel, Start, requests,
     tenants, Owner
<1>6. PendingUnique'
  BY
  DEF IInv, TypeOK, PendingUnique, ReadForCancel, Start, requests,
     tenants, Owner
<1>7. PaidNeedsApproval'
  BY
  DEF IInv, TypeOK, PaidNeedsApproval, ReadForCancel, Start, requests,
     tenants, Owner
<1> QED BY <1>1, <1>2, <1>3, <1>4, <1>5, <1>6, <1>7 DEF IInv

(* The withdrawal overwrites whatever the row says, but only when no        *)
(* decision holds it.                                                       *)
LEMMA CommitCancelIInv ==
    ASSUME IInv, NEW h \in Handlers, CommitCancel(h)
    PROVE  IInv'
<1>1. /\ target[h] \in Payments /\ pay[target[h]] # "none"
      /\ \A g \in Handlers : phase[g] \in Deciding => target[g] # target[h]
  BY DEF IInv, CancelsExisting, ClaimsHeld, CommitCancel
<1>2. TypeOK'
  BY <1>1
  DEF IInv, TypeOK, CommitCancel, Finish, requests, tenants, TenantStatuses, Phases, Deciding
<1>3. ClaimsHeld'
  BY <1>1
  DEF IInv, TypeOK, ClaimsHeld, CommitCancel, Finish, requests,
     tenants, Deciding
<1>4. RowsFresh'
  BY <1>1
  DEF IInv, TypeOK, RowsFresh, CommitCancel, Finish, requests,
     tenants
<1>5. CancelsExisting'
  BY <1>1
  DEF IInv, TypeOK, CancelsExisting, CommitCancel, Finish, requests,
     tenants
<1>6. ActivationsCounted'
  BY <1>1
  DEF IInv, TypeOK, ActivationsCounted, CommitCancel, Finish,
     requests, tenants
<1>7. PendingUnique'
  BY <1>1
  DEF IInv, TypeOK, PendingUnique, CommitCancel, Finish, requests,
     tenants
<1>8. PaidNeedsApproval'
  BY <1>1
  DEF IInv, TypeOK, PaidNeedsApproval, CommitCancel, Finish,
     requests, tenants, Owner
<1> QED BY <1>2, <1>3, <1>4, <1>5, <1>6, <1>7, <1>8 DEF IInv

LEMMA ReadDueIInv ==
    ASSUME IInv, NEW h \in Handlers, NEW t \in Tenants, ReadDue(h, t)
    PROVE  IInv'
<1>1. TypeOK'
  BY
  DEF IInv, TypeOK, ReadDue, Start, requests, tenants,
     TenantStatuses, Phases, Deciding
<1>2. ClaimsHeld'
  BY
  DEF IInv, TypeOK, ClaimsHeld, ReadDue, Start, requests, tenants, Deciding
<1>3. RowsFresh'
  BY DEF IInv, TypeOK, RowsFresh, ReadDue, Start, requests, tenants
<1>4. CancelsExisting'
  BY
  DEF IInv, TypeOK, CancelsExisting, ReadDue, Start, requests, tenants
<1>5. ActivationsCounted'
  BY
  DEF IInv, TypeOK, ActivationsCounted, ReadDue, Start, requests,
     tenants
<1>6. PendingUnique'
  BY
  DEF IInv, TypeOK, PendingUnique, ReadDue, Start, requests, tenants
<1>7. PaidNeedsApproval'
  BY
  DEF IInv, TypeOK, PaidNeedsApproval, ReadDue, Start, requests, tenants, Owner
<1> QED BY <1>1, <1>2, <1>3, <1>4, <1>5, <1>6, <1>7 DEF IInv

LEMMA CommitExpiryIInv ==
    ASSUME IInv, NEW h \in Handlers, CommitExpiry(h)
    PROVE  IInv'
<1>1. TypeOK'
  BY
  DEF IInv, TypeOK, CommitExpiry, GoOn, requests,
     TenantStatuses, Phases, Deciding
<1>2. ClaimsHeld'
  BY
  DEF IInv, TypeOK, ClaimsHeld, CommitExpiry, GoOn, requests,
     Deciding
<1>3. RowsFresh'
  BY DEF IInv, TypeOK, RowsFresh, CommitExpiry, GoOn, requests
<1>4. CancelsExisting'
  BY
  DEF IInv, TypeOK, CancelsExisting, CommitExpiry, GoOn, requests
<1>5. ActivationsCounted'
  BY
  DEF IInv, TypeOK, ActivationsCounted, CommitExpiry, GoOn, requests
<1>6. PendingUnique'
  BY DEF IInv, TypeOK, PendingUnique, CommitExpiry, GoOn, requests
<1>7. PaidNeedsApproval'
  BY
  DEF IInv, TypeOK, PaidNeedsApproval, CommitExpiry, GoOn, requests, Owner
<1> QED BY <1>1, <1>2, <1>3, <1>4, <1>5, <1>6, <1>7 DEF IInv

LEMMA CommitNoticeIInv ==
    ASSUME IInv, NEW h \in Handlers, CommitNotice(h)
    PROVE  IInv'
<1>1. TypeOK'
  BY
  DEF IInv, TypeOK, CommitNotice, Finish, requests, tenants,
     TenantStatuses, Phases, Deciding
<1>2. ClaimsHeld'
  BY
  DEF IInv, TypeOK, ClaimsHeld, CommitNotice, Finish, requests, tenants,
     Deciding
<1>3. RowsFresh'
  BY DEF IInv, TypeOK, RowsFresh, CommitNotice, Finish, requests, tenants
<1>4. CancelsExisting'
  BY
  DEF IInv, TypeOK, CancelsExisting, CommitNotice, Finish, requests,
     tenants
<1>5. ActivationsCounted'
  BY
  DEF IInv, TypeOK, ActivationsCounted, CommitNotice, Finish, requests,
     tenants
<1>6. PendingUnique'
  BY
  DEF IInv, TypeOK, PendingUnique, CommitNotice, Finish, requests,
     tenants
<1>7. PaidNeedsApproval'
  BY
  DEF IInv, TypeOK, PaidNeedsApproval, CommitNotice, Finish, requests,
     tenants, Owner
<1> QED BY <1>1, <1>2, <1>3, <1>4, <1>5, <1>6, <1>7 DEF IInv

LEMMA ReadUnassignedIInv ==
    ASSUME IInv, NEW h \in Handlers, ReadUnassigned(h)
    PROVE  IInv'
<1>1. TypeOK'
  BY
  DEF IInv, TypeOK, ReadUnassigned, Unassigned, requests, tenants, TenantStatuses, Phases, Deciding
<1>2. ClaimsHeld'
  BY
  DEF IInv, TypeOK, ClaimsHeld, ReadUnassigned, Unassigned, requests,
     tenants, Deciding
<1>3. RowsFresh'
  BY
  DEF IInv, TypeOK, RowsFresh, ReadUnassigned, Unassigned, requests,
     tenants
<1>4. CancelsExisting'
  BY
  DEF IInv, TypeOK, CancelsExisting, ReadUnassigned, Unassigned,
     requests, tenants
<1>5. ActivationsCounted'
  BY
  DEF IInv, TypeOK, ActivationsCounted, ReadUnassigned, Unassigned,
     requests, tenants
<1>6. PendingUnique'
  BY
  DEF IInv, TypeOK, PendingUnique, ReadUnassigned, Unassigned, requests,
     tenants
<1>7. PaidNeedsApproval'
  BY
  DEF IInv, TypeOK, PaidNeedsApproval, ReadUnassigned, Unassigned,
     requests, tenants, Owner
<1> QED BY <1>1, <1>2, <1>3, <1>4, <1>5, <1>6, <1>7 DEF IInv

LEMMA CommitMigrationIInv ==
    ASSUME IInv, NEW h \in Handlers, CommitMigration(h)
    PROVE  IInv'
<1>1. TypeOK'
  BY
  DEF IInv, TypeOK, CommitMigration, Finish, requests,
     TenantStatuses, Phases, Deciding
<1>2. ClaimsHeld'
  BY
  DEF IInv, TypeOK, ClaimsHeld, CommitMigration, Finish, requests, Deciding
<1>3. RowsFresh'
  BY DEF IInv, TypeOK, RowsFresh, CommitMigration, Finish, requests
<1>4. CancelsExisting'
  BY
  DEF IInv, TypeOK, CancelsExisting, CommitMigration, Finish, requests
<1>5. ActivationsCounted'
  BY
  DEF IInv, TypeOK, ActivationsCounted, CommitMigration, Finish,
     requests
<1>6. PendingUnique'
  BY
  DEF IInv, TypeOK, PendingUnique, CommitMigration, Finish, requests
<1>7. PaidNeedsApproval'
  BY
  DEF IInv, TypeOK, PaidNeedsApproval, CommitMigration, Finish, requests, Owner
<1> QED BY <1>1, <1>2, <1>3, <1>4, <1>5, <1>6, <1>7 DEF IInv

LEMMA AbortIInv ==
    ASSUME IInv, NEW h \in Handlers, Abort(h)
    PROVE  IInv'
<1>1. TypeOK'
  BY
  DEF IInv, TypeOK, Abort, Release, Finish, tenants,
     TenantStatuses, Phases, Deciding
<1>2. ClaimsHeld'
  BY
  DEF IInv, TypeOK, ClaimsHeld, Abort, Release, Finish, tenants,
     Deciding
<1>3. RowsFresh'
  BY DEF IInv, TypeOK, RowsFresh, Abort, Release, Finish, tenants
<1>4. CancelsExisting'
  BY
  DEF IInv, TypeOK, CancelsExisting, Abort, Release, Finish, tenants
<1>5. ActivationsCounted'
  BY
  DEF IInv, TypeOK, ActivationsCounted, Abort, Release, Finish, tenants
<1>6. PendingUnique'
  BY
  DEF IInv, TypeOK, PendingUnique, Abort, Release, Finish, tenants
<1>7. PaidNeedsApproval'
  BY
  DEF IInv, TypeOK, PaidNeedsApproval, Abort, Release, Finish, tenants, Owner
<1> QED BY <1>1, <1>2, <1>3, <1>4, <1>5, <1>6, <1>7 DEF IInv

LEMMA TickIInv ==
    ASSUME IInv, Tick
    PROVE  IInv'
<1>1. TypeOK'
  BY
  DEF IInv, TypeOK, Tick, locals, requests, tenants,
     TenantStatuses, Phases, Deciding
<1>2. ClaimsHeld'
  BY
  DEF IInv, TypeOK, ClaimsHeld, Tick, locals, requests, tenants,
     Deciding
<1>3. RowsFresh'
  BY DEF IInv, TypeOK, RowsFresh, Tick, locals, requests, tenants
<1>4. CancelsExisting'
  BY
  DEF IInv, TypeOK, CancelsExisting, Tick, locals, requests, tenants
<1>5. ActivationsCounted'
  BY
  DEF IInv, TypeOK, ActivationsCounted, Tick, locals, requests, tenants
<1>6. PendingUnique'
  BY
  DEF IInv, TypeOK, PendingUnique, Tick, locals, requests, tenants
<1>7. PaidNeedsApproval'
  BY
  DEF IInv, TypeOK, PaidNeedsApproval, Tick, locals, requests, tenants, Owner
<1> QED BY <1>1, <1>2, <1>3, <1>4, <1>5, <1>6, <1>7 DEF IInv

-----------------------------------------------------------------------------

LEMMA NextIInv == IInv /\ [Next]_vars => IInv'
<1> SUFFICES ASSUME IInv, [Next]_vars PROVE IInv'
  OBVIOUS
<1>1. CASE Tick
  BY <1>1, TickIInv
<1>2. ASSUME NEW h \in Handlers, NEW p \in Payments,
             Ask(h, p) \/ ReadForCancel(h, p)
      PROVE  IInv'
  BY <1>2, AskIInv, ReadForCancelIInv
<1>3. ASSUME NEW h \in Handlers, NEW p \in Payments,
             \/ ClaimApproval(h, p) \/ ClaimRejection(h, p)
             \/ ClaimTelegramRejection(h, p)
      PROVE  IInv'
  BY <1>3, ClaimIInv
  DEF ClaimApproval, ClaimRejection, ClaimTelegramRejection, Deciding
<1>4. ASSUME NEW h \in Handlers, NEW t \in Tenants, ReadDue(h, t) PROVE IInv'
  BY <1>4, ReadDueIInv
<1>5. ASSUME NEW h \in Handlers,
             \/ ReadUnassigned(h) \/ LookForPending(h) \/ Insert(h)
             \/ CommitApproval(h) \/ CommitRejection(h) \/ CommitCancel(h)
      PROVE  IInv'
  BY <1>5, ReadUnassignedIInv, LookForPendingIInv, InsertIInv,
     CommitApprovalIInv, CommitRejectionIInv, CommitCancelIInv
<1>6. ASSUME NEW h \in Handlers,
             \/ CommitExpiry(h) \/ CommitNotice(h) \/ CommitMigration(h) \/ Abort(h)
      PROVE  IInv'
  BY <1>6, CommitExpiryIInv, CommitNoticeIInv, CommitMigrationIInv, AbortIInv
<1>7. CASE UNCHANGED vars
  BY <1>7 DEF vars, requests, tenants, locals, IInv, TypeOK, ClaimsHeld,
              RowsFresh, CancelsExisting, ActivationsCounted, PendingUnique,
              PaidNeedsApproval, Owner
<1> QED BY <1>1, <1>2, <1>3, <1>4, <1>5, <1>6, <1>7 DEF Next

(* The strengthened invariant holds in every state. *)
THEOREM InductiveInvariant == Spec => []IInv
BY InitIInv, NextIInv, PTL DEF Spec

(* The types of the tables and of the handlers' locals. *)
THEOREM TypeCorrect == Spec => []TypeOK
BY InductiveInvariant, PTL DEF IInv

(* No double-tap, second admin, rollback or withdrawal makes one payment   *)
(* activate a plan twice (approvals.py, telegram.py).                      *)
THEOREM ActivatedOnce == Spec => []ActivatedAtMostOnce
<1>1. IInv => ActivatedAtMostOnce
  BY DEF IInv, ActivationsCounted, ActivatedAtMostOnce
<1> QED BY <1>1, InductiveInvariant, PTL

(* A verified payment has activated its plan (approvals.py). *)
THEOREM VerifiedActivated == Spec => []VerifiedWasActivated
<1>1. IInv => VerifiedWasActivated
  BY DEF IInv, ActivationsCounted, VerifiedWasActivated
<1> QED BY <1>1, InductiveInvariant, PTL

(* Two server instances never leave two pending rows of one user behind    *)
(* (models.py, ix_sub_payment_user_pending).                               *)
THEOREM PendingIsUnique == Spec => []OnePendingPerUser
<1>1. IInv => OnePendingPerUser
  BY DEF IInv, PendingUnique, OnePendingPerUser, PendingOf
<1> QED BY <1>1, InductiveInvariant, PTL

(* No tenant is PAID without a committed approval, whatever races with it. *)
THEOREM PaidIsBacked == Spec => []PaidNeedsApproval
BY InductiveInvariant, PTL DEF IInv

-----------------------------------------------------------------------------

(* The end of an entitlement is written by an approval's commit only. *)
LEMMA StepMovesEndByApproval ==
    ASSUME IInv, [Next]_vars, NEW t \in Tenants, tend'[t] # tend[t]
    PROVE  \E p \in Payments :
             /\ Owner(p) = t
             /\ pay[p] = "pending" /\ pay'[p] = "verified"
             /\ tend'[t] = now + Period[PlanOf[p]]
<1>1. PICK h \in Handlers : CommitApproval(h)
  BY DEF Next, vars, Tick, Ask, ClaimApproval, ClaimRejection,
     ClaimTelegramRejection, Claim, ReadForCancel, ReadDue, ReadUnassigned,
     LookForPending, Insert, CommitRejection, CommitCancel, CommitExpiry,
     CommitNotice, CommitMigration, Abort, tenants
<1>2. target[h] \in Payments /\ pay[target[h]] = "pending"
  BY <1>1 DEF IInv, ClaimsHeld, CommitApproval, Deciding
<1>3. Owner(target[h]) = t /\ tend'[t] = now + Period[PlanOf[target[h]]]
  BY <1>1, <1>2 DEF IInv, TypeOK, CommitApproval, NewEnd
<1>4. pay'[target[h]] = "verified"
  BY <1>1, <1>2 DEF IInv, TypeOK, CommitApproval
<1> QED BY <1>2, <1>3, <1>4

(* Nothing but an approval extends or shortens an entitlement: not an       *)
(* expiry, a migration, a rejection or a rollback, however they interleave. *)
THEOREM EndOnlyByApproval == Spec => EndMovesByApproval
<1>1. IInv /\ [Next]_vars =>
        [\A t \in Tenants : tend'[t] # tend[t] =>
            \E p \in Payments :
                /\ Owner(p) = t
                /\ pay[p] = "pending" /\ pay'[p] = "verified"
                /\ tend'[t] = now + Period[PlanOf[p]]]_vars
  BY StepMovesEndByApproval
<1> QED BY <1>1, InductiveInvariant, PTL DEF Spec, EndMovesByApproval

=============================================================================
