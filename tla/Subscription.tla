---------------------------- MODULE Subscription ----------------------------
(***************************************************************************)
(* Paid subscriptions: subscription_payments rows requested by users,      *)
(* decided by platform admins (HTTP and Telegram) or withdrawn by their    *)
(* owner, and the tenant's entitlement (status, plan, plan_end) that an    *)
(* approval grants, the bot engine expires and a cold start migrates.      *)
(*                                                                         *)
(* Every handler is one or two READ COMMITTED transactions: it reads, does *)
(* something else, and commits.  An ORM commit writes only the columns     *)
(* that differ from what the handler READ, with no check that the row is   *)
(* still what it was.  now, pay and the t-variables are committed; a       *)
(* handler's reads are in seen, its uncommitted claim is in claim.         *)
(***************************************************************************)
EXTENDS Naturals, FiniteSets

CONSTANTS
    Payments,   \* subscription_payments rows that may come to exist
    Users,
    Tenants,
    UserOf,     \* subscription_payments.user_id
    TenantOf,   \* users.tenant_id
    PlanOf,     \* subscription_payments.plan_id
    Upgrades,   \* the rows that /upgrade inserts, the others by create
    Plans,      \* plan ids; the free plan has id 1
    TrialPlan,  \* the plan a trial is registered with
    Period,     \* subscription_plans.period_days
    TrialDays,
    Handlers,   \* requests, bot events and cold starts in flight
    MaxNow,     \* bound: the last day modelled
    NoHandler, NoPayment, NoPlan, NoEnd

ASSUME UserOfAssumption == UserOf \in [Payments -> Users]
ASSUME TenantOfAssumption == TenantOf \in [Users -> Tenants]
ASSUME PlansAssumption == Plans \subseteq Nat /\ 1 \in Plans /\ TrialPlan \in Plans
ASSUME PlanOfAssumption == PlanOf \in [Payments -> Plans]
ASSUME PeriodAssumption == Period \in [Plans -> Nat] /\ TrialDays \in Nat /\ MaxNow \in Nat
ASSUME NoHandlerAssumption == NoHandler \notin Handlers
ASSUME NoPaymentAssumption == NoPayment \notin Payments
ASSUME NoPlanAssumption == NoPlan \notin Plans
ASSUME NoEndAssumption == NoEnd \notin Nat

VARIABLES
    now,        \* the day, utcnow()
    pay,        \* subscription_payments.status, "none" before the row exists
    claim,      \* who holds the row lock of a payment
    tstatus,    \* tenants.subscription_status
    tplan,      \* tenants.plan_id
    tend,       \* tenants.plan_end
    phase,      \* how far each handler is
    target,     \* the payment it is about
    scope,      \* the tenants it is about
    seen,       \* the subscription_status it read
    seenPlan,   \* the plan_id it read
    activated   \* history: the number of activations each payment caused

requests == <<pay, claim>>
tenants == <<tstatus, tplan, tend>>
locals == <<phase, target, scope, seen, seenPlan>>
vars == <<now, requests, tenants, locals, activated>>

Owner(p) == TenantOf[UserOf[p]]
TenantStatuses == {"UNPAID", "PAID", "REJECTED", "FREE", "TRIAL", "EXPIRED_TRIAL"}
Deciding == {"verifying", "rejecting", "rejectingByTelegram"}
Phases == {"idle", "asked", "vacant", "cancelling", "expiring", "notifying", "migrating"}
            \cup Deciding

TypeOK ==
    /\ now \in Nat
    /\ pay \in [Payments -> {"none", "pending", "verified", "cancelled"}]
    /\ claim \in [Payments -> Handlers \cup {NoHandler}]
    /\ tstatus \in [Tenants -> TenantStatuses]
    /\ tplan \in [Tenants -> Plans \cup {NoPlan}]
    /\ tend \in [Tenants -> Nat \cup {NoEnd}]
    /\ phase \in [Handlers -> Phases]
    /\ target \in [Handlers -> Payments \cup {NoPayment}]
    /\ scope \in [Handlers -> SUBSET Tenants]
    /\ seen \in [Handlers -> TenantStatuses]
    /\ seenPlan \in [Handlers -> Plans \cup {NoPlan}]
    /\ activated \in [Payments -> Nat]

(* A tenant registers with a trial or with nothing. *)
Init ==
    /\ now = 0
    /\ pay = [p \in Payments |-> "none"]
    /\ claim = [p \in Payments |-> NoHandler]
    /\ tstatus \in [Tenants -> {"UNPAID", "TRIAL"}]
    /\ tplan = [t \in Tenants |-> IF tstatus[t] = "TRIAL" THEN TrialPlan ELSE NoPlan]
    /\ tend = [t \in Tenants |-> IF tstatus[t] = "TRIAL" THEN TrialDays ELSE NoEnd]
    /\ phase = [h \in Handlers |-> "idle"]
    /\ target = [h \in Handlers |-> NoPayment]
    /\ scope = [h \in Handlers |-> {}]
    /\ seen = [h \in Handlers |-> "UNPAID"]
    /\ seenPlan = [h \in Handlers |-> NoPlan]
    /\ activated = [p \in Payments |-> 0]

-----------------------------------------------------------------------------

(* A handler starts with what it read of one tenant. *)
Start(h, p, t, next) ==
    /\ phase[h] = "idle"
    /\ phase' = [phase EXCEPT ![h] = next]
    /\ target' = [target EXCEPT ![h] = p]
    /\ scope' = [scope EXCEPT ![h] = {t}]
    /\ seen' = [seen EXCEPT ![h] = tstatus[t]]
    /\ seenPlan' = [seenPlan EXCEPT ![h] = tplan[t]]

GoOn(h, next) ==
    /\ phase' = [phase EXCEPT ![h] = next]
    /\ UNCHANGED <<target, scope, seen, seenPlan>>

(* The handler returns; its locals are forgotten. *)
Finish(h) ==
    /\ phase' = [phase EXCEPT ![h] = "idle"]
    /\ target' = [target EXCEPT ![h] = NoPayment]
    /\ scope' = [scope EXCEPT ![h] = {}]
    /\ seen' = [seen EXCEPT ![h] = "UNPAID"]
    /\ seenPlan' = [seenPlan EXCEPT ![h] = NoPlan]

(* The end of a transaction releases the row locks it took. *)
ReleaseNothing(h) == UNCHANGED claim \* mutant: the transaction is left open
Release(h) ==
    claim' = [p \in Payments |-> IF claim[p] = h THEN NoHandler ELSE claim[p]]

PastEnd(t) == tend[t] # NoEnd /\ now > tend[t]

(* is_subscription_active *)
Active(t) == tstatus[t] \in {"PAID", "TRIAL"} /\ ~PastEnd(t)

-----------------------------------------------------------------------------
(* Requests: POST /api/subscriptions and /api/subscriptions/upgrade.       *)

(* What the handler checks of the tenant before it looks for a pending row. *)
MayAsk(p) ==
    LET t == Owner(p) IN
    IF p \in Upgrades THEN tplan[t] # NoPlan => tplan[t] < PlanOf[p]
                      ELSE ~Active(t)

Ask(h, p) ==
    /\ pay[p] = "none"
    /\ \A g \in Handlers : target[g] # p
    /\ MayAsk(p)
    /\ Start(h, p, Owner(p), "asked")
    /\ UNCHANGED <<now, requests, tenants, activated>>

PendingOf(u) == {q \in Payments : UserOf[q] = u /\ pay[q] = "pending"}

(* SELECT for a pending row of the user, then 400 or the INSERT. *)
LookForPending(h) ==
    /\ phase[h] = "asked"
    /\ IF PendingOf(UserOf[target[h]]) = {} THEN GoOn(h, "vacant") ELSE Finish(h)
    /\ UNCHANGED <<now, requests, tenants, activated>>

(* The INSERT: the partial unique index on (user_id) WHERE status =        *)
(* 'pending' waits for a decision of a pending row that is in flight, and   *)
(* refuses a second pending row (IntegrityError, 400).                      *)
IndexIgnored(p) == TRUE \* mutant: no unique index, the SELECT is the only check
IndexAllows(p) == PendingOf(UserOf[p]) = {}

Insert(h) ==
    /\ phase[h] = "vacant"
    /\ \A q \in PendingOf(UserOf[target[h]]) : claim[q] = NoHandler
    /\ pay' = IF IndexAllows(target[h])
              THEN [pay EXCEPT ![target[h]] = "pending"] ELSE pay
    /\ Finish(h)
    /\ UNCHANGED <<now, claim, tenants, activated>>

-----------------------------------------------------------------------------
(* Decisions: POST /api/admin/subscriptions and the Telegram sub_ buttons. *)

(* UPDATE ... WHERE id = p AND status = 'pending' RETURNING: waits for the  *)
(* row's lock and matches only a pending row; then the tenant is read.      *)
ClaimableByAnyStatus(p) == pay[p] # "none" /\ claim[p] = NoHandler \* mutant
Claimable(p) == pay[p] = "pending" /\ claim[p] = NoHandler

Claim(h, p, next) ==
    /\ Claimable(p)
    /\ claim' = [claim EXCEPT ![p] = h]
    /\ Start(h, p, Owner(p), next)
    /\ UNCHANGED <<now, pay, tenants, activated>>

ClaimApproval(h, p) == Claim(h, p, "verifying")
ClaimRejection(h, p) == Claim(h, p, "rejecting")
ClaimTelegramRejection(h, p) == Claim(h, p, "rejectingByTelegram")

(* ORM column write: only a value that differs from the one read is sent. *)
Written(column, t, old, new) ==
    IF new = old THEN column ELSE [column EXCEPT ![t] = new]

PaidStatus == "PAID"
EndExtended(t, p) == \* mutant: the period is added to what is left
    (IF tend[t] = NoEnd \/ tend[t] < now THEN now ELSE tend[t]) + Period[PlanOf[p]]
NewEnd(t, p) == now + Period[PlanOf[p]]

(* db.commit() of an approval.  plan_end always differs from the one read:  *)
(* it is the time of the approval plus the period.                          *)
CommitApproval(h) ==
    LET p == target[h]
        t == Owner(p)
    IN
    /\ phase[h] = "verifying"
    /\ pay' = [pay EXCEPT ![p] = "verified"]
    /\ tstatus' = Written(tstatus, t, seen[h], PaidStatus)
    /\ tplan' = Written(tplan, t, seenPlan[h], PlanOf[p])
    /\ tend' = [tend EXCEPT ![t] = NewEnd(t, p)]
    /\ activated' = [activated EXCEPT ![p] = activated[p] + 1]
    /\ Release(h)
    /\ Finish(h)
    /\ UNCHANGED now

RejectedStatus == "cancelled"

(* The HTTP rejection marks the tenant as well, the Telegram one does not. *)
CommitRejection(h) ==
    /\ phase[h] \in {"rejecting", "rejectingByTelegram"}
    /\ pay' = [pay EXCEPT ![target[h]] = RejectedStatus]
    /\ tstatus' = IF phase[h] = "rejecting"
                  THEN Written(tstatus, Owner(target[h]), seen[h], "REJECTED")
                  ELSE tstatus
    /\ Release(h)
    /\ Finish(h)
    /\ UNCHANGED <<now, tplan, tend, activated>>

-----------------------------------------------------------------------------
(* The owner's withdrawal: POST /api/subscriptions/cancel.                 *)

ReadForCancel(h, p) ==
    /\ pay[p] = "pending"
    /\ Start(h, p, Owner(p), "cancelling")
    /\ UNCHANGED <<now, requests, tenants, activated>>

(* The flush is UPDATE ... WHERE id = p: it waits for the row's lock and   *)
(* does not look at the status again.                                      *)
CommitCancel(h) ==
    /\ phase[h] = "cancelling"
    /\ claim[target[h]] = NoHandler
    /\ pay' = [pay EXCEPT ![target[h]] = "cancelled"]
    /\ Finish(h)
    /\ UNCHANGED <<now, claim, tenants, activated>>

-----------------------------------------------------------------------------
(* Expiry: BotEngine._expire_tenant_if_due, on any bot event.              *)

ReadDue(h, t) ==
    /\ PastEnd(t)
    /\ tstatus[t] \in {"TRIAL", "PAID"}
    /\ Start(h, NoPayment, t, "expiring")
    /\ UNCHANGED <<now, requests, tenants, activated>>

CommitExpiry(h) ==
    /\ phase[h] = "expiring"
    /\ tstatus' = [t \in Tenants |->
                     IF t \in scope[h]
                     THEN IF seen[h] = "TRIAL" THEN "EXPIRED_TRIAL" ELSE "UNPAID"
                     ELSE tstatus[t]]
    /\ GoOn(h, "notifying")
    /\ UNCHANGED <<now, requests, tplan, tend, activated>>

(* _notify_subscription_ended commits a notification, whose row is left out, *)
(* in a second transaction.                                                  *)
CommitNotice(h) ==
    /\ phase[h] = "notifying"
    /\ Finish(h)
    /\ UNCHANGED <<now, requests, tenants, activated>>

-----------------------------------------------------------------------------
(* A cold start moves the tenants without a plan to the free plan.         *)

Unassigned == {t \in Tenants : tplan[t] = NoPlan}

ReadUnassigned(h) ==
    /\ Unassigned # {}
    /\ phase[h] = "idle"
    /\ phase' = [phase EXCEPT ![h] = "migrating"]
    /\ scope' = [scope EXCEPT ![h] = Unassigned]
    /\ UNCHANGED <<now, requests, tenants, target, seen, seenPlan, activated>>

CommitMigration(h) ==
    /\ phase[h] = "migrating"
    /\ tplan' = [t \in Tenants |-> IF t \in scope[h] THEN 1 ELSE tplan[t]]
    /\ tstatus' = [t \in Tenants |-> IF t \in scope[h] THEN "FREE" ELSE tstatus[t]]
    /\ Finish(h)
    /\ UNCHANGED <<now, requests, tend, activated>>

-----------------------------------------------------------------------------

AbortAfterActivation(h) == \* mutant: the tenant was written in a commit of its own
    /\ phase[h] # "idle"
    /\ tstatus' = [t \in Tenants |-> IF t \in scope[h] /\ phase[h] = "verifying"
                                     THEN "PAID" ELSE tstatus[t]]
    /\ Release(h)
    /\ Finish(h)
    /\ UNCHANGED <<now, pay, tplan, tend, activated>>

(* The request fails or its instance dies: the open transaction is rolled   *)
(* back, what was committed before stays.                                   *)
Abort(h) ==
    /\ phase[h] # "idle"
    /\ Release(h)
    /\ Finish(h)
    /\ UNCHANGED <<now, pay, tenants, activated>>

Tick ==
    /\ now < MaxNow
    /\ now' = now + 1
    /\ UNCHANGED <<requests, tenants, locals, activated>>

Next ==
    \/ Tick
    \/ \E h \in Handlers :
        \/ \E p \in Payments :
            \/ Ask(h, p)
            \/ ClaimApproval(h, p)
            \/ ClaimRejection(h, p)
            \/ ClaimTelegramRejection(h, p)
            \/ ReadForCancel(h, p)
        \/ \E t \in Tenants : ReadDue(h, t)
        \/ ReadUnassigned(h)
        \/ LookForPending(h) \/ Insert(h)
        \/ CommitApproval(h) \/ CommitRejection(h) \/ CommitCancel(h)
        \/ CommitExpiry(h) \/ CommitNotice(h)
        \/ CommitMigration(h)
        \/ Abort(h)

Spec == Init /\ [][Next]_vars

(* A handler that has begun goes on, and PostgreSQL grants a row lock in    *)
(* the order of the requests.  Nobody promises that users ask, admins       *)
(* decide or bot events arrive, and a handler may die at any point.         *)
Fairness ==
    \A h \in Handlers :
        /\ WF_vars(LookForPending(h))
        /\ SF_vars(Insert(h))
        /\ WF_vars(CommitApproval(h))
        /\ WF_vars(CommitRejection(h))
        /\ SF_vars(CommitCancel(h))
        /\ WF_vars(CommitExpiry(h))
        /\ WF_vars(CommitNotice(h))
        /\ WF_vars(CommitMigration(h))

FairSpec == Spec /\ Fairness

-----------------------------------------------------------------------------
(* What holds.                                                             *)

(* Two requests of one user, on two server instances, never leave two       *)
(* pending rows behind (models.py ix_sub_payment_user_pending).             *)
OnePendingPerUser == \A u \in Users : \A p, q \in PendingOf(u) : p = q

(* However many admins press a button, through either channel, with         *)
(* rollbacks and withdrawals in between, a payment activates a plan at most *)
(* once (approvals.py, telegram.py).                                        *)
ActivatedAtMostOnce == \A p \in Payments : activated[p] <= 1

(* A payment is recorded as verified only by the commit that activated its  *)
(* plan: never by a rejection, and never without the activation.            *)
VerifiedWasActivated ==
    \A p \in Payments : pay[p] = "verified" => activated[p] = 1

(* No interleaving of requests, decisions, expiries, migrations and crashes *)
(* makes a tenant PAID that has no payment whose approval was committed.    *)
PaidNeedsApproval ==
    \A t \in Tenants :
        tstatus[t] = "PAID" => \E p \in Payments : Owner(p) = t /\ activated[p] > 0

(* The end of an entitlement moves only with the commit of an approval of   *)
(* one of the tenant's pending payments, to that plan's period from now.    *)
EndMovesByApproval ==
    [][\A t \in Tenants : tend'[t] # tend[t] =>
        \E p \in Payments :
            /\ Owner(p) = t
            /\ pay[p] = "pending" /\ pay'[p] = "verified"
            /\ tend'[t] = now + Period[PlanOf[p]]]_vars

(* Every handler that begins ends, the ones that wait for a row lock of     *)
(* another included.                                                        *)
HandlersEnd == \A h \in Handlers : phase[h] # "idle" ~> phase[h] = "idle"

-----------------------------------------------------------------------------
(* What the comments and docstrings say, and the code does not keep.       *)

(* plans.py: "admin decisions (verified/cancelled) are final and never      *)
(* overwritten by a late user cancel".                                      *)
AdminDecisionFinal ==
    [][\A p \in Payments : pay[p] = "verified" => pay'[p] = "verified"]_vars

(* approvals.py answers "activated": true when the plan and the tenant are  *)
(* there: the commit then leaves the tenant PAID.                           *)
ApprovalActivates ==
    [][\A p \in Payments :
        pay[p] # "verified" /\ pay'[p] = "verified" => tstatus'[Owner(p)] = "PAID"]_vars

=============================================================================
