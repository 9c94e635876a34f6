--------------------------- MODULE MCSubscription ---------------------------
(***************************************************************************)
(* Subscription on small instances: one tenant with two users, an owner    *)
(* who asks for a plan and for an upgrade and a colleague who asks for a   *)
(* plan of her own.                                                        *)
(***************************************************************************)
EXTENDS Subscription, TLC

CONSTANTS p1, p2, p3, u1, u2, t1

MCPayments == {p1, p2, p3}
MCFirstRequests == {p1, p3}
MCUsers == {u1, u2}
MCUserOf == [p \in Payments |-> IF p = p3 THEN u2 ELSE u1]
MCOneTenant == {t1}
MCSameTenant == (u1 :> t1) @@ (u2 :> t1)
MCPlanOf == [p \in Payments |-> IF p = p2 THEN 3 ELSE 2]
MCUpgrades == {p2}
MCPlans == 1..3
MCPeriod == [plan \in MCPlans |-> 1]

HandlerSymmetry == Permutations(Handlers)

=============================================================================
