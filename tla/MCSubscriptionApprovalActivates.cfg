\* Violated: ApprovalActivates.
CONSTANTS
    p1 = p1
    p2 = p2
    p3 = p3
    u1 = u1
    u2 = u2
    t1 = t1
    Payments <- MCPayments
    Users <- MCUsers
    Tenants <- MCOneTenant
    UserOf <- MCUserOf
    TenantOf <- MCSameTenant
    PlanOf <- MCPlanOf
    Upgrades <- MCUpgrades
    Plans <- MCPlans
    TrialPlan = 2
    Period <- MCPeriod
    TrialDays = 0
    Handlers = {h1, h2}
    MaxNow = 2
    NoHandler = NoHandler
    NoPayment = NoPayment
    NoPlan = NoPlan
    NoEnd = NoEnd
SPECIFICATION Spec
PROPERTY
    ApprovalActivates
CHECK_DEADLOCK FALSE
