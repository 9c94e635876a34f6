\* Three webhook calls that may all run at once; no symmetry, for liveness.
CONSTANTS
    p1 = p1
    p2 = p2
    p3 = p3
    t1 = t1
    t2 = t2
    Payments <- MCPayments
    Tenants <- MCTenants
    TenantOf <- MCTenantOf
    Workers = {w1, w2, w3}
    NoWorker = NoWorker
    NoPayment = NoPayment
SPECIFICATION FairSpec
INVARIANTS
    CreditedExactlyOnce
PROPERTIES
    ImplementsLedger
    ClaimsEnd
CHECK_DEADLOCK FALSE
