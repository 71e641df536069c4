CONSTANTS
    t1 = t1
    t2 = t2
    w1 = w1
    w2 = w2
    w3 = w3
    demo = demo
    a1 = a1
    a2 = a2
    b1 = b1
    c1 = c1
    d1 = d1
    d2 = d2
    r1 = r1
    r2 = r2
    starter = starter
    enterprise = enterprise
    Unlimited = Unlimited
    Absent = Absent
    NoTab = NoTab
    Tiers = {starter, enterprise}
    TierCap <- MCTierCap
    FreeCap = 1
    Grace = 0
    Tenants = {t1}
    Workspaces = {w1, w2}
    Plans = {a1, b1}
    Tabs = {r1, r2}
    TenantOf <- MCTenantOf
    Samples = {}
    PlanHome <- MCPlanHome
    SeededPlans = {}
    TabTenant <- MCTabTenant
    BillingRows <- MCRows
    MaxTime = 1
SPECIFICATION FairSpec
INVARIANTS TypeOK PaidFor
PROPERTIES ImplementsSeats EveryCallReturns
