CONSTANTS
    t1 = t1
    t2 = t2
    s1 = s1
    s2 = s2
    q1 = q1
    q2 = q2
    q3 = q3
    starter = starter
    pro = pro
    h1 = h1
    h2 = h2
    born = born
    lapsed = lapsed
    lapsed2 = lapsed2
    ended = ended
    odd = odd
    second = second
    strayed = strayed
    receipt = receipt
    Absent = Absent
    Unlimited = Unlimited
    Tiers = {starter, pro}
    GrantTiers = {pro}
    TierCap <- MCTierCap
    FreeCap = 1
    Grace = 1
    Tenants = {t1}
    Subs = {s1, s2}
    Refs = {q1}
    RefTenant <- MCRefTenant
    Events = {born}
    EventOf <- MCEventOf
    Handlers = {h1}
    MaxFaults = 0
SPECIFICATION Spec
PROPERTY ManualSurvivesWebhooks
