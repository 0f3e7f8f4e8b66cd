SPECIFICATION FairSpec
CONSTANTS
    u1 = u1
    free = free
    pro = pro
    p1 = p1
    p2 = p2
    other = other
    None = None
    Users = {u1}
    Plans = {pro}
    Payments = {p1, p2}
    Subs = {s1}
    Workers = {w1}
    PayUser <- SameUser
    PayPlan <- PlanOf
    PlanTier <- Tier
    FreePlans = {}
    LifetimePlans = {pro}
    Refs = {None}
    Buyers = {}
    PageSize = 50
    MaxCrashes = 1
    Serialized = FALSE
PROPERTY OverdueIsSettled
CHECK_DEADLOCK FALSE
