SPECIFICATION Spec
CONSTANTS
    u1 = u1
    free = free
    pro = pro
    p1 = p1
    p2 = p2
    other = other
    None = None
    Users = {u1}
    Plans = {free, pro}
    Payments = {p1}
    Subs = {s1}
    Workers = {w1}
    PayUser <- SameUser
    PayPlan <- PlanOf
    PlanTier <- Tier
    FreePlans = {free}
    LifetimePlans = {}
    Refs = {None, other}
    Buyers = {}
    PageSize = 50
    MaxCrashes = 0
    Serialized = TRUE
INVARIANT PaidPlansAreReviewed
CHECK_DEADLOCK FALSE
