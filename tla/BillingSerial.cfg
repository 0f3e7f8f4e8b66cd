SPECIFICATION Spec
CONSTANTS
    u1 = u1
    free = free
    pro = pro
    p1 = p1
    p2 = p2
    other = other
    None = None
    Users = {u1}
    Plans = {free, pro}
    Payments = {p1, p2}
    Subs = {s1, s2, s3}
    Workers = {w1}
    PayUser <- SameUser
    PayPlan <- PlanOf
    PlanTier <- Tier
    FreePlans = {free}
    LifetimePlans = {}
    Refs = {None, other}
    Buyers = {u1}
    PageSize = 50
    MaxCrashes = 1
    Serialized = TRUE
SYMMETRY Symmetry
INVARIANT NothingPilesUp TrailIsAHistory TierFollowsSubscription
PROPERTY ImplementsLifecycle
CHECK_DEADLOCK FALSE
