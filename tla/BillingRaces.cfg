SPECIFICATION Spec
CONSTANTS
    u1 = u1
    free = free
    pro = pro
    p1 = p1
    p2 = p2
    other = other
    None = None
    Users = {u1}
    Plans = {pro}
    Payments = {p1}
    Subs = {s1, s2}
    Workers = {w1, w2}
    PayUser <- SameUser
    PayPlan <- PlanOf
    PlanTier <- Tier
    FreePlans = {}
    LifetimePlans = {}
    Refs = {None, p1}
    Buyers = {}
    PageSize = 50
    MaxCrashes = 0
    Serialized = FALSE
SYMMETRY Symmetry
INVARIANT TypeOK PaymentIsSound
PROPERTY OnlyStaleWritersLeaveTerminal OnlyStaleActivationsPileUp
CHECK_DEADLOCK FALSE
