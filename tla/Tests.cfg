SPECIFICATION Spec
CONSTANTS
    None = None
    Tests = {t1, t2, t3, t4}
    Questions = {q1, q2, q3}
    Workers = {w1, w2}
    MaxTests = 2
    Quotas <- OneOrUnlimited
    MaxEditions = 2
    MaxMonths = 1
    MaxServed = 4
SYMMETRY Symmetry
INVARIANT TypeOK WithinPlan
PROPERTY PublishedIsLocked
