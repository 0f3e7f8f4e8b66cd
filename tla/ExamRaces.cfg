SPECIFICATION Spec
CONSTANTS
    None = None
    Users = {u1}
    Attempts = {a1}
    Questions = {q1}
    Workers = {w1, w2}
    Points <- Worth
    PassingScore = 50
    MaxAttempts = 1
    Certified = TRUE
    TimeLimited = TRUE
    MaxRows = 2
    MaxScore = 2
SYMMETRY Symmetry
INVARIANT TypeOK CertificateShowsPass StartsBounded ScoreIsEarned
PROPERTY ImplementsLifecycle CompletedIsFrozen
CHECK_DEADLOCK FALSE
