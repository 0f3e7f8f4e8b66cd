SPECIFICATION Spec
CONSTANTS
    Attempts = {a1, a2}
    Questions = {q1, q2}
    Workers = {w1, w2}
    Values <- Worths
    None = None
    MaxEditions = 2
    MaxServed = 4
    MaxEdits = 2
SYMMETRY Symmetry
CHECK_DEADLOCK FALSE
INVARIANT TypeOK OneInProgress ScoreIsFair
PROPERTY SubmittedIsFinal
