SPECIFICATION Spec
CONSTANTS
    None = None
    Exams = {e1, e2, e3, e4}
    Links = {l1}
    Users = {u1, u2}
    Workers = {w1, w2}
    MaxExams = 2
    MaxParticipants = 1
    UseLimits = {0, 1, 2}
    MaxServed = 6
SYMMETRY Symmetry
CHECK_DEADLOCK FALSE
INVARIANT TypeOK PlanLimits LinkUses
PROPERTY DecisionStands
