SPECIFICATION Spec
CONSTANTS
    None = None
    Users = {user}
    Passwords = {p1, p2}
    Workers = {w1, w2}
    MAX_ATTEMPTS = 1
    MaxCodes = 2
    MaxSessions = 3
    MaxResets = 1
SYMMETRY Symmetry
VIEW View
INVARIANT TypeOK RegisteredOnce UsedOnce PasswordTakesHold
