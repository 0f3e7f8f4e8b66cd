SPECIFICATION Spec
CONSTANTS
    None = None
    Users = {u1, u2}
    Google = {g1, g2}
    Telegram = {t1}
    Emails = {m1}
    Numbers = {n1}
    Workers = {w1, w2}
    MaxServed = 4
SYMMETRY Symmetry
CHECK_DEADLOCK FALSE
INVARIANT TypeOK SignInsAreKept PhoneWasConfirmed
