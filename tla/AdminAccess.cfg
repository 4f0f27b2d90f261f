SPECIFICATION Spec
CONSTANTS
    Users = {u1, u2}
    Passwords = {a, b}
    Clients = {c1, c2, c3}
    Tokens = {t1, t2}
    Requests = {r1, r2}
    Limit = 2
    MaxIdentities = 2
    None = None
SYMMETRY Symmetry
INVARIANTS
    OneAccount
    OldSessionsGone
    ThrottleHolds
