CONSTANTS
    Reqs = {r1, r2}
    Logins = {l1, l2}
    Users = {u1}
    Services = {v1}
    Tokens = {t1, t2}
    NoToken = NoToken
    NoUser = NoUser
    NoLogin = NoLogin
    MaxGen = 3
    Rotates = TRUE
    Faults = TRUE
SYMMETRY Symmetry
SPECIFICATION Spec
INVARIANTS DisabledIsOut SessionNeverForks ServicesOnlyLeave
CHECK_DEADLOCK FALSE
