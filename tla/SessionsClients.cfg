CONSTANTS
    u1 = u1
    u2 = u2
    s1 = s1
    s2 = s2
    c1 = c1
    c2 = c2
    r1 = r1
    r2 = r2
    Users = {u1}
    SessionIds = {s1}
    Clients = {c1, c2}
    Requests = {r1, r2}
    Life = 2
    AccessLife = 1
    MaxTime = 3
    Faults = TRUE
SPECIFICATION Spec
SYMMETRY Symmetry
INVARIANT LockoutHasCause
INVARIANT AlarmHasCause
INVARIANT SpentIsDead
