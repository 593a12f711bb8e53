CONSTANTS
    u1 = u1
    u2 = u2
    s1 = s1
    s2 = s2
    c1 = c1
    c2 = c2
    r1 = r1
    r2 = r2
    Users = {u1, u2}
    SessionIds = {s1, s2}
    Clients = {c1}
    Requests = {r1, r2}
    Life = 2
    AccessLife = 1
    MaxTime = 1
    Faults = FALSE
SPECIFICATION Spec
SYMMETRY Symmetry
INVARIANT TypeOK
PROPERTY RevocationIsFinal
PROPERTY EndedByItsUser
PROPERTY ReasonIsKept
