\* membership of one organization, Serial
CONSTANTS
    u1 = u1
    u2 = u2
    u3 = u3
    r1 = r1
    r2 = r2
    Users = {u1, u2, u3}
    Requests = {r1}
    OfferedRoles = {"OWNER", "ADMIN", "MEMBER"}
    MaxInitialOwners = 2
    Faults = TRUE
SPECIFICATION Spec
SYMMETRY Symmetry
INVARIANT SomeOwner
PROPERTY OwnersNeverMultiply
PROPERTY HierarchyRespected
