\* membership of one organization, Race
CONSTANTS
    u1 = u1
    u2 = u2
    u3 = u3
    r1 = r1
    r2 = r2
    Users = {u1, u2, u3}
    Requests = {r1, r2}
    OfferedRoles = {"OWNER", "ADMIN", "MEMBER"}
    MaxInitialOwners = 1
    Faults = TRUE
SPECIFICATION Spec
SYMMETRY Symmetry
INVARIANT SomeOwner
