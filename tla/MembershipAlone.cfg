\* membership of one organization, Alone
CONSTANTS
    u1 = u1
    u2 = u2
    u3 = u3
    r1 = r1
    r2 = r2
    Users = {u1, u2, u3}
    Requests = {r1, r2}
    OfferedRoles = {"OWNER", "ADMIN", "MEMBER"}
    MaxInitialOwners = 1
    Faults = TRUE
SPECIFICATION SpecAlone
SYMMETRY Symmetry
INVARIANT TypeOK
INVARIANT OneOwner
INVARIANT AuditNamesOwner
INVARIANT AuditTellsDepartures
PROPERTY OwnersYieldOnlyThemselves
PROPERTY ImplementsOwnership
