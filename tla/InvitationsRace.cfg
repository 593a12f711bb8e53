CONSTANTS
    bob = bob
    Bob = Bob
    ann = ann
    r1 = r1
    r2 = r2
    Addresses = {bob, Bob}
    Users = {bob, Bob}
    Mailbox <- MailboxOf
    Requests = {r1, r2}
    OfferedRoles = {"OWNER", "ADMIN", "MEMBER"}
    Faults = TRUE
SYMMETRY Symmetry
SPECIFICATION Spec
PROPERTY OnlyPendingIsRevoked
