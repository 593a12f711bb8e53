------------------------------ MODULE Admission ------------------------------
(***************************************************************************)
(* What the invitations of one organization promise, with no requests in   *)
(* sight: an address is invited at most once; its invitation is open until *)
(* it is accepted or revoked, for good; it admits at most one user, who    *)
(* owns the mailbox of that address; and who left stays out.              *)
(***************************************************************************)
CONSTANTS
    Addresses,
    Users,
    Mailbox         \* the mailbox of an address, or of a user's own address

VARIABLES
    open,       \* addresses with an open invitation
    accepted,
    revoked,
    members,    \* users who were admitted and are members
    former      \* users who were admitted and are not members any more

vars == <<open, accepted, revoked, members, former>>

Init == open = {} /\ accepted = {} /\ revoked = {} /\ members = {} /\ former = {}

Invite(a) ==
    /\ a \notin accepted \cup revoked
    /\ open' = open \cup {a}
    /\ UNCHANGED <<accepted, revoked, members, former>>

Close(a) ==
    /\ a \in open
    /\ open' = open \ {a}

Admit(a, u) ==
    /\ Close(a)
    /\ Mailbox[u] = Mailbox[a]
    /\ u \notin members \cup former
    /\ accepted' = accepted \cup {a}
    /\ members' = members \cup {u}
    /\ UNCHANGED <<revoked, former>>

\* Accepted by somebody who needed no admission.
Settle(a) ==
    /\ Close(a)
    /\ accepted' = accepted \cup {a}
    /\ UNCHANGED <<revoked, members, former>>

Revoke(a) ==
    /\ Close(a)
    /\ revoked' = revoked \cup {a}
    /\ UNCHANGED <<accepted, members, former>>

Depart(u) ==
    /\ u \in members
    /\ members' = members \ {u}
    /\ former' = former \cup {u}
    /\ UNCHANGED <<open, accepted, revoked>>

Next ==
    \/ \E a \in Addresses : Invite(a) \/ Settle(a) \/ Revoke(a)
    \/ \E a \in Addresses, u \in Users : Admit(a, u)
    \/ \E u \in Users : Depart(u)

Spec == Init /\ [][Next]_vars
=============================================================================
