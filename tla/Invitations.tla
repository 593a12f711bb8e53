----------------------------- MODULE Invitations -----------------------------
(***************************************************************************)
(* The invitations of one organization: the Invitation rows, the Member    *)
(* rows an acceptance creates, and the requests that read and write both.  *)
(* As in Membership, a step is one awaited database call, or one           *)
(* transaction, with the synchronous code around it.                       *)
(*                                                                         *)
(* There is one row per address (unique(email, organizationId)) and none   *)
(* is deleted, so a row is identified with its address.  Addresses are     *)
(* compared letter by letter by the database, and without regard to case   *)
(* when an invitation is accepted: two spellings share a mailbox.  A user  *)
(* is identified with the spelling registered.  A link finds a row only by *)
(* the token stored last, so to present a link is to name its row.         *)
(***************************************************************************)
EXTENDS Authorization

CONSTANTS
    Addresses,
    Users,
    Mailbox,        \* the address in lower case
    Requests,
    OfferedRoles,   \* the roles a client puts in a request body
    Faults          \* may a database call fail or the process crash?

ASSUME UsersAreAddresses == Users \subseteq Addresses
ASSUME OfferedRolesAreRoles == OfferedRoles \subseteq Roles
ASSUME FaultsIsBoolean == Faults \in BOOLEAN

VARIABLES
    status,         \* Invitation.status, NoRow where there is no row
    hidden,         \* rows with deletedAt set
    lapsed,         \* rows whose expiresAt has passed
    offered,        \* Invitation.role
    offers,         \* the roles ever offered, each at its address (history)
    role,           \* Member.role of each invited user, NoRole without a row
    departed,       \* users whose member row is marked deleted
    req,            \* the local state of each handler
    auditJoined,    \* users with a MemberJoined audit row
    auditRevoked,   \* invitations with an InvitationRevoked audit row
    lostEvent       \* was a committed write left without its event?

invitations == <<status, hidden, lapsed, offered, offers>>
memberRows == <<role, departed>>
audit == <<auditJoined, auditRevoked, lostEvent>>
vars == <<invitations, memberRows, req, audit>>

NoRow == "NO_ROW"
Statuses == {"PENDING", "ACCEPTED", "REVOKED"}

MayRead(u, a) == Mailbox[u] = Mailbox[a]
Active(u) == role[u] # NoRole /\ u \notin departed

Idle == [pc |-> "idle"]
Goto(r, local) == req' = [req EXCEPT ![r] = local]

-----------------------------------------------------------------------------
Init ==
    /\ status = [a \in Addresses |-> NoRow]
    /\ hidden = {}
    /\ lapsed = {}
    /\ offered = [a \in Addresses |-> NoRole]
    /\ offers = {}
    /\ role = [u \in Users |-> NoRole]
    /\ departed = {}
    /\ req = [r \in Requests |-> Idle]
    /\ auditJoined = {}
    /\ auditRevoked = {}
    /\ lostEvent = FALSE

\* InviteMemberDto, and the service once more
InvitableRolesAny == Roles
InvitableRoles == Roles \ {"OWNER"}

\* invite, up to the check that no active member is registered under the
\* address.
StartInvite(r) ==
    /\ req[r] = Idle
    /\ \E a \in Addresses, newRole \in OfferedRoles \cap InvitableRoles :
        /\ ~ (a \in Users /\ Active(a))
        /\ Goto(r, [pc |-> "find", address |-> a, role |-> newRole])
    /\ UNCHANGED <<invitations, memberRows, audit>>

\* findPendingByEmailAndOrg: an expired invitation is pending still.
Pending(a) == status[a] = "PENDING" /\ a \notin hidden

FindPending(r) ==
    /\ req[r].pc = "find"
    /\ Goto(r, [req[r] EXCEPT !.pc = IF Pending(req[r].address) THEN "renew" ELSE "create"])
    /\ UNCHANGED <<invitations, memberRows, audit>>

\* update by id: token, expiry and role, whatever the status is by now.
Renew(r) ==
    /\ req[r].pc = "renew"
    /\ offered' = [offered EXCEPT ![req[r].address] = req[r].role]
    /\ offers' = offers \cup {<<req[r].address, req[r].role>>}
    /\ lapsed' = lapsed \ {req[r].address}
    /\ Goto(r, Idle)
    /\ UNCHANGED <<status, hidden, memberRows, audit>>

\* The unique index refuses a second row for the address.
Create(r) ==
    LET a == req[r].address IN
    /\ req[r].pc = "create"
    /\ \/ /\ status[a] = NoRow
          /\ status' = [status EXCEPT ![a] = "PENDING"]
          /\ offered' = [offered EXCEPT ![a] = req[r].role]
          /\ offers' = offers \cup {<<a, req[r].role>>}
       \/ /\ status[a] # NoRow
          /\ UNCHANGED <<status, offered, offers>>
    /\ Goto(r, Idle)
    /\ UNCHANGED <<hidden, lapsed, memberRows, audit>>

-----------------------------------------------------------------------------
\* findActiveByTokenHash and the comparison of addresses
AcceptableToAnyone(u, a) == Pending(a) /\ a \notin lapsed
Acceptable(u, a) == Pending(a) /\ a \notin lapsed /\ MayRead(u, a)

StartAccept(r) ==
    /\ req[r] = Idle
    /\ \E a \in Addresses, u \in Users :
        /\ Acceptable(u, a)
        /\ Goto(r, [pc |-> "member", address |-> a, role |-> offered[a], user |-> u])
    /\ UNCHANGED <<invitations, memberRows, audit>>

FindMember(r) ==
    /\ req[r].pc = "member"
    /\ Goto(r, [req[r] EXCEPT !.pc = IF Active(req[r].user) THEN "mark" ELSE "join"])
    /\ UNCHANGED <<invitations, memberRows, audit>>

\* Already a member: the row is marked accepted, and no event is published.
Mark(r) ==
    /\ req[r].pc = "mark"
    /\ status' = [status EXCEPT ![req[r].address] = "ACCEPTED"]
    /\ Goto(r, Idle)
    /\ UNCHANGED <<hidden, lapsed, offered, offers, memberRows, audit>>

JoinRoleDefault(q) == "MEMBER"
JoinRole(q) == q.role

\* acceptInvitationTx: both writes, or none when the user has a member row, be
\* it marked deleted.
RowIsFree(u) == role[u] = NoRole

AcceptTx(r) ==
    LET q == req[r] IN
    /\ q.pc = "join"
    /\ \/ /\ RowIsFree(q.user)
          /\ status' = [status EXCEPT ![q.address] = "ACCEPTED"]
          /\ role' = [role EXCEPT ![q.user] = JoinRole(q)]
          /\ Goto(r, [pc |-> "joined", user |-> q.user])
       \/ /\ ~RowIsFree(q.user)
          /\ Goto(r, Idle)
          /\ UNCHANGED <<status, role>>
    /\ UNCHANGED <<hidden, lapsed, offered, offers, departed, audit>>

PublishJoin(r) ==
    /\ req[r].pc = "joined"
    /\ auditJoined' = auditJoined \cup {req[r].user}
    /\ Goto(r, Idle)
    /\ UNCHANGED <<invitations, memberRows, auditRevoked, lostEvent>>

-----------------------------------------------------------------------------
\* revoke: findById, the policy, the status
RevocableAny(a) == status[a] # NoRow /\ a \notin hidden
Revocable(a) == Pending(a)

StartRevoke(r) ==
    /\ req[r] = Idle
    /\ \E a \in Addresses :
        /\ Revocable(a)
        /\ Goto(r, [pc |-> "revoke", address |-> a])
    /\ UNCHANGED <<invitations, memberRows, audit>>

\* update by id, whatever the status is by now.
Revoke(r) ==
    LET a == req[r].address IN
    /\ req[r].pc = "revoke"
    /\ status' = [status EXCEPT ![a] = "REVOKED"]
    /\ hidden' = hidden \cup {a}
    /\ Goto(r, [pc |-> "revoked", address |-> a])
    /\ UNCHANGED <<lapsed, offered, offers, memberRows, audit>>

AuditAfterRevokeNone(a) == auditRevoked
AuditAfterRevoke(a) == auditRevoked \cup {a}

PublishRevoke(r) ==
    /\ req[r].pc = "revoked"
    /\ auditRevoked' = AuditAfterRevoke(req[r].address)
    /\ Goto(r, Idle)
    /\ UNCHANGED <<invitations, memberRows, auditJoined, lostEvent>>

-----------------------------------------------------------------------------
\* A rejected call or a crash; after a commit, only the event is lost.
Fail(r) ==
    /\ Faults
    /\ req[r] # Idle
    /\ lostEvent' = (lostEvent \/ req[r].pc \in {"joined", "revoked"})
    /\ Goto(r, Idle)
    /\ UNCHANGED <<invitations, memberRows, auditJoined, auditRevoked>>

\* Seven days pass.
Expire ==
    /\ \E a \in Addresses : status[a] # NoRow /\ lapsed' = lapsed \cup {a}
    /\ UNCHANGED <<status, hidden, offered, offers, memberRows, req, audit>>

\* The member is removed or leaves: Membership's write to the row.
Depart ==
    /\ \E u \in Users : Active(u) /\ departed' = departed \cup {u}
    /\ UNCHANGED <<invitations, role, req, audit>>

Step(r) ==
    \/ StartInvite(r) \/ FindPending(r) \/ Renew(r) \/ Create(r)
    \/ StartAccept(r) \/ FindMember(r) \/ Mark(r) \/ AcceptTx(r) \/ PublishJoin(r)
    \/ StartRevoke(r) \/ Revoke(r) \/ PublishRevoke(r)
    \/ Fail(r)

Next ==
    \/ \E r \in Requests : Step(r)
    \/ Expire
    \/ Depart

Spec == Init /\ [][Next]_vars

\* No two requests decide on one invitation at a time, but for acceptances by
\* one user.  Invitations and renewals may overlap one another, and all of them.
Accepting == {"member", "mark", "join"}
Deciding == Accepting \cup {"revoke"}
Apart ==
    \A p, q \in Requests :
        ( /\ req[p].pc \in Deciding
          /\ req[q].pc \in Deciding
          /\ req[p].address = req[q].address )
        => \/ p = q
           \/ {req[p].pc, req[q].pc} \subseteq Accepting /\ req[p].user = req[q].user

SpecApart == Init /\ [][Next /\ Apart']_vars

-----------------------------------------------------------------------------
(* Properties                                                              *)

Local ==
    [pc : {"idle"}]
    \cup [pc : {"find", "renew", "create"}, address : Addresses, role : Roles \ {"OWNER"}]
    \cup [pc : {"member", "mark", "join"}, address : Addresses, role : Roles \ {"OWNER"},
          user : Users]
    \cup [pc : {"joined"}, user : Users]
    \cup [pc : {"revoke", "revoked"}, address : Addresses]

\* Types; nobody is invited, or joins, as OWNER, and every row that exists has
\* a role to offer.
TypeOK ==
    /\ status \in [Addresses -> Statuses \cup {NoRow}]
    /\ hidden \subseteq Addresses
    /\ lapsed \subseteq Addresses
    /\ offered \in [Addresses -> (Roles \ {"OWNER"}) \cup {NoRole}]
    /\ \A a \in Addresses : status[a] # NoRow => offered[a] # NoRole
    /\ offers \subseteq Addresses \X (Roles \ {"OWNER"})
    /\ role \in [Users -> (Roles \ {"OWNER"}) \cup {NoRole}]
    /\ departed \subseteq {u \in Users : role[u] # NoRole}
    /\ req \in [Requests -> Local]
    /\ auditJoined \subseteq Users
    /\ auditRevoked \subseteq Addresses
    /\ lostEvent \in BOOLEAN

\* Whoever got a member row was invited, at an address of their own, and the
\* invitation can be used no more: whatever overlaps, and for good.
MembersWereInvited ==
    \A u \in Users : role[u] # NoRole =>
        \E a \in Addresses : MayRead(u, a) /\ status[a] \in {"ACCEPTED", "REVOKED"}

Joined == {u \in Users : role[u] # NoRole}
Joining == {req[r].user : r \in {p \in Requests : req[p].pc = "joined"}}
Revoking == {req[r].address : r \in {p \in Requests : req[p].pc = "revoked"}}

\* But for lost events and those about to be published, the audit log names the
\* users that joined and the invitations that were revoked, and no others:
\* the acceptance by somebody who is a member already is not a second joining.
AuditMatchesRows ==
    /\ auditJoined \cup Joining \subseteq Joined
    /\ auditRevoked \cup Revoking \subseteq hidden
    /\ lostEvent \/ ( /\ Joined \subseteq auditJoined \cup Joining
                      /\ hidden \subseteq auditRevoked \cup Revoking )

\* A member has a role that was offered to them, at an address of their own,
\* even where the acceptance overlapped a renewal that offered another one or
\* a revocation.  It may be the older role: what is renewed between the read
\* of an acceptance and its write is accepted as it was read.
RoleWasOffered ==
    \A u \in Users : role[u] # NoRole =>
        \E a \in Addresses : MayRead(u, a) /\ <<a, role[u]>> \in offers

\* "Only pending invitations can be revoked."
OnlyPendingIsRevoked ==
    [][ \A a \in Addresses :
          status[a] # "REVOKED" /\ status'[a] = "REVOKED" => status[a] = "PENDING" ]_vars

\* The abstract promise, read off the rows.
With(s) == {a \in Addresses : status[a] = s}
Abstract == INSTANCE Admission WITH
    open <- With("PENDING"),
    accepted <- With("ACCEPTED"),
    revoked <- With("REVOKED"),
    members <- {u \in Users : Active(u)},
    former <- departed

ImplementsAdmission == Abstract!Spec
=============================================================================
