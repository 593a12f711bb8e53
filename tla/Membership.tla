----------------------------- MODULE Membership ------------------------------
(***************************************************************************)
(* Member management of one organization: the Member rows in PostgreSQL    *)
(* and the HTTP requests that read and write them.  A request is a handler *)
(* that keeps what it read in local variables across awaits, so a step of  *)
(* the module is one awaited database call, or the synchronous code that   *)
(* follows it; requests interleave between any two steps.  There is one    *)
(* row per user (unique(userId, organizationId)) and no row is ever        *)
(* deleted, only marked, so a row is identified with its user.             *)
(***************************************************************************)
EXTENDS Authorization, Naturals, FiniteSets

CONSTANTS
    Users,
    Requests,       \* handlers that may be in flight at the same time
    OfferedRoles,   \* the roles a client puts in a request body
    MaxInitialOwners,
    Faults          \* may a database call fail or the process crash?

ASSUME UsersFinite == IsFiniteSet(Users)
ASSUME OfferedRolesAreRoles == OfferedRoles \subseteq Roles
ASSUME FaultsIsBoolean == Faults \in BOOLEAN

VARIABLES
    role,           \* Member.role of each user, NoRole when there is no row
    deleted,        \* users whose row has deletedAt set
    req,            \* the local state of each handler
    auditOwner,     \* the owner, as the audit rows tell it
    auditLeft,      \* the departed members, as the audit rows tell it
    lostEvent       \* was a committed write left without its event?

vars == <<role, deleted, req, auditOwner, auditLeft, lostEvent>>

Active(u) == role[u] # NoRole /\ u \notin deleted

\* countOwners filters on the role and on deletedAt.
Owners == {u \in Users : Active(u) /\ role[u] = "OWNER"}

-----------------------------------------------------------------------------
(* The local state of a handler.                                           *)

Unread == "UNREAD"

Idle == [ pc |-> "idle", op |-> "none", actor |-> NoRole, target |-> NoRole,
          newRole |-> NoRole, actorRole |-> Unread, targetRole |-> Unread ]

Manage == {"changeRole", "remove"}

\* changeRole, removeMember and transferOwnership read both memberships,
\* leaveOrganization the actor's alone.
ReadsDone(q) ==
    /\ q.actorRole # Unread
    /\ q.op # "leave" => q.targetRole # Unread

\* What the service decides from its two snapshots.
Allowed(q) ==
    /\ q.actorRole # NoRole
    /\ q.op \in Manage =>
         CanManageMember(q.actor, q.actorRole, q.target, q.targetRole, q.newRole)
    /\ q.op = "transfer" =>
         CanTransferOwnership(q.actor, q.actorRole, q.target, q.targetRole)

\* Does the snapshot say that the write takes the OWNER role from somebody?
TakesOwner(q) ==
    \/ q.op \in Manage /\ q.targetRole = "OWNER"
    \/ q.op = "leave" /\ q.actorRole = "OWNER"

\* The user whose membership a remove or a leave ends.
Departing(q) == IF q.op = "leave" THEN q.actor ELSE q.target

ReadyToWrite(q) ==
    \/ q.pc = "counted"
    \/ q.pc = "reads" /\ ReadsDone(q) /\ Allowed(q) /\ ~TakesOwner(q)

InTransfer(r) == req[r].op = "transfer"

-----------------------------------------------------------------------------
Init ==
    \E founders \in SUBSET Users :
        /\ founders # {}
        /\ Cardinality(founders) <= MaxInitialOwners
        /\ role = [u \in Users |-> IF u \in founders THEN "OWNER" ELSE NoRole]
        /\ deleted = {}
        /\ req = [r \in Requests |-> Idle]
        /\ auditOwner \in founders
        /\ auditLeft = {}
        /\ lostEvent = FALSE

\* ChangeMemberRoleDto
AssignableRolesAny == Roles
AssignableRoles == Roles \ {"OWNER"}

\* The guards in front of the four routes.
GuardAdmits(op, actor) ==
    /\ Active(actor)
    /\ op = "changeRole" => HasPermissions({"member:update"}, PermissionsOf(role[actor]))
    /\ op = "remove" => HasPermissions({"member:remove"}, PermissionsOf(role[actor]))
    /\ op = "transfer" => role[actor] = "OWNER"

Start(r, op, actor, target, newRole) ==
    /\ req[r] = Idle
    /\ GuardAdmits(op, actor)
    /\ req' = [req EXCEPT ![r] = [ pc |-> "reads", op |-> op, actor |-> actor,
                                   target |-> target, newRole |-> newRole,
                                   actorRole |-> Unread, targetRole |-> Unread ]]
    /\ UNCHANGED <<role, deleted, auditOwner, auditLeft, lostEvent>>

StartChangeRole(r) ==
    \E actor, target \in Users, newRole \in OfferedRoles \cap AssignableRoles :
        Start(r, "changeRole", actor, target, newRole)

StartRemove(r) ==
    \E actor, target \in Users : Start(r, "remove", actor, target, NoRole)

StartTransfer(r) ==
    \E actor, target \in Users : Start(r, "transfer", actor, target, NoRole)

StartLeave(r) ==
    \E actor \in Users : Start(r, "leave", actor, NoRole, NoRole)

-----------------------------------------------------------------------------
\* findMembership and findMemberById skip the rows marked deleted.
Snapshot(u) == IF Active(u) THEN role[u] ELSE NoRole

\* The two queries run in parallel, so either may be first.
ReadActor(r) ==
    /\ req[r].pc = "reads"
    /\ req[r].actorRole = Unread
    /\ req' = [req EXCEPT ![r].actorRole = Snapshot(req[r].actor)]
    /\ UNCHANGED <<role, deleted, auditOwner, auditLeft, lostEvent>>

ReadTarget(r) ==
    /\ req[r].pc = "reads"
    /\ req[r].op # "leave"
    /\ req[r].targetRole = Unread
    /\ req' = [req EXCEPT ![r].targetRole = Snapshot(req[r].target)]
    /\ UNCHANGED <<role, deleted, auditOwner, auditLeft, lostEvent>>

\* 403 or 404
Refuse(r) ==
    /\ req[r].pc = "reads"
    /\ ReadsDone(req[r])
    /\ ~Allowed(req[r])
    /\ req' = [req EXCEPT ![r] = Idle]
    /\ UNCHANGED <<role, deleted, auditOwner, auditLeft, lostEvent>>

\* Last-owner protection: 409 unless another owner is counted.
OthersOwnAny == Cardinality(Owners) > 0
OthersOwn == Cardinality(Owners) > 1

CountOwners(r) ==
    /\ req[r].pc = "reads"
    /\ ReadsDone(req[r])
    /\ Allowed(req[r])
    /\ TakesOwner(req[r])
    /\ req' = [req EXCEPT ![r] = IF OthersOwn THEN [@ EXCEPT !.pc = "counted"]
                                 ELSE Idle]
    /\ UNCHANGED <<role, deleted, auditOwner, auditLeft, lostEvent>>

-----------------------------------------------------------------------------
(* The writes go by row id alone: no column of the row is looked at again. *)

\* transferOwnershipTx: two updates in one transaction
AfterTransferNoDemotion(from, to) == [role EXCEPT ![to] = "OWNER"]
AfterTransfer(from, to) == [role EXCEPT ![from] = "MEMBER", ![to] = "OWNER"]

\* Past its write, a handler only needs what it puts in the event.
Written(q) == [q EXCEPT !.pc = "publish", !.actorRole = Unread, !.targetRole = Unread]

Write(r) ==
    LET q == req[r] IN
    /\ ReadyToWrite(q)
    /\ \/ /\ q.op = "changeRole"
          /\ role' = [role EXCEPT ![q.target] = q.newRole]
          /\ UNCHANGED deleted
       \/ /\ q.op \in {"remove", "leave"}
          /\ deleted' = deleted \cup {Departing(q)}
          /\ UNCHANGED role
       \/ /\ q.op = "transfer"
          /\ role' = AfterTransfer(q.actor, q.target)
          /\ UNCHANGED deleted
    /\ req' = [req EXCEPT ![r] = Written(q)]
    /\ UNCHANGED <<auditOwner, auditLeft, lostEvent>>

\* The event bus calls the audit listener in the same tick, and nobody awaits
\* the insert the listener goes on to do.  The call changes nothing to be seen;
\* Publish is the insert landing, at any time later than the commit, whatever
\* else commits or lands before it.  The handler counts as busy until then: what
\* a specification keeps apart, it keeps apart from the insert too.  The audit
\* row is what the listener derives from the event.
AuditOwnerSwapped(q) == IF q.op = "transfer" THEN q.actor ELSE auditOwner
AuditOwnerAfter(q) == IF q.op = "transfer" THEN q.target ELSE auditOwner

AuditLeftRemovedOnly(q) == IF q.op = "remove" THEN auditLeft \cup {q.target} ELSE auditLeft
AuditLeftAfter(q) ==
    IF q.op \in {"remove", "leave"} THEN auditLeft \cup {Departing(q)} ELSE auditLeft

Publish(r) ==
    /\ req[r].pc = "publish"
    /\ auditOwner' = AuditOwnerAfter(req[r])
    /\ auditLeft' = AuditLeftAfter(req[r])
    /\ req' = [req EXCEPT ![r] = Idle]
    /\ UNCHANGED <<role, deleted, lostEvent>>

\* A rejected database call, a crash, or an audit insert whose error the
\* listener logs and drops.  After the commit, only the event is lost.
Fail(r) ==
    /\ Faults
    /\ req[r].pc # "idle"
    /\ lostEvent' = (lostEvent \/ req[r].pc = "publish")
    /\ req' = [req EXCEPT ![r] = Idle]
    /\ UNCHANGED <<role, deleted, auditOwner, auditLeft>>

\* acceptInvitationTx creates the row; an invitation never offers OWNER, and
\* the unique index refuses a second row, a deleted one included.
Join(u) ==
    /\ role[u] = NoRole
    /\ \E newRole \in OfferedRoles \ {"OWNER"} : role' = [role EXCEPT ![u] = newRole]
    /\ UNCHANGED <<deleted, req, auditOwner, auditLeft, lostEvent>>

Step(r) ==
    \/ StartChangeRole(r) \/ StartRemove(r) \/ StartTransfer(r) \/ StartLeave(r)
    \/ ReadActor(r) \/ ReadTarget(r) \/ Refuse(r) \/ CountOwners(r)
    \/ Write(r) \/ Publish(r) \/ Fail(r)

Next ==
    \/ \E r \in Requests : Step(r)
    \/ \E u \in Users : Join(u)

Spec == Init /\ [][Next]_vars

\* Clients that do not overlap a transfer with any other request.
TransferAlone == \A r, s \in Requests : InTransfer(r) /\ req[s].pc # "idle" => r = s

SpecAlone == Init /\ [][Next /\ TransferAlone']_vars

-----------------------------------------------------------------------------
(* Properties                                                              *)

\* The type of the rows and handlers: no request names OWNER as the new role,
\* and no row is marked deleted that was never created.
Request ==
    [ pc : {"reads", "counted", "publish"},
      op : {"changeRole", "remove", "transfer", "leave"},
      actor : Users, target : Users \cup {NoRole},
      newRole : (Roles \ {"OWNER"}) \cup {NoRole},
      actorRole : Roles \cup {NoRole, Unread},
      targetRole : Roles \cup {NoRole, Unread} ]

TypeOK ==
    /\ role \in [Users -> Roles \cup {NoRole}]
    /\ deleted \subseteq {u \in Users : role[u] # NoRole}
    /\ req \in [Requests -> Request \cup {Idle}]
    /\ auditOwner \in Users
    /\ auditLeft \subseteq Users
    /\ lostEvent \in BOOLEAN

\* The invariant behind the three "Business Invariant" comments of
\* member-management.service.ts, in the strong form a new organization starts
\* with: exactly one active owner.
OneOwner == \E o \in Users : Owners = {o}

\* The three comments read literally: an organization is never left ownerless.
SomeOwner == Owners # {}

\* One step never adds an owner on balance: transfers move the role.
OwnersNeverMultiply == [][Cardinality(Owners') <= Cardinality(Owners)]_vars

\* A removal or a change of role hits an owner or an admin only on the order of
\* somebody who is an owner at that moment (CHANGELOG: role hierarchy).
HierarchyRespected ==
    [][ \A r \in Requests :
          ( /\ req[r].pc # "publish"
            /\ req'[r].pc = "publish"
            /\ req[r].op \in Manage
            /\ role[req[r].target] \in {"OWNER", "ADMIN"} )
          => role[req[r].actor] = "OWNER" ]_vars

\* An active owner stops being one only in the write of a transfer the owner
\* asked for: never by another member's request, and never by leaving.
OwnersYieldOnlyThemselves ==
    [][ \A u \in Owners \ Owners' :
          \E r \in Requests : /\ InTransfer(r)
                              /\ req[r].actor = u
                              /\ req[r].pc # "publish"
                              /\ req'[r].pc = "publish" ]_vars

\* Unless an event was lost, the last OwnershipTransferredEvent names the
\* owner, but for the instant between a transfer's commit and its event.
AuditNamesOwner ==
    \/ lostEvent
    \/ \E r \in Requests : InTransfer(r) /\ req[r].pc = "publish"
    \/ Owners = {auditOwner}

\* Every departure in the audit log happened, and unless an event was lost,
\* every departure is in the log or about to be.
AuditTellsDepartures ==
    LET pending == {Departing(req[r]) :
                      r \in {s \in Requests : /\ req[s].pc = "publish"
                                              /\ req[s].op \in {"remove", "leave"}}}
    IN  /\ auditLeft \cup pending \subseteq deleted
        /\ lostEvent \/ deleted \subseteq auditLeft \cup pending

\* The abstract promise, with the owner read off the rows.
Abstract == INSTANCE Ownership WITH
    members <- {u \in Users : Active(u)},
    former <- deleted,
    owners <- Owners

ImplementsOwnership == Abstract!Spec
=============================================================================
