-------------------------- MODULE InvitationsProofs --------------------------
(***************************************************************************)
(* Theorems about Invitations, for every set of addresses, users and       *)
(* handlers, and every way in which addresses share mailboxes.             *)
(***************************************************************************)
EXTENDS Invitations, TLAPS

USE DEF NoRow, NoRole, Roles

(* What a handler's local state q says of the rows, whatever overlaps: the *)
(* invitation it found exists, and the user who accepts may read its mail. *)
HandlerOK(q, st) ==
    /\ q.pc \in {"renew", "member", "mark", "join", "revoke"} => st[q.address] # NoRow
    /\ q.pc \in {"member", "mark", "join"} => MayRead(q.user, q.address)

Handlers == \A r \in Requests : HandlerOK(req[r], status)

\* TypeOK is not inductive alone: that a revoked row has a role is known from
\* the handler that found it.
Typed == TypeOK /\ Handlers

(* The shape of a local state, by its program counter. *)
LEMMA LocalShape ==
    ASSUME NEW q \in Local
    PROVE  /\ q.pc \in {"idle", "find", "renew", "create", "member", "mark", "join",
                        "joined", "revoke", "revoked"}
           /\ q.pc \in {"find", "renew", "create", "member", "mark", "join", "revoke",
                        "revoked"} => q.address \in Addresses
           /\ q.pc \in {"find", "renew", "create", "member", "mark", "join"}
                => q.role \in Roles \ {"OWNER"}
           /\ q.pc \in {"member", "mark", "join", "joined"} => q.user \in Users
           /\ q.pc \in {"find", "renew", "create"}
                => q = [pc |-> q.pc, address |-> q.address, role |-> q.role]
           /\ q.pc \in {"member", "mark", "join"}
                => q = [pc |-> q.pc, address |-> q.address, role |-> q.role, user |-> q.user]
  BY DEF Local

LEMMA HandlerType ==
    ASSUME Typed, NEW r \in Requests
    PROVE  req[r] \in Local /\ HandlerOK(req[r], status)
  BY DEF Typed, TypeOK, Handlers

LEMMA IdleIsLocal == Idle \in Local /\ \A st : HandlerOK(Idle, st)
  BY DEF Idle, Local, HandlerOK

LEMMA TypedInit == Init => Typed
  <1> SUFFICES ASSUME Init PROVE Typed
    OBVIOUS
  <1>1. req \in [Requests -> Local] /\ Handlers
    BY IdleIsLocal DEF Init, Handlers
  <1>2. TypeOK
    BY <1>1 DEF Init, TypeOK
  <1> QED
    BY <1>1, <1>2 DEF Typed

(* One handler gets a new local state; no row ceases to exist. *)
LEMMA OthersKeep ==
    ASSUME Typed, NEW r \in Requests, NEW q \in Local,
           req' = [req EXCEPT ![r] = q],
           \A a \in Addresses : status[a] # NoRow => status'[a] # NoRow,
           HandlerOK(q, status')
    PROVE  req' \in [Requests -> Local] /\ Handlers'
  <1>1. req' \in [Requests -> Local]
    BY DEF Typed, TypeOK
  <1>2. ASSUME NEW p \in Requests PROVE HandlerOK(req'[p], status')
    <2>1. CASE p = r
      BY <2>1 DEF Typed, TypeOK
    <2>2. CASE p # r
      <3>1. req'[p] = req[p] /\ req[p] \in Local /\ HandlerOK(req[p], status)
        BY <2>2, HandlerType DEF Typed, TypeOK
      <3>2. req[p].pc \in {"renew", "member", "mark", "join", "revoke"}
              => req[p].address \in Addresses
        BY <3>1, LocalShape
      <3> QED
        BY <3>1, <3>2 DEF HandlerOK
    <2> QED
      BY <2>1, <2>2
  <1> QED
    BY <1>1, <1>2 DEF Handlers

(* A step that changes handlers only. *)
LEMMA OneHandler ==
    ASSUME Typed, NEW r \in Requests, NEW q \in Local,
           req' = [req EXCEPT ![r] = q],
           UNCHANGED <<invitations, memberRows, audit>>,
           HandlerOK(q, status)
    PROVE  Typed'
  <1>1. UNCHANGED <<status, hidden, lapsed, offered, offers, role, departed,
                    auditJoined, auditRevoked, lostEvent>>
    BY DEF invitations, memberRows, audit
  <1>2. req' \in [Requests -> Local] /\ Handlers'
    BY <1>1, OthersKeep
  <1> QED
    BY <1>1, <1>2 DEF Typed, TypeOK

(* A step that changes rows or audit rows, and after which TypeOK is left  *)
(* to be shown for those alone.                                            *)
LEMMA OneWrite ==
    ASSUME Typed, NEW r \in Requests, NEW q \in Local,
           req' = [req EXCEPT ![r] = q],
           \A a \in Addresses : status[a] # NoRow => status'[a] # NoRow,
           HandlerOK(q, status'),
           req' \in [Requests -> Local] => TypeOK'
    PROVE  Typed'
  BY OthersKeep DEF Typed

LEMMA InviteTyped ==
    ASSUME Typed, NEW r \in Requests,
           StartInvite(r) \/ FindPending(r) \/ Renew(r) \/ Create(r)
    PROVE  Typed'
  <1>1. CASE StartInvite(r)
    <2>1. PICK a \in Addresses, newRole \in Roles \ {"OWNER"} :
            Goto(r, [pc |-> "find", address |-> a, role |-> newRole])
      BY <1>1 DEF StartInvite, InvitableRoles
    <2> DEFINE q == [pc |-> "find", address |-> a, role |-> newRole]
    <2>2. q \in Local /\ HandlerOK(q, status)
      BY DEF Local, HandlerOK
    <2> QED
      BY <1>1, <2>1, <2>2, OneHandler DEF StartInvite, Goto
  <1>2. CASE FindPending(r)
    <2> DEFINE a == req[r].address
               q == [req[r] EXCEPT !.pc = IF Pending(a) THEN "renew" ELSE "create"]
    <2>1. /\ req[r] = [pc |-> "find", address |-> a, role |-> req[r].role]
          /\ a \in Addresses /\ req[r].role \in Roles \ {"OWNER"}
      BY <1>2, HandlerType, LocalShape DEF FindPending
    <2>2. q = [pc |-> IF Pending(a) THEN "renew" ELSE "create",
               address |-> a, role |-> req[r].role]
      BY <2>1
    <2>3. q \in Local /\ HandlerOK(q, status)
      BY <2>1, <2>2 DEF Local, HandlerOK, Pending
    <2>4. req' = [req EXCEPT ![r] = q] /\ UNCHANGED <<invitations, memberRows, audit>>
      BY <1>2 DEF FindPending, Goto
    <2> HIDE DEF q
    <2> QED
      BY <2>3, <2>4, OneHandler
  <1>3. CASE Renew(r)
    <2>1. req[r].address \in Addresses /\ req[r].role \in Roles \ {"OWNER"}
      BY <1>3, HandlerType, LocalShape DEF Renew
    <2>2. req' \in [Requests -> Local] => TypeOK'
      BY <1>3, <2>1 DEF Renew, Typed, TypeOK, memberRows, audit
    <2> QED
      BY <1>3, <2>2, IdleIsLocal, OneWrite DEF Renew, Goto
  <1>4. CASE Create(r)
    <2>1. req[r].address \in Addresses /\ req[r].role \in Roles \ {"OWNER"}
      BY <1>4, HandlerType, LocalShape DEF Create
    <2>2. req' \in [Requests -> Local] => TypeOK'
      BY <1>4, <2>1 DEF Create, Typed, TypeOK, Statuses, memberRows, audit
    <2>3. \A a \in Addresses : status[a] # NoRow => status'[a] # NoRow
      BY <1>4, <2>1 DEF Create, Typed, TypeOK
    <2> QED
      BY <1>4, <2>2, <2>3, IdleIsLocal, OneWrite DEF Create, Goto
  <1> QED
    BY <1>1, <1>2, <1>3, <1>4

LEMMA AcceptTyped ==
    ASSUME Typed, NEW r \in Requests,
           StartAccept(r) \/ FindMember(r) \/ Mark(r) \/ AcceptTx(r) \/ PublishJoin(r)
    PROVE  Typed'
  <1>1. CASE StartAccept(r)
    <2>1. PICK a \in Addresses, u \in Users :
            /\ Acceptable(u, a)
            /\ Goto(r, [pc |-> "member", address |-> a, role |-> offered[a], user |-> u])
      BY <1>1 DEF StartAccept
    <2> DEFINE q == [pc |-> "member", address |-> a, role |-> offered[a], user |-> u]
    <2>2. status[a] # NoRow /\ MayRead(u, a) /\ offered[a] \in Roles \ {"OWNER"}
      BY <2>1 DEF Acceptable, Pending, Typed, TypeOK
    <2>3. q \in Local /\ HandlerOK(q, status)
      BY <2>2 DEF Local, HandlerOK
    <2> QED
      BY <1>1, <2>1, <2>3, OneHandler DEF StartAccept, Goto
  <1>2. CASE FindMember(r)
    <2> DEFINE next == IF Active(req[r].user) THEN "mark" ELSE "join"
               q == [req[r] EXCEPT !.pc = next]
    <2>1. /\ req[r] = [pc |-> "member", address |-> req[r].address, role |-> req[r].role,
                       user |-> req[r].user]
          /\ req[r].address \in Addresses /\ req[r].role \in Roles \ {"OWNER"}
          /\ req[r].user \in Users
          /\ status[req[r].address] # NoRow /\ MayRead(req[r].user, req[r].address)
      BY <1>2, HandlerType, LocalShape DEF FindMember, HandlerOK
    <2>2. q = [pc |-> next, address |-> req[r].address, role |-> req[r].role,
               user |-> req[r].user]
      BY <2>1
    <2>3. q \in Local /\ HandlerOK(q, status)
      BY <2>1, <2>2 DEF Local, HandlerOK
    <2>4. req' = [req EXCEPT ![r] = q] /\ UNCHANGED <<invitations, memberRows, audit>>
      BY <1>2 DEF FindMember, Goto
    <2> HIDE DEF q
    <2> QED
      BY <2>3, <2>4, OneHandler
  <1>3. CASE Mark(r)
    <2>1. req[r].address \in Addresses /\ status[req[r].address] # NoRow
      BY <1>3, HandlerType, LocalShape DEF Mark, HandlerOK
    <2>2. req' \in [Requests -> Local] => TypeOK'
      BY <1>3, <2>1 DEF Mark, Typed, TypeOK, Statuses, memberRows, audit
    <2>3. \A a \in Addresses : status[a] # NoRow => status'[a] # NoRow
      BY <1>3, <2>1 DEF Mark, Typed, TypeOK
    <2> QED
      BY <1>3, <2>2, <2>3, IdleIsLocal, OneWrite DEF Mark, Goto
  <1>4. CASE AcceptTx(r)
    <2>1. /\ req[r].address \in Addresses /\ status[req[r].address] # NoRow
          /\ req[r].user \in Users /\ req[r].role \in Roles \ {"OWNER"}
      BY <1>4, HandlerType, LocalShape DEF AcceptTx, HandlerOK
    <2>2. req' \in [Requests -> Local] => TypeOK'
      BY <1>4, <2>1 DEF AcceptTx, JoinRole, Typed, TypeOK, Statuses, audit
    <2>3. \A a \in Addresses : status[a] # NoRow => status'[a] # NoRow
      BY <1>4, <2>1 DEF AcceptTx, Typed, TypeOK
    <2>4. [pc |-> "joined", user |-> req[r].user] \in Local
      BY <2>1 DEF Local
    <2>5. HandlerOK([pc |-> "joined", user |-> req[r].user], status')
      BY DEF HandlerOK
    <2>6. \/ req' = [req EXCEPT ![r] = [pc |-> "joined", user |-> req[r].user]]
          \/ req' = [req EXCEPT ![r] = Idle]
      BY <1>4 DEF AcceptTx, Goto
    <2> QED
      BY <2>2, <2>3, <2>4, <2>5, <2>6, IdleIsLocal, OneWrite
  <1>5. CASE PublishJoin(r)
    <2>1. req[r].user \in Users
      BY <1>5, HandlerType, LocalShape DEF PublishJoin
    <2>2. req' \in [Requests -> Local] => TypeOK'
      BY <1>5, <2>1 DEF PublishJoin, Typed, TypeOK, invitations, memberRows
    <2> QED
      BY <1>5, <2>2, IdleIsLocal, OneWrite DEF PublishJoin, Goto, invitations
  <1> QED
    BY <1>1, <1>2, <1>3, <1>4, <1>5

LEMMA RevokeTyped ==
    ASSUME Typed, NEW r \in Requests,
           StartRevoke(r) \/ Revoke(r) \/ PublishRevoke(r)
    PROVE  Typed'
  <1>1. CASE StartRevoke(r)
    <2>1. PICK a \in Addresses : Revocable(a) /\ Goto(r, [pc |-> "revoke", address |-> a])
      BY <1>1 DEF StartRevoke
    <2> DEFINE q == [pc |-> "revoke", address |-> a]
    <2>2. q \in Local /\ HandlerOK(q, status)
      BY <2>1 DEF Local, HandlerOK, Revocable, Pending
    <2> QED
      BY <1>1, <2>1, <2>2, OneHandler DEF StartRevoke, Goto
  <1>2. CASE Revoke(r)
    <2> DEFINE a == req[r].address
               q == [pc |-> "revoked", address |-> a]
    <2>1. a \in Addresses /\ status[a] # NoRow
      BY <1>2, HandlerType, LocalShape DEF Revoke, HandlerOK
    <2>2. req' \in [Requests -> Local] => TypeOK'
      BY <1>2, <2>1 DEF Revoke, Typed, TypeOK, Statuses, memberRows, audit
    <2>3. \A b \in Addresses : status[b] # NoRow => status'[b] # NoRow
      BY <1>2, <2>1 DEF Revoke, Typed, TypeOK
    <2>4. q \in Local /\ HandlerOK(q, status')
      BY <2>1 DEF Local, HandlerOK
    <2>5. req' = [req EXCEPT ![r] = q]
      BY <1>2 DEF Revoke, Goto
    <2> HIDE DEF q
    <2> QED
      BY <2>2, <2>3, <2>4, <2>5, OneWrite
  <1>3. CASE PublishRevoke(r)
    <2>1. req[r].address \in Addresses
      BY <1>3, HandlerType, LocalShape DEF PublishRevoke
    <2>2. req' \in [Requests -> Local] => TypeOK'
      BY <1>3, <2>1 DEF PublishRevoke, AuditAfterRevoke, Typed, TypeOK, invitations, memberRows
    <2> QED
      BY <1>3, <2>2, IdleIsLocal, OneWrite DEF PublishRevoke, Goto, invitations
  <1> QED
    BY <1>1, <1>2, <1>3

LEMMA TypedNext == Typed /\ [Next]_vars => Typed'
  <1> SUFFICES ASSUME Typed, [Next]_vars PROVE Typed'
    OBVIOUS
  <1>1. ASSUME NEW r \in Requests, Fail(r) PROVE Typed'
    <2>1. req' \in [Requests -> Local] => TypeOK'
      BY <1>1 DEF Fail, Typed, TypeOK, invitations, memberRows
    <2> QED
      BY <1>1, <2>1, IdleIsLocal, OneWrite DEF Fail, Goto, invitations
  <1>2. CASE Expire
    BY <1>2 DEF Expire, Typed, TypeOK, Handlers, memberRows, audit
  <1>3. CASE Depart
    BY <1>3 DEF Depart, Active, Typed, TypeOK, Handlers, invitations, audit
  <1>4. CASE UNCHANGED vars
    BY <1>4 DEF vars, invitations, memberRows, audit, Typed, TypeOK, Handlers
  <1> QED
    BY <1>1, <1>2, <1>3, <1>4, InviteTyped, AcceptTyped, RevokeTyped DEF Next, Step

LEMMA TypedAlways == Spec => []Typed
  BY TypedInit, TypedNext, PTL DEF Spec

(* Invitations, member rows, handlers and audit rows keep their types:     *)
(* nobody is invited, or joins, as OWNER.                                  *)
THEOREM TypeCorrect == Spec => []TypeOK
  <1>1. Typed => TypeOK
    BY DEF Typed
  <1> QED
    BY <1>1, TypedAlways, PTL

-----------------------------------------------------------------------------
(* Who joins was invited.                                                  *)

Closed(a) == status[a] \in {"ACCEPTED", "REVOKED"}

(* No step opens an invitation that has been accepted or revoked.          *)
LEMMA ClosedForGood ==
    ASSUME Typed, [Next]_vars, NEW a \in Addresses, Closed(a)
    PROVE  Closed(a)'
  <1>1. ASSUME NEW r \in Requests, Create(r) PROVE Closed(a)'
    BY <1>1 DEF Create, Closed, Typed, TypeOK
  <1>2. ASSUME NEW r \in Requests, Mark(r) \/ AcceptTx(r) \/ Revoke(r) PROVE Closed(a)'
    BY <1>2 DEF Mark, AcceptTx, Revoke, Closed, Typed, TypeOK
  <1>3. ASSUME UNCHANGED status PROVE Closed(a)'
    BY <1>3 DEF Closed
  <1> QED
    BY <1>1, <1>2, <1>3
    DEF Next, Step, StartInvite, FindPending, Renew, StartAccept, FindMember, PublishJoin,
        StartRevoke, PublishRevoke, Fail, Expire, Depart, invitations, vars

(* A member row is created by AcceptTx alone, which closes the invitation. *)
LEMMA RolesGrowByAcceptance ==
    ASSUME Typed, [Next]_vars, NEW u \in Users, role'[u] # role[u]
    PROVE  \E r \in Requests :
             /\ AcceptTx(r)
             /\ req[r].user = u
             /\ role[u] = NoRole
             /\ status' = [status EXCEPT ![req[r].address] = "ACCEPTED"]
             /\ MayRead(u, req[r].address)
             /\ req[r].address \in Addresses
  <1>1. PICK r \in Requests : AcceptTx(r)
    BY DEF Next, Step, StartInvite, FindPending, Renew, Create, StartAccept, FindMember, Mark,
           PublishJoin, StartRevoke, Revoke, PublishRevoke, Fail, Expire, Depart, invitations,
           memberRows, vars
  <1>2. /\ req[r].user = u
        /\ role[u] = NoRole
        /\ status' = [status EXCEPT ![req[r].address] = "ACCEPTED"]
    BY <1>1 DEF AcceptTx, RowIsFree, Typed, TypeOK
  <1>3. MayRead(u, req[r].address) /\ req[r].address \in Addresses
    BY <1>1, <1>2, HandlerType, LocalShape DEF AcceptTx, HandlerOK
  <1> QED
    BY <1>1, <1>2, <1>3

LEMMA InvitedNext == Typed /\ MembersWereInvited /\ [Next]_vars => MembersWereInvited'
  <1> SUFFICES ASSUME Typed, MembersWereInvited, [Next]_vars,
                      NEW u \in Users, role'[u] # NoRole
               PROVE  \E a \in Addresses : MayRead(u, a) /\ Closed(a)'
    BY DEF MembersWereInvited, Closed, MayRead
  <1>1. CASE role'[u] = role[u]
    <2>1. PICK a \in Addresses : MayRead(u, a) /\ Closed(a)
      BY <1>1 DEF MembersWereInvited, Closed
    <2> QED
      BY <2>1, ClosedForGood
  <1>2. CASE role'[u] # role[u]
    <2>1. PICK a \in Addresses : status' = [status EXCEPT ![a] = "ACCEPTED"] /\ MayRead(u, a)
      BY <1>2, RolesGrowByAcceptance
    <2>2. Closed(a)'
      BY <2>1 DEF Closed, Typed, TypeOK
    <2> QED
      BY <2>1, <2>2
  <1> QED
    BY <1>1, <1>2

(* Whatever requests overlap, and whatever fails, every user with a member *)
(* row accepted an invitation to an address of their own mailbox, and that *)
(* invitation stays closed.                                                *)
THEOREM OnlyInvitedJoin == Spec => []MembersWereInvited
  <1>1. Init => MembersWereInvited
    BY DEF Init, MembersWereInvited
  <1> QED
    BY <1>1, InvitedNext, TypedAlways, PTL DEF Spec

-----------------------------------------------------------------------------
(* The audit log.                                                          *)

LEMMA OneEventToPublish ==
    ASSUME Typed, NEW r \in Requests, NEW q,
           req' = [req EXCEPT ![r] = q]
    PROVE  /\ \A u : u \in Joining' => u \in Joining \/ (q.pc = "joined" /\ u = q.user)
           /\ \A u : u \in Joining => u \in Joining' \/ (req[r].pc = "joined" /\ u = req[r].user)
           /\ \A a : a \in Revoking' => a \in Revoking \/ (q.pc = "revoked" /\ a = q.address)
           /\ \A a : a \in Revoking => a \in Revoking' \/ (req[r].pc = "revoked" /\ a = req[r].address)
           /\ q.pc = "joined" => q.user \in Joining'
           /\ q.pc = "revoked" => q.address \in Revoking'
           /\ req[r].pc = "joined" => req[r].user \in Joining
           /\ req[r].pc = "revoked" => req[r].address \in Revoking
  <1>1. \A p \in Requests : req'[p] = IF p = r THEN q ELSE req[p]
    BY DEF Typed, TypeOK
  <1> QED
    BY <1>1 DEF Joining, Revoking

(* A handler with nothing to publish goes on; rows and audit rows stay.    *)
LEMMA QuietStep ==
    ASSUME Typed, AuditMatchesRows, NEW r \in Requests, NEW q,
           req' = [req EXCEPT ![r] = q],
           q.pc \notin {"joined", "revoked"},
           req[r].pc \notin {"joined", "revoked"},
           UNCHANGED <<role, hidden, auditJoined, auditRevoked, lostEvent>>
    PROVE  AuditMatchesRows'
  <1>1. Joining' = Joining /\ Revoking' = Revoking
    BY OneEventToPublish
  <1>2. Joined' = Joined
    BY DEF Joined
  <1> QED
    BY <1>1, <1>2 DEF AuditMatchesRows

LEMMA AuditNext == Typed /\ AuditMatchesRows /\ [Next]_vars => AuditMatchesRows'
  <1> SUFFICES ASSUME Typed, AuditMatchesRows, [Next]_vars PROVE AuditMatchesRows'
    OBVIOUS
  <1> DEFINE Reads(r) == StartInvite(r) \/ StartAccept(r) \/ StartRevoke(r)
             Goes(r) == FindPending(r) \/ Renew(r) \/ Create(r) \/ FindMember(r) \/ Mark(r)
  <1>1. ASSUME NEW r \in Requests, Reads(r) PROVE AuditMatchesRows'
    <2>1. PICK q : Goto(r, q) /\ q.pc \in {"find", "member", "revoke"}
      <3>1. CASE StartInvite(r)
        <4>1. PICK a \in Addresses, newRole \in Roles :
                Goto(r, [pc |-> "find", address |-> a, role |-> newRole])
          BY <3>1 DEF StartInvite, InvitableRoles
        <4> WITNESS [pc |-> "find", address |-> a, role |-> newRole]
        <4> QED
          BY <4>1
      <3>2. CASE StartAccept(r)
        <4>1. PICK a \in Addresses, u \in Users :
                Goto(r, [pc |-> "member", address |-> a, role |-> offered[a], user |-> u])
          BY <3>2 DEF StartAccept
        <4> WITNESS [pc |-> "member", address |-> a, role |-> offered[a], user |-> u]
        <4> QED
          BY <4>1
      <3>3. CASE StartRevoke(r)
        <4>1. PICK a \in Addresses : Goto(r, [pc |-> "revoke", address |-> a])
          BY <3>3 DEF StartRevoke
        <4> WITNESS [pc |-> "revoke", address |-> a]
        <4> QED
          BY <4>1
      <3> QED
        BY <1>1, <3>1, <3>2, <3>3
    <2>2. req[r].pc = "idle"
      BY <1>1 DEF StartInvite, StartAccept, StartRevoke, Idle
    <2> QED
      BY <1>1, <2>1, <2>2, QuietStep
      DEF StartInvite, StartAccept, StartRevoke, Goto, invitations, memberRows, audit
  <1>2. ASSUME NEW r \in Requests, Goes(r) PROVE AuditMatchesRows'
    <2>1. req[r].pc \in {"find", "renew", "create", "member", "mark"}
      BY <1>2 DEF FindPending, Renew, Create, FindMember, Mark
    <2>2. PICK q : Goto(r, q) /\ q.pc \in {"idle", "renew", "create", "mark", "join"}
      <3>1. CASE Renew(r) \/ Create(r) \/ Mark(r)
        BY <3>1 DEF Renew, Create, Mark, Idle
      <3>2. CASE FindPending(r)
        <4>1. req[r] = [pc |-> "find", address |-> req[r].address, role |-> req[r].role]
          BY <3>2, HandlerType, LocalShape DEF FindPending
        <4> QED
          BY <3>2, <4>1 DEF FindPending
      <3>3. CASE FindMember(r)
        <4>1. req[r] = [pc |-> "member", address |-> req[r].address, role |-> req[r].role,
                        user |-> req[r].user]
          BY <3>3, HandlerType, LocalShape DEF FindMember
        <4> QED
          BY <3>3, <4>1 DEF FindMember
      <3> QED
        BY <1>2, <3>1, <3>2, <3>3
    <2> QED
      BY <1>2, <2>1, <2>2, QuietStep
      DEF FindPending, Renew, Create, FindMember, Mark, Goto, invitations, memberRows, audit
  <1>3. ASSUME NEW r \in Requests, AcceptTx(r) PROVE AuditMatchesRows'
    <2> DEFINE u == req[r].user
               q == [pc |-> "joined", user |-> u]
    <2>1. u \in Users
      BY <1>3, HandlerType, LocalShape DEF AcceptTx
    <2>2. CASE RowIsFree(u)
      <3>1. req' = [req EXCEPT ![r] = q] /\ Joined' = Joined \cup {u}
        BY <1>3, <2>1, <2>2, HandlerType, LocalShape
        DEF AcceptTx, Goto, Joined, JoinRole, RowIsFree, Typed, TypeOK
      <3>2. req[r].pc = "join" /\ q.pc = "joined" /\ q.user = u
        BY <1>3 DEF AcceptTx
      <3>3. Joining' = Joining \cup {u} /\ Revoking' = Revoking
        <4> HIDE DEF q
        <4> QED
          BY <3>1, <3>2, OneEventToPublish
      <3> QED
        BY <1>3, <3>1, <3>3 DEF AcceptTx, AuditMatchesRows, audit
    <2>3. CASE ~RowIsFree(u)
      <3>1. req' = [req EXCEPT ![r] = Idle] /\ req[r].pc = "join" /\ Idle.pc = "idle"
        BY <1>3, <2>3 DEF AcceptTx, Goto, Idle
      <3> QED
        BY <1>3, <2>3, <3>1, QuietStep DEF AcceptTx, audit
    <2> QED
      BY <2>2, <2>3
  <1>4. ASSUME NEW r \in Requests, Revoke(r) PROVE AuditMatchesRows'
    <2> DEFINE a == req[r].address
               q == [pc |-> "revoked", address |-> a]
    <2>1. req' = [req EXCEPT ![r] = q] /\ req[r].pc = "revoke" /\ q.pc = "revoked" /\ q.address = a
      BY <1>4 DEF Revoke, Goto
    <2>2. Joining' = Joining /\ Revoking' = Revoking \cup {a}
      <3> HIDE DEF q, a
      <3>1. /\ \A u : u \in Joining' <=> u \in Joining
            /\ \A b : b \in Revoking' => b \in Revoking \/ b = a
            /\ \A b : b \in Revoking => b \in Revoking'
            /\ a \in Revoking'
        BY <2>1, OneEventToPublish
      <3> QED
        BY <3>1
    <2>3. Joined' = Joined
      BY <1>4 DEF Revoke, Joined, memberRows
    <2> QED
      BY <1>4, <2>2, <2>3 DEF Revoke, AuditMatchesRows, audit
  <1>5. ASSUME NEW r \in Requests, PublishJoin(r) \/ PublishRevoke(r) PROVE AuditMatchesRows'
    <2>1. req' = [req EXCEPT ![r] = Idle] /\ Idle.pc = "idle"
      BY <1>5 DEF PublishJoin, PublishRevoke, Goto, Idle
    <2>2. Joined' = Joined /\ hidden' = hidden /\ lostEvent' = lostEvent
      BY <1>5 DEF PublishJoin, PublishRevoke, Joined, memberRows, invitations
    <2>3. CASE PublishJoin(r)
      <3>1. /\ req[r].pc = "joined"
            /\ auditJoined' = auditJoined \cup {req[r].user} /\ auditRevoked' = auditRevoked
        BY <2>3 DEF PublishJoin
      <3>2. /\ Joining' \subseteq Joining /\ Joining \subseteq Joining' \cup {req[r].user}
            /\ req[r].user \in Joining /\ Revoking' = Revoking
        BY <2>1, <3>1, OneEventToPublish
      <3> QED
        BY <2>2, <3>1, <3>2 DEF AuditMatchesRows
    <2>4. CASE PublishRevoke(r)
      <3>1. /\ req[r].pc = "revoked"
            /\ auditRevoked' = auditRevoked \cup {req[r].address} /\ auditJoined' = auditJoined
        BY <2>4 DEF PublishRevoke, AuditAfterRevoke
      <3>2. /\ Revoking' \subseteq Revoking /\ Revoking \subseteq Revoking' \cup {req[r].address}
            /\ req[r].address \in Revoking /\ Joining' = Joining
        BY <2>1, <3>1, OneEventToPublish
      <3> QED
        BY <2>2, <3>1, <3>2 DEF AuditMatchesRows
    <2> QED
      BY <1>5, <2>3, <2>4
  <1>6. ASSUME NEW r \in Requests, Fail(r) PROVE AuditMatchesRows'
    <2>1. req' = [req EXCEPT ![r] = Idle] /\ Idle.pc = "idle"
      BY <1>6 DEF Fail, Goto, Idle
    <2>2. /\ Joined' = Joined
          /\ UNCHANGED <<role, hidden, auditJoined, auditRevoked>>
      BY <1>6 DEF Fail, Joined, memberRows, invitations
    <2>3. CASE req[r].pc \in {"joined", "revoked"}
      <3>1. lostEvent'
        BY <1>6, <2>3 DEF Fail
      <3>2. Joining' \subseteq Joining /\ Revoking' \subseteq Revoking
        BY <2>1, OneEventToPublish
      <3> QED
        BY <2>2, <3>1, <3>2 DEF AuditMatchesRows
    <2>4. CASE req[r].pc \notin {"joined", "revoked"}
      <3>1. lostEvent' = lostEvent
        BY <1>6, <2>4 DEF Fail, Typed, TypeOK
      <3> QED
        BY <2>1, <2>2, <2>4, <3>1, QuietStep
    <2> QED
      BY <2>3, <2>4
  <1>7. ASSUME Expire \/ Depart \/ UNCHANGED vars PROVE AuditMatchesRows'
    BY <1>7 DEF Expire, Depart, vars, invitations, memberRows, audit, AuditMatchesRows, Joined,
                Joining, Revoking
  <1> QED
    BY <1>1, <1>2, <1>3, <1>4, <1>5, <1>6, <1>7 DEF Next, Step

(* Unless an event was lost, the audit log tells who joined and what was   *)
(* revoked; it never tells more than that, lost events or not.             *)
THEOREM AuditIsTrue == Spec => []AuditMatchesRows
  <1>1. Init => AuditMatchesRows
    BY DEF Init, Idle, AuditMatchesRows, Joined, Joining, Revoking
  <1> QED
    BY <1>1, AuditNext, TypedAlways, PTL DEF Spec

-----------------------------------------------------------------------------
(* Refinement, for requests that do not decide on one invitation at once,  *)
(* but for acceptances by one user.                                        *)

(* What a handler that decides knows of the rows when it writes.  Nobody   *)
(* else revokes the invitation; if it has been accepted since, the user    *)
(* who accepts has a member row.                                           *)
HeldOK(q, st, ro) ==
    /\ q.pc = "revoke" => st[q.address] = "PENDING"
    /\ q.pc \in Accepting =>
         st[q.address] = "PENDING" \/ (st[q.address] = "ACCEPTED" /\ ro[q.user] # NoRole)
    /\ q.pc = "mark" => ro[q.user] # NoRole

ApartInv ==
    /\ Typed
    /\ Apart
    /\ \A r \in Requests : HeldOK(req[r], status, role)
    /\ \A a \in hidden : status[a] = "REVOKED"

LEMMA ApartInit == Init => ApartInv
  <1> SUFFICES ASSUME Init PROVE ApartInv
    OBVIOUS
  <1>1. \A r \in Requests : req[r].pc = "idle"
    BY DEF Init, Idle
  <1> QED
    BY <1>1, TypedInit DEF Init, ApartInv, Apart, Accepting, Deciding, HeldOK

(* A status changes when a row is created, or when the one who decides on  *)
(* a pending row writes.                                                   *)
StatusMoves(r) ==
    \A a \in Addresses : status'[a] # status[a] /\ status[a] # NoRow =>
        /\ status[a] = "PENDING"
        /\ req[r].pc \in Deciding /\ a = req[r].address
        /\ req[r].pc \in Accepting => status'[a] = "ACCEPTED" /\ role'[req[r].user] # NoRole

RolesStay == \A u \in Users : role[u] # NoRole => role'[u] # NoRole

(* The handler of an invitation moves on: what the others know stays true. *)
LEMMA HoldersKeep ==
    ASSUME ApartInv, NEW r \in Requests, NEW q,
           req' = [req EXCEPT ![r] = q],
           HeldOK(q, status', role'),
           StatusMoves(r), RolesStay
    PROVE  \A p \in Requests : HeldOK(req'[p], status', role')
  <1> SUFFICES ASSUME NEW p \in Requests PROVE HeldOK(req'[p], status', role')
    OBVIOUS
  <1>1. CASE p = r
    BY <1>1 DEF ApartInv, Typed, TypeOK
  <1>2. CASE p # r
    <2>1. req'[p] = req[p] /\ HeldOK(req[p], status, role)
      BY <1>2 DEF ApartInv, Typed, TypeOK
    <2>2. ASSUME req[p].pc \in Deciding
          PROVE  /\ req[p].address \in Addresses /\ status[req[p].address] # NoRow
                 /\ req[p].pc \in Accepting => req[p].user \in Users
      BY <2>2, HandlerType, LocalShape DEF ApartInv, HandlerOK, Deciding, Accepting
    <2>3. CASE req[p].pc \notin Deciding
      BY <2>1, <2>3 DEF HeldOK, Deciding, Accepting
    <2>4. CASE req[p].pc \in Deciding /\ status'[req[p].address] = status[req[p].address]
      BY <2>1, <2>2, <2>4 DEF HeldOK, RolesStay, Accepting
    <2>5. CASE req[p].pc \in Deciding /\ status'[req[p].address] # status[req[p].address]
      <3>1. /\ req[r].pc \in Deciding /\ req[p].address = req[r].address
            /\ req[r].pc \in Accepting =>
                 status'[req[p].address] = "ACCEPTED" /\ role'[req[r].user] # NoRole
        BY <2>2, <2>5 DEF StatusMoves
      <3>2. req[p].pc \in Accepting /\ req[r].pc \in Accepting /\ req[p].user = req[r].user
        BY <1>2, <2>5, <3>1 DEF ApartInv, Apart
      <3> QED
        BY <2>1, <3>1, <3>2 DEF HeldOK, Accepting
    <2> QED
      BY <2>3, <2>4, <2>5
  <1> QED
    BY <1>1, <1>2

(* A step that changes neither statuses nor roles. *)
LEMMA HoldersRead ==
    ASSUME ApartInv, NEW r \in Requests, NEW q,
           req' = [req EXCEPT ![r] = q],
           HeldOK(q, status, role),
           status' = status, role' = role
    PROVE  \A p \in Requests : HeldOK(req'[p], status', role')
  BY HoldersKeep DEF StatusMoves, RolesStay

(* What the three writes that decide find and leave. *)
LEMMA MarkMoves ==
    ASSUME ApartInv, NEW r \in Requests, Mark(r)
    PROVE  /\ req[r].address \in Addresses
           /\ status[req[r].address] \in {"PENDING", "ACCEPTED"}
           /\ StatusMoves(r) /\ RolesStay
  <1>1. /\ req[r].address \in Addresses
        /\ status[req[r].address] \in {"PENDING", "ACCEPTED"}
        /\ role[req[r].user] # NoRole
    BY HandlerType, LocalShape DEF Mark, ApartInv, HeldOK, Accepting
  <1> QED
    BY <1>1 DEF Mark, StatusMoves, RolesStay, ApartInv, Typed, TypeOK, Deciding, Accepting,
                memberRows

LEMMA AcceptMoves ==
    ASSUME ApartInv, NEW r \in Requests, AcceptTx(r)
    PROVE  /\ req[r].address \in Addresses /\ req[r].user \in Users
           /\ req[r].role \in Roles \ {"OWNER"}
           /\ MayRead(req[r].user, req[r].address)
           /\ RowIsFree(req[r].user) => status[req[r].address] = "PENDING"
           /\ StatusMoves(r) /\ RolesStay
  <1>1. /\ req[r].address \in Addresses /\ req[r].user \in Users
        /\ req[r].role \in Roles \ {"OWNER"}
        /\ MayRead(req[r].user, req[r].address)
        /\ req[r].pc = "join"
    BY HandlerType, LocalShape DEF AcceptTx, ApartInv, HandlerOK
  <1>2. RowIsFree(req[r].user) => status[req[r].address] = "PENDING"
    BY <1>1 DEF RowIsFree, ApartInv, HeldOK, Accepting
  <1>3. CASE ~RowIsFree(req[r].user)
    BY <1>1, <1>2, <1>3 DEF AcceptTx, StatusMoves, RolesStay
  <1>4. CASE RowIsFree(req[r].user)
    <2>1. /\ status' = [status EXCEPT ![req[r].address] = "ACCEPTED"]
          /\ role' = [role EXCEPT ![req[r].user] = req[r].role]
          /\ status \in [Addresses -> Statuses \cup {NoRow}] /\ role \in [Users -> Roles \cup {NoRole}]
      BY <1>4 DEF AcceptTx, JoinRole, ApartInv, Typed, TypeOK
    <2>2. RolesStay /\ role'[req[r].user] # NoRole
      BY <1>1, <2>1 DEF RolesStay
    <2>3. StatusMoves(r)
      BY <1>1, <1>2, <1>4, <2>1, <2>2 DEF StatusMoves, Deciding, Accepting
    <2> QED
      BY <1>1, <1>2, <2>2, <2>3
  <1> QED
    BY <1>3, <1>4

LEMMA RevokeMoves ==
    ASSUME ApartInv, NEW r \in Requests, Revoke(r)
    PROVE  /\ req[r].address \in Addresses
           /\ status[req[r].address] = "PENDING"
           /\ StatusMoves(r) /\ RolesStay
  <1>1. req[r].address \in Addresses /\ status[req[r].address] = "PENDING"
    BY HandlerType, LocalShape DEF Revoke, ApartInv, HeldOK
  <1> QED
    BY <1>1 DEF Revoke, StatusMoves, RolesStay, ApartInv, Typed, TypeOK, Deciding, Accepting,
                memberRows

(* Revocation alone hides a row, and marks it revoked for good.            *)
LEMMA HiddenStaysRevoked ==
    ASSUME ApartInv, [Next]_vars
    PROVE  \A a \in hidden' : status'[a] = "REVOKED"
  <1>t. Typed /\ \A a \in hidden : status[a] = "REVOKED" /\ a \in Addresses
    BY DEF ApartInv, Typed, TypeOK
  <1>1. ASSUME NEW r \in Requests, Create(r) PROVE \A a \in hidden' : status'[a] = "REVOKED"
    BY <1>1, <1>t DEF Create, Typed, TypeOK
  <1>2. ASSUME NEW r \in Requests, Revoke(r) PROVE \A a \in hidden' : status'[a] = "REVOKED"
    BY <1>2, <1>t, RevokeMoves DEF Revoke, Typed, TypeOK
  <1>3. ASSUME NEW r \in Requests, Mark(r) \/ AcceptTx(r)
        PROVE  \A a \in hidden' : status'[a] = "REVOKED"
    <2>1. StatusMoves(r) /\ hidden' = hidden
      BY <1>3, MarkMoves, AcceptMoves DEF Mark, AcceptTx
    <2> QED
      BY <1>t, <2>1 DEF StatusMoves
  <1>4. ASSUME UNCHANGED <<status, hidden>> PROVE \A a \in hidden' : status'[a] = "REVOKED"
    BY <1>4, <1>t
  <1> QED
    BY <1>1, <1>2, <1>3, <1>4
    DEF Next, Step, StartInvite, FindPending, Renew, StartAccept, FindMember, PublishJoin,
        StartRevoke, PublishRevoke, Fail, Expire, Depart, invitations, vars

(* A local state that decides on nothing, whatever the rows say. *)
LEMMA NothingHeld ==
    ASSUME NEW q, q.pc \notin Deciding, NEW st, NEW ro
    PROVE  HeldOK(q, st, ro)
  BY DEF HeldOK, Deciding, Accepting

LEMMA ApartNext == ApartInv /\ [Next /\ Apart']_vars => ApartInv'
  <1> SUFFICES ASSUME ApartInv, [Next /\ Apart']_vars PROVE ApartInv'
    OBVIOUS
  <1> DEFINE Held == \A p \in Requests : HeldOK(req[p], status, role)
  <1>1. CASE UNCHANGED vars
    BY <1>1, TypedNext
    DEF vars, ApartInv, Apart, HeldOK, invitations, memberRows
  <1>2. CASE Next /\ Apart'
    <2>1. Typed' /\ Apart' /\ \A a \in hidden' : status'[a] = "REVOKED"
      BY <1>2, TypedNext, HiddenStaysRevoked DEF ApartInv
    <2>i. \A st, ro : HeldOK(Idle, st, ro)
      BY DEF Idle, HeldOK, Accepting
    <2>2. ASSUME NEW r \in Requests,
                 Renew(r) \/ PublishJoin(r) \/ PublishRevoke(r) \/ Fail(r)
          PROVE  Held'
      BY <2>i, <2>2, HoldersRead
      DEF Renew, PublishJoin, PublishRevoke, Fail, Goto, invitations, memberRows
    <2>3. ASSUME NEW r \in Requests, StartInvite(r) PROVE Held'
      <3>1. PICK a \in Addresses, newRole \in Roles :
              Goto(r, [pc |-> "find", address |-> a, role |-> newRole])
        BY <2>3 DEF StartInvite, InvitableRoles
      <3> DEFINE q == [pc |-> "find", address |-> a, role |-> newRole]
      <3>2. HeldOK(q, status, role)
        BY DEF HeldOK, Accepting
      <3>3. req' = [req EXCEPT ![r] = q] /\ status' = status /\ role' = role
        BY <2>3, <3>1 DEF StartInvite, Goto, invitations, memberRows
      <3> HIDE DEF q
      <3> QED
        BY <3>2, <3>3, HoldersRead
    <2>4. ASSUME NEW r \in Requests, FindPending(r) PROVE Held'
      <3> DEFINE a == req[r].address
                 q == [req[r] EXCEPT !.pc = IF Pending(a) THEN "renew" ELSE "create"]
      <3>1. req[r] = [pc |-> "find", address |-> a, role |-> req[r].role]
        BY <2>4, HandlerType, LocalShape DEF FindPending, ApartInv
      <3>2. q = [pc |-> IF Pending(a) THEN "renew" ELSE "create", address |-> a,
                 role |-> req[r].role]
        BY <3>1
      <3>3. HeldOK(q, status, role)
        BY <3>2 DEF HeldOK, Accepting
      <3>4. req' = [req EXCEPT ![r] = q] /\ status' = status /\ role' = role
        BY <2>4 DEF FindPending, Goto, invitations, memberRows
      <3> HIDE DEF q
      <3> QED
        BY <3>3, <3>4, HoldersRead
    <2>5. ASSUME NEW r \in Requests, Create(r) PROVE Held'
      <3>1. req' = [req EXCEPT ![r] = Idle] /\ StatusMoves(r) /\ RolesStay
        BY <2>5 DEF Create, Goto, StatusMoves, RolesStay, ApartInv, Typed, TypeOK, memberRows
      <3> QED
        BY <2>i, <3>1, HoldersKeep
    <2>6. ASSUME NEW r \in Requests, Mark(r) PROVE Held'
      <3>1. req' = [req EXCEPT ![r] = Idle]
        BY <2>6 DEF Mark, Goto
      <3> QED
        BY <2>6, <2>i, <3>1, MarkMoves, HoldersKeep
    <2>7. ASSUME NEW r \in Requests, AcceptTx(r) PROVE Held'
      <3> DEFINE q == [pc |-> "joined", user |-> req[r].user]
      <3>1. req' = [req EXCEPT ![r] = q] \/ req' = [req EXCEPT ![r] = Idle]
        BY <2>7 DEF AcceptTx, Goto
      <3>2. HeldOK(q, status', role')
        BY DEF HeldOK, Accepting
      <3>3. StatusMoves(r) /\ RolesStay
        BY <2>7, AcceptMoves
      <3> HIDE DEF q
      <3> QED
        BY <2>i, <3>1, <3>2, <3>3, HoldersKeep
    <2>8. ASSUME NEW r \in Requests, Revoke(r) PROVE Held'
      <3> DEFINE q == [pc |-> "revoked", address |-> req[r].address]
      <3>1. req' = [req EXCEPT ![r] = q] /\ HeldOK(q, status', role')
        BY <2>8 DEF Revoke, Goto, HeldOK, Accepting
      <3>2. StatusMoves(r) /\ RolesStay
        BY <2>8, RevokeMoves
      <3> HIDE DEF q
      <3> QED
        BY <3>1, <3>2, HoldersKeep
    <2>9. ASSUME NEW r \in Requests, StartAccept(r) PROVE Held'
      <3>1. PICK a \in Addresses, u \in Users :
              /\ status[a] = "PENDING"
              /\ Goto(r, [pc |-> "member", address |-> a, role |-> offered[a], user |-> u])
        BY <2>9 DEF StartAccept, Acceptable, Pending
      <3> DEFINE q == [pc |-> "member", address |-> a, role |-> offered[a], user |-> u]
      <3>2. HeldOK(q, status, role)
        BY <3>1 DEF HeldOK
      <3>3. req' = [req EXCEPT ![r] = q] /\ status' = status /\ role' = role
        BY <2>9, <3>1 DEF StartAccept, Goto, invitations, memberRows
      <3> HIDE DEF q
      <3> QED
        BY <3>2, <3>3, HoldersRead
    <2>10. ASSUME NEW r \in Requests, FindMember(r) PROVE Held'
      <3> DEFINE next == IF Active(req[r].user) THEN "mark" ELSE "join"
                 q == [req[r] EXCEPT !.pc = next]
      <3>1. /\ req[r] = [pc |-> "member", address |-> req[r].address, role |-> req[r].role,
                         user |-> req[r].user]
            /\ req[r].pc = "member" /\ HeldOK(req[r], status, role)
        BY <2>10, HandlerType, LocalShape DEF FindMember, ApartInv
      <3>2. q = [pc |-> next, address |-> req[r].address, role |-> req[r].role,
                 user |-> req[r].user]
        BY <3>1
      <3>3. next = "mark" => role[req[r].user] # NoRole
        BY DEF Active
      <3>4. HeldOK(q, status, role)
        BY <3>1, <3>2, <3>3 DEF HeldOK, Accepting
      <3>5. req' = [req EXCEPT ![r] = q] /\ status' = status /\ role' = role
        BY <2>10 DEF FindMember, Goto, invitations, memberRows
      <3> HIDE DEF q
      <3> QED
        BY <3>4, <3>5, HoldersRead
    <2>11. ASSUME NEW r \in Requests, StartRevoke(r) PROVE Held'
      <3>1. PICK a \in Addresses : status[a] = "PENDING" /\ Goto(r, [pc |-> "revoke", address |-> a])
        BY <2>11 DEF StartRevoke, Revocable, Pending
      <3> DEFINE q == [pc |-> "revoke", address |-> a]
      <3>2. HeldOK(q, status, role)
        BY <3>1 DEF HeldOK, Accepting
      <3>3. req' = [req EXCEPT ![r] = q] /\ status' = status /\ role' = role
        BY <2>11, <3>1 DEF StartRevoke, Goto, invitations, memberRows
      <3> HIDE DEF q
      <3> QED
        BY <3>2, <3>3, HoldersRead
    <2>12. ASSUME Expire \/ Depart PROVE Held'
      BY <2>12 DEF Expire, Depart, ApartInv, HeldOK, invitations, memberRows
    <2>13. Held'
      BY <1>2, <2>2, <2>3, <2>4, <2>5, <2>6, <2>7, <2>8, <2>9, <2>10, <2>11, <2>12 DEF Next, Step
    <2> QED
      BY <2>1, <2>13 DEF ApartInv
  <1> QED
    BY <1>1, <1>2

LEMMA AbstractInit == Init => Abstract!Init
  BY DEF Init, Abstract!Init, With, Active

(* One invitation that is pending is closed; the others keep their status. *)
LEMMA OneCloses ==
    ASSUME TypeOK, NEW a \in Addresses, status[a] = "PENDING", NEW s \in {"ACCEPTED", "REVOKED"},
           status' = [status EXCEPT ![a] = s]
    PROVE  /\ a \in With("PENDING")
           /\ With("PENDING")' = With("PENDING") \ {a}
           /\ With("ACCEPTED")' = With("ACCEPTED") \cup (IF s = "ACCEPTED" THEN {a} ELSE {})
           /\ With("REVOKED")' = With("REVOKED") \cup (IF s = "REVOKED" THEN {a} ELSE {})
  BY DEF With, TypeOK

LEMMA AbstractStep ==
    ASSUME ApartInv, [Next]_vars
    PROVE  [Abstract!Next]_(Abstract!vars)
  <1>t. Typed /\ TypeOK
    BY DEF ApartInv, Typed
  <1> DEFINE Members == {u \in Users : Active(u)}
  <1>1. ASSUME UNCHANGED <<status, role, departed>> PROVE UNCHANGED Abstract!vars
    BY <1>1 DEF Abstract!vars, With, Active
  <1>2. ASSUME NEW r \in Requests, Create(r) PROVE [Abstract!Next]_(Abstract!vars)
    <2> DEFINE a == req[r].address
    <2>1. a \in Addresses
      BY <1>2, <1>t, HandlerType, LocalShape DEF Create
    <2>2. Members' = Members /\ departed' = departed
      BY <1>2 DEF Create, memberRows, Active
    <2>3. CASE status[a] = NoRow
      <3>1. /\ a \notin With("ACCEPTED") \cup With("REVOKED")
            /\ With("PENDING")' = With("PENDING") \cup {a}
            /\ With("ACCEPTED")' = With("ACCEPTED") /\ With("REVOKED")' = With("REVOKED")
        BY <1>2, <1>t, <2>1, <2>3 DEF Create, With, TypeOK
      <3>2. Abstract!Invite(a)
        BY <2>2, <3>1 DEF Abstract!Invite
      <3> QED
        BY <2>1, <3>2 DEF Abstract!Next
    <2>4. CASE status[a] # NoRow
      BY <1>1, <1>2, <2>4 DEF Create, memberRows
    <2> QED
      BY <2>3, <2>4
  <1>3. ASSUME NEW r \in Requests, Mark(r) PROVE [Abstract!Next]_(Abstract!vars)
    <2> DEFINE a == req[r].address
    <2>1. /\ a \in Addresses /\ status[a] \in {"PENDING", "ACCEPTED"}
          /\ status' = [status EXCEPT ![a] = "ACCEPTED"]
      BY <1>3, MarkMoves DEF Mark
    <2>2. Members' = Members /\ departed' = departed
      BY <1>3 DEF Mark, memberRows, Active
    <2>3. CASE status[a] = "PENDING"
      <3>1. Abstract!Settle(a)
        BY <1>t, <2>1, <2>2, <2>3, OneCloses DEF Abstract!Settle, Abstract!Close
      <3> QED
        BY <2>1, <3>1 DEF Abstract!Next
    <2>4. CASE status[a] = "ACCEPTED"
      <3>1. status' = status
        BY <1>t, <2>1, <2>4 DEF TypeOK
      <3> QED
        BY <1>1, <1>3, <3>1 DEF Mark, memberRows
    <2> QED
      BY <2>1, <2>3, <2>4
  <1>4. ASSUME NEW r \in Requests, AcceptTx(r) PROVE [Abstract!Next]_(Abstract!vars)
    <2> DEFINE a == req[r].address
               u == req[r].user
    <2>1. /\ a \in Addresses /\ u \in Users /\ MayRead(u, a)
          /\ req[r].role \in Roles
          /\ RowIsFree(u) => status[a] = "PENDING"
      BY <1>4, AcceptMoves
    <2>2. CASE RowIsFree(u)
      <3>1. status' = [status EXCEPT ![a] = "ACCEPTED"] /\ departed' = departed
            /\ role' = [role EXCEPT ![u] = req[r].role]
        BY <1>4, <2>2 DEF AcceptTx, JoinRole
      <3>2. u \notin Members \cup departed /\ Members' = Members \cup {u}
        BY <1>t, <2>1, <2>2, <3>1 DEF RowIsFree, Active, TypeOK
      <3>3. Abstract!Admit(a, u)
        BY <1>t, <2>1, <2>2, <3>1, <3>2, OneCloses DEF Abstract!Admit, Abstract!Close, MayRead
      <3> QED
        BY <2>1, <3>3 DEF Abstract!Next
    <2>3. CASE ~RowIsFree(u)
      BY <1>1, <1>4, <2>3 DEF AcceptTx
    <2> QED
      BY <2>2, <2>3
  <1>5. ASSUME NEW r \in Requests, Revoke(r) PROVE [Abstract!Next]_(Abstract!vars)
    <2> DEFINE a == req[r].address
    <2>1. a \in Addresses /\ status[a] = "PENDING" /\ status' = [status EXCEPT ![a] = "REVOKED"]
      BY <1>5, RevokeMoves DEF Revoke
    <2>2. Members' = Members /\ departed' = departed
      BY <1>5 DEF Revoke, memberRows, Active
    <2>3. /\ a \in With("PENDING") /\ With("PENDING")' = With("PENDING") \ {a}
          /\ With("ACCEPTED")' = With("ACCEPTED")
          /\ With("REVOKED")' = With("REVOKED") \cup {a}
      <3> HIDE DEF a
      <3> QED
        BY <1>t, <2>1, OneCloses
    <2>4. Abstract!Revoke(a)
      BY <2>2, <2>3 DEF Abstract!Revoke, Abstract!Close
    <2> QED
      BY <2>1, <2>4 DEF Abstract!Next
  <1>6. ASSUME Depart PROVE [Abstract!Next]_(Abstract!vars)
    <2>1. PICK u \in Users : Active(u) /\ departed' = departed \cup {u}
      BY <1>6 DEF Depart
    <2>2. /\ u \in Members /\ Members' = Members \ {u}
          /\ \A s : With(s)' = With(s)
      BY <1>6, <2>1 DEF Depart, Active, With, invitations
    <2>3. Abstract!Depart(u)
      BY <2>1, <2>2 DEF Abstract!Depart
    <2> QED
      BY <2>3 DEF Abstract!Next
  <1>7. ASSUME NEW r \in Requests, Step(r),
               ~ (Create(r) \/ Mark(r) \/ AcceptTx(r) \/ Revoke(r))
        PROVE  UNCHANGED <<status, role, departed>>
    BY <1>7
    DEF Step, StartInvite, FindPending, Renew, StartAccept, FindMember, PublishJoin,
        StartRevoke, PublishRevoke, Fail, invitations, memberRows
  <1>8. ASSUME Expire \/ UNCHANGED vars PROVE UNCHANGED <<status, role, departed>>
    BY <1>8 DEF Expire, vars, invitations, memberRows
  <1> QED
    BY <1>1, <1>2, <1>3, <1>4, <1>5, <1>6, <1>7, <1>8 DEF Next

(* As long as no two requests decide on one invitation at once, but for    *)
(* acceptances by one user, and whatever renewals overlap them,            *)
(* invitations implement the abstract promise: an invitation admits at     *)
(* most one user, of the right mailbox; once accepted or revoked it never  *)
(* opens again; who left stays out.                                        *)
THEOREM InvitationsImplementAdmission == SpecApart => ImplementsAdmission
  <1>1. ApartInv /\ [Next /\ Apart']_vars => [Abstract!Next]_(Abstract!vars)
    BY AbstractStep DEF vars
  <1> QED
    BY <1>1, ApartInit, ApartNext, AbstractInit, PTL
    DEF SpecApart, ImplementsAdmission, Abstract!Spec

-----------------------------------------------------------------------------
(* The role that was offered.                                              *)

\* What a row offers was offered, and so was what an acceptance has read,
\* whatever has been written since.
OffersMade ==
    /\ \A a \in Addresses : status[a] # NoRow => <<a, offered[a]>> \in offers
    /\ \A r \in Requests : req[r].pc \in Accepting => <<req[r].address, req[r].role>> \in offers

(* One handler moves on, offers only grow, and a row keeps its offer or    *)
(* gets one that was made.                                                 *)
LEMMA OffersKeep ==
    ASSUME Typed, OffersMade, NEW r \in Requests, NEW q,
           req' = [req EXCEPT ![r] = q],
           q.pc \in Accepting => <<q.address, q.role>> \in offers',
           offers \subseteq offers',
           \A a \in Addresses :
              status'[a] # NoRow =>
                \/ <<a, offered'[a]>> \in offers'
                \/ offered'[a] = offered[a] /\ status[a] # NoRow
    PROVE  OffersMade'
  <1>1. ASSUME NEW a \in Addresses, status'[a] # NoRow PROVE <<a, offered'[a]>> \in offers'
    BY <1>1 DEF OffersMade
  <1>2. ASSUME NEW p \in Requests, req'[p].pc \in Accepting
        PROVE  <<req'[p].address, req'[p].role>> \in offers'
    <2>1. CASE p = r
      BY <1>2, <2>1 DEF Typed, TypeOK
    <2>2. CASE p # r
      BY <1>2, <2>2 DEF Typed, TypeOK, OffersMade
    <2> QED
      BY <2>1, <2>2
  <1> QED
    BY <1>1, <1>2 DEF OffersMade

LEMMA OffersNext == Typed /\ OffersMade /\ [Next]_vars => OffersMade'
  <1> SUFFICES ASSUME Typed, OffersMade, [Next]_vars PROVE OffersMade'
    OBVIOUS
  <1>i. Idle.pc \notin Accepting
    BY DEF Idle, Accepting
  <1>1. ASSUME NEW r \in Requests, NEW q, req' = [req EXCEPT ![r] = q],
               UNCHANGED <<offered, offers>>,
               \A a \in Addresses : status'[a] # NoRow => status[a] # NoRow,
               q.pc \notin Accepting
        PROVE  OffersMade'
    BY <1>1, OffersKeep
  <1>2. ASSUME NEW r \in Requests, StartInvite(r) PROVE OffersMade'
    <2>1. PICK a \in Addresses, newRole \in Roles :
            Goto(r, [pc |-> "find", address |-> a, role |-> newRole])
      BY <1>2 DEF StartInvite, InvitableRoles
    <2>2. [pc |-> "find", address |-> a, role |-> newRole].pc \notin Accepting
      BY DEF Accepting
    <2> QED
      BY <1>1, <1>2, <2>1, <2>2 DEF StartInvite, Goto, invitations
  <1>3. ASSUME NEW r \in Requests, FindPending(r) PROVE OffersMade'
    <2> DEFINE next == IF Pending(req[r].address) THEN "renew" ELSE "create"
    <2>1. req[r] = [pc |-> "find", address |-> req[r].address, role |-> req[r].role]
      BY <1>3, HandlerType, LocalShape DEF FindPending
    <2>2. [req[r] EXCEPT !.pc = next].pc \notin Accepting
      BY <2>1 DEF Accepting
    <2> QED
      BY <1>1, <1>3, <2>2 DEF FindPending, Goto, invitations
  <1>4. ASSUME NEW r \in Requests, Renew(r) PROVE OffersMade'
    <2>1. req' = [req EXCEPT ![r] = Idle] /\ offers \subseteq offers'
      BY <1>4 DEF Renew, Goto
    <2>2. ASSUME NEW a \in Addresses, status'[a] # NoRow
          PROVE  <<a, offered'[a]>> \in offers' \/ (offered'[a] = offered[a] /\ status[a] # NoRow)
      BY <1>4, <2>2 DEF Renew, Typed, TypeOK
    <2> QED
      BY <2>1, <2>2, <1>i, OffersKeep
  <1>5. ASSUME NEW r \in Requests, Create(r) PROVE OffersMade'
    <2>1. req' = [req EXCEPT ![r] = Idle] /\ offers \subseteq offers'
      BY <1>5 DEF Create, Goto
    <2>2. ASSUME NEW a \in Addresses, status'[a] # NoRow
          PROVE  <<a, offered'[a]>> \in offers' \/ (offered'[a] = offered[a] /\ status[a] # NoRow)
      BY <1>5, <2>2 DEF Create, Typed, TypeOK
    <2> QED
      BY <2>1, <2>2, <1>i, OffersKeep
  <1>6. ASSUME NEW r \in Requests, StartAccept(r) PROVE OffersMade'
    <2>1. PICK a \in Addresses, u \in Users :
            /\ Acceptable(u, a)
            /\ Goto(r, [pc |-> "member", address |-> a, role |-> offered[a], user |-> u])
      BY <1>6 DEF StartAccept
    <2> DEFINE q == [pc |-> "member", address |-> a, role |-> offered[a], user |-> u]
    <2>2. <<a, offered[a]>> \in offers /\ UNCHANGED <<status, offered, offers>>
      BY <1>6, <2>1 DEF Acceptable, Pending, OffersMade, StartAccept, invitations
    <2>3. req' = [req EXCEPT ![r] = q] /\ <<q.address, q.role>> \in offers'
      BY <2>1, <2>2 DEF Goto
    <2> HIDE DEF q
    <2> QED
      BY <2>2, <2>3, OffersKeep
  <1>7. ASSUME NEW r \in Requests, FindMember(r) PROVE OffersMade'
    <2> DEFINE next == IF Active(req[r].user) THEN "mark" ELSE "join"
               q == [req[r] EXCEPT !.pc = next]
    <2>1. /\ req[r] = [pc |-> "member", address |-> req[r].address, role |-> req[r].role,
                       user |-> req[r].user]
          /\ req[r].pc = "member"
      BY <1>7, HandlerType, LocalShape DEF FindMember
    <2>2. q.role = req[r].role /\ q.address = req[r].address
      BY <2>1
    <2>3. req' = [req EXCEPT ![r] = q] /\ UNCHANGED <<status, offered, offers>>
      BY <1>7 DEF FindMember, Goto, invitations
    <2>4. <<q.address, q.role>> \in offers'
      BY <2>1, <2>2, <2>3 DEF OffersMade, Accepting
    <2> HIDE DEF q
    <2> QED
      BY <2>3, <2>4, OffersKeep
  <1>8. ASSUME NEW r \in Requests, PublishJoin(r) \/ PublishRevoke(r) \/ Fail(r)
        PROVE  OffersMade'
    BY <1>1, <1>8, <1>i DEF PublishJoin, PublishRevoke, Fail, Goto, invitations
  <1>9. ASSUME NEW r \in Requests, Mark(r) PROVE OffersMade'
    <2>1. status[req[r].address] # NoRow /\ req[r].address \in Addresses
      BY <1>9, HandlerType, LocalShape DEF Mark, HandlerOK
    <2>2. \A a \in Addresses : status'[a] # NoRow => status[a] # NoRow
      BY <1>9, <2>1 DEF Mark, Typed, TypeOK
    <2> QED
      BY <1>1, <1>9, <1>i, <2>2 DEF Mark, Goto
  <1>10. ASSUME NEW r \in Requests, AcceptTx(r) PROVE OffersMade'
    <2>1. status[req[r].address] # NoRow /\ req[r].address \in Addresses
      BY <1>10, HandlerType, LocalShape DEF AcceptTx, HandlerOK
    <2>2. \A a \in Addresses : status'[a] # NoRow => status[a] # NoRow
      BY <1>10, <2>1 DEF AcceptTx, Typed, TypeOK
    <2>3. [pc |-> "joined", user |-> req[r].user].pc \notin Accepting
      BY DEF Accepting
    <2> QED
      BY <1>1, <1>10, <1>i, <2>2, <2>3 DEF AcceptTx, Goto
  <1>11. ASSUME NEW r \in Requests, StartRevoke(r) PROVE OffersMade'
    <2>1. PICK a \in Addresses : Goto(r, [pc |-> "revoke", address |-> a])
      BY <1>11 DEF StartRevoke
    <2>2. [pc |-> "revoke", address |-> a].pc \notin Accepting
      BY DEF Accepting
    <2> QED
      BY <1>1, <1>11, <2>1, <2>2 DEF StartRevoke, Goto, invitations
  <1>12. ASSUME NEW r \in Requests, Revoke(r) PROVE OffersMade'
    <2>1. status[req[r].address] # NoRow /\ req[r].address \in Addresses
      BY <1>12, HandlerType, LocalShape DEF Revoke, HandlerOK
    <2>2. \A a \in Addresses : status'[a] # NoRow => status[a] # NoRow
      BY <1>12, <2>1 DEF Revoke, Typed, TypeOK
    <2>3. [pc |-> "revoked", address |-> req[r].address].pc \notin Accepting
      BY DEF Accepting
    <2> QED
      BY <1>1, <1>12, <2>2, <2>3 DEF Revoke, Goto
  <1>13. ASSUME Expire \/ Depart \/ UNCHANGED vars PROVE OffersMade'
    BY <1>13 DEF Expire, Depart, OffersMade, invitations, vars
  <1> QED
    BY <1>2, <1>3, <1>4, <1>5, <1>6, <1>7, <1>8, <1>9, <1>10, <1>11, <1>12, <1>13
    DEF Next, Step

LEMMA OffersGrow ==
    ASSUME [Next]_vars
    PROVE  offers \subseteq offers'
  BY DEF Next, Step, StartInvite, FindPending, Renew, Create, StartAccept, FindMember, Mark,
         AcceptTx, PublishJoin, StartRevoke, Revoke, PublishRevoke, Fail, Expire, Depart,
         invitations, vars

LEMMA RoleOfferedNext ==
    Typed /\ OffersMade /\ RoleWasOffered /\ [Next]_vars => RoleWasOffered'
  <1> SUFFICES ASSUME Typed, OffersMade, RoleWasOffered, [Next]_vars,
                      NEW u \in Users, role'[u] # NoRole
               PROVE  \E a \in Addresses : MayRead(u, a) /\ <<a, role'[u]>> \in offers'
    BY DEF RoleWasOffered, MayRead
  <1>1. CASE role'[u] = role[u]
    BY <1>1, OffersGrow DEF RoleWasOffered
  <1>2. CASE role'[u] # role[u]
    <2>1. PICK r \in Requests : /\ AcceptTx(r) /\ req[r].user = u
                                /\ MayRead(u, req[r].address) /\ req[r].address \in Addresses
      BY <1>2, RolesGrowByAcceptance
    <2>2. role'[u] = req[r].role
      BY <1>2, <2>1 DEF AcceptTx, JoinRole, Typed, TypeOK
    <2>3. <<req[r].address, req[r].role>> \in offers
      BY <2>1 DEF AcceptTx, OffersMade, Accepting
    <2> QED
      BY <2>1, <2>2, <2>3, OffersGrow
  <1> QED
    BY <1>1, <1>2

(* Whatever requests overlap, and whatever fails, a member's role is one   *)
(* that was offered at an address of their mailbox; that it is the last    *)
(* one offered there is not so, where a renewal overlaps the acceptance.   *)
THEOREM MembersGotAnOfferedRole == Spec => []RoleWasOffered
  <1>1. Init => OffersMade /\ RoleWasOffered
    BY DEF Init, OffersMade, RoleWasOffered, Idle, Accepting
  <1> QED
    BY <1>1, TypedInit, TypedNext, OffersNext, RoleOfferedNext, PTL DEF Spec
=============================================================================
