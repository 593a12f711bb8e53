-------------------------- MODULE MembershipProofs ---------------------------
(***************************************************************************)
(* Theorems about Membership, for every set of users and handlers: types   *)
(* and the audit log, then who owns the organization.                      *)
(***************************************************************************)
EXTENDS Membership, FiniteSetTheorems, TLAPS

(* What every handler's local state says about the rows, whatever the other *)
(* handlers did since it was read: a row it saw still exists.               *)
HandlerOK(q) ==
    /\ q.op # "leave" => q.target \in Users
    /\ q.op = "changeRole" => q.newRole \in Roles
    /\ q.actorRole \in Roles => role[q.actor] \in Roles
    /\ q.targetRole \in Roles => q.target \in Users /\ role[q.target] \in Roles
    /\ q.pc = "counted" => ReadsDone(q) /\ Allowed(q) /\ TakesOwner(q)

Handlers == \A r \in Requests : req[r].pc # "idle" => HandlerOK(req[r])

\* TypeOK is not inductive alone: that a removal marks an existing row is
\* known from the handler's snapshot.
Typed == TypeOK /\ Handlers

USE DEF Roles, NoRole, Unread

(* A handler that is allowed to write has seen every row it writes.        *)
LEMMA ReadySawRows ==
    ASSUME NEW q \in Request, HandlerOK(q), ReadyToWrite(q)
    PROVE  /\ role[q.actor] \in Roles
           /\ q.op # "leave" => q.target \in Users /\ role[q.target] \in Roles
           /\ q.op = "changeRole" => q.newRole \in Roles
  <1>1. ReadsDone(q) /\ Allowed(q)
    BY DEF ReadyToWrite, HandlerOK
  <1>2. q.actorRole \in Roles
    BY <1>1 DEF ReadsDone, Allowed, Request
  <1>3. q.op # "leave" => q.targetRole \in Roles
    BY <1>1 DEF ReadsDone, Allowed, Request, Manage, CanManageMember, CanTransferOwnership
  <1> QED
    BY <1>2, <1>3 DEF HandlerOK

LEMMA TypedInit == Init => Typed
  <1> SUFFICES ASSUME Init PROVE Typed
    OBVIOUS
  <1>1. PICK founders \in SUBSET Users :
          /\ role = [u \in Users |-> IF u \in founders THEN "OWNER" ELSE NoRole]
          /\ deleted = {}
          /\ req = [r \in Requests |-> Idle]
          /\ auditOwner \in founders
          /\ auditLeft = {}
          /\ lostEvent = FALSE
    BY DEF Init
  <1>2. TypeOK
    BY <1>1 DEF TypeOK
  <1>3. Handlers
    BY <1>1 DEF Handlers, Idle
  <1> QED
    BY <1>2, <1>3 DEF Typed

(* A step that leaves the rows alone and gives one handler a new local     *)
(* state needs that state checked, and nothing else.                       *)
LEMMA OneHandler ==
    ASSUME Typed, UNCHANGED <<role, deleted>>,
           NEW r \in Requests, NEW q \in Request \cup {Idle},
           req' = [req EXCEPT ![r] = q],
           q # Idle => HandlerOK(q),
           auditOwner' \in Users, auditLeft' \subseteq Users, lostEvent' \in BOOLEAN
    PROVE  Typed'
  <1>1. TypeOK'
    BY DEF Typed, TypeOK
  <1>2. ASSUME NEW s \in Requests, req'[s].pc # "idle"
        PROVE  HandlerOK(req[s])'
    <2>1. CASE s = r
      <3>1. req'[s] = q /\ q # Idle
        BY <1>2, <2>1 DEF Typed, TypeOK, Idle
      <3> QED
        BY <3>1 DEF HandlerOK, ReadsDone, Allowed, TakesOwner
    <2>2. CASE s # r
      <3>1. req'[s] = req[s]
        BY <2>2 DEF Typed, TypeOK
      <3> QED
        BY <1>2, <3>1 DEF Typed, Handlers, HandlerOK, ReadsDone, Allowed, TakesOwner
    <2> QED
      BY <2>1, <2>2
  <1> QED
    BY <1>1, <1>2 DEF Typed, Handlers

(* Starting a handler. *)
LEMMA StartTyped ==
    ASSUME Typed, NEW r \in Requests,
           NEW op \in {"changeRole", "remove", "transfer", "leave"},
           NEW actor \in Users, NEW target \in Users \cup {NoRole},
           NEW newRole \in (Roles \ {"OWNER"}) \cup {NoRole},
           op # "leave" => target \in Users,
           op = "changeRole" => newRole \in Roles,
           Start(r, op, actor, target, newRole)
    PROVE  Typed'
  <1> DEFINE q == [ pc |-> "reads", op |-> op, actor |-> actor,
                    target |-> target, newRole |-> newRole,
                    actorRole |-> Unread, targetRole |-> Unread ]
  <1>1. q \in Request /\ HandlerOK(q)
    BY DEF Request, HandlerOK
  <1>2. req' = [req EXCEPT ![r] = q] /\ UNCHANGED <<role, deleted>>
    BY DEF Start
  <1>3. auditOwner' \in Users /\ auditLeft' \subseteq Users /\ lostEvent' \in BOOLEAN
    BY DEF Start, Typed, TypeOK
  <1> HIDE DEF q
  <1> QED
    BY <1>1, <1>2, <1>3, OneHandler

LEMMA SnapshotType ==
    ASSUME TypeOK, NEW u \in Users
    PROVE  /\ Snapshot(u) \in Roles \cup {NoRole}
           /\ Snapshot(u) \in Roles => role[u] = Snapshot(u)
  BY DEF TypeOK, Snapshot

LEMMA TypedStep == Typed /\ [Next]_vars => Typed'
  <1> SUFFICES ASSUME Typed, [Next]_vars PROVE Typed'
    OBVIOUS
  <1> USE DEF Typed
  <1>t. TypeOK /\ Handlers
    OBVIOUS
  <1>1. ASSUME NEW r \in Requests, StartChangeRole(r) PROVE Typed'
    BY <1>1, StartTyped DEF StartChangeRole, AssignableRoles
  <1>2. ASSUME NEW r \in Requests, StartRemove(r) PROVE Typed'
    BY <1>2, StartTyped DEF StartRemove
  <1>3. ASSUME NEW r \in Requests, StartTransfer(r) PROVE Typed'
    BY <1>3, StartTyped DEF StartTransfer
  <1>4. ASSUME NEW r \in Requests, StartLeave(r) PROVE Typed'
    BY <1>4, StartTyped DEF StartLeave
  <1>5. ASSUME NEW r \in Requests, ReadActor(r) PROVE Typed'
    <2> DEFINE q == [req[r] EXCEPT !.actorRole = Snapshot(req[r].actor)]
    <2>1. req[r] \in Request /\ HandlerOK(req[r])
      BY <1>5, <1>t DEF TypeOK, Handlers, ReadActor, Idle
    <2>2. req[r].actor \in Users
      BY <2>1 DEF Request
    <2>3. q \in Request /\ HandlerOK(q)
      BY <2>1, <2>2, <1>5, SnapshotType DEF Request, HandlerOK, ReadActor
    <2>4. req' = [req EXCEPT ![r] = q] /\ UNCHANGED <<role, deleted>>
      BY <1>5 DEF ReadActor
    <2>5. auditOwner' \in Users /\ auditLeft' \subseteq Users /\ lostEvent' \in BOOLEAN
      BY <1>5, <1>t DEF ReadActor, TypeOK
    <2> HIDE DEF q
    <2> QED
      BY <2>3, <2>4, <2>5, OneHandler
  <1>6. ASSUME NEW r \in Requests, ReadTarget(r) PROVE Typed'
    <2> DEFINE q == [req[r] EXCEPT !.targetRole = Snapshot(req[r].target)]
    <2>1. req[r] \in Request /\ HandlerOK(req[r])
      BY <1>6, <1>t DEF TypeOK, Handlers, ReadTarget, Idle
    <2>2. req[r].target \in Users
      BY <2>1, <1>6 DEF HandlerOK, ReadTarget
    <2>3. q \in Request /\ HandlerOK(q)
      BY <2>1, <2>2, <1>6, SnapshotType DEF Request, HandlerOK, ReadTarget
    <2>4. req' = [req EXCEPT ![r] = q] /\ UNCHANGED <<role, deleted>>
      BY <1>6 DEF ReadTarget
    <2>5. auditOwner' \in Users /\ auditLeft' \subseteq Users /\ lostEvent' \in BOOLEAN
      BY <1>6, <1>t DEF ReadTarget, TypeOK
    <2> HIDE DEF q
    <2> QED
      BY <2>3, <2>4, <2>5, OneHandler
  <1>7. ASSUME NEW r \in Requests, Refuse(r) PROVE Typed'
    BY <1>7, <1>t, OneHandler DEF Refuse, TypeOK
  <1>8. ASSUME NEW r \in Requests, CountOwners(r) PROVE Typed'
    <2> DEFINE q == IF OthersOwn THEN [req[r] EXCEPT !.pc = "counted"] ELSE Idle
    <2>1. req[r] \in Request /\ HandlerOK(req[r])
      BY <1>8, <1>t DEF TypeOK, Handlers, CountOwners, Idle
    <2>2. q \in Request \cup {Idle}
      BY <2>1 DEF Request
    <2>3. q # Idle => HandlerOK(q)
      BY <2>1, <1>8 DEF HandlerOK, CountOwners, ReadsDone, Allowed, TakesOwner, Request
    <2>4. req' = [req EXCEPT ![r] = q] /\ UNCHANGED <<role, deleted>>
      BY <1>8 DEF CountOwners
    <2>5. auditOwner' \in Users /\ auditLeft' \subseteq Users /\ lostEvent' \in BOOLEAN
      BY <1>8, <1>t DEF CountOwners, TypeOK
    <2> HIDE DEF q
    <2> QED
      BY <2>2, <2>3, <2>4, <2>5, OneHandler
  <1>9. ASSUME NEW r \in Requests, Write(r) PROVE Typed'
    <2> DEFINE q == req[r]
    <2>1. q \in Request /\ HandlerOK(q)
      BY <1>9, <1>t DEF TypeOK, Handlers, Write, ReadyToWrite, Idle
    <2>2. /\ role[q.actor] \in Roles
          /\ q.op # "leave" => q.target \in Users /\ role[q.target] \in Roles
          /\ q.op = "changeRole" => q.newRole \in Roles
      BY <2>1, <1>9, ReadySawRows DEF Write
    <2>3. q.actor \in Users
      BY <2>1 DEF Request
    <2>4. /\ role' \in [Users -> Roles \cup {NoRole}]
          /\ \A u \in Users : role[u] \in Roles => role'[u] \in Roles
      BY <2>2, <2>3, <1>9, <1>t DEF Write, TypeOK, AfterTransfer
    <2>5. deleted' \subseteq {u \in Users : role'[u] # NoRole}
      BY <2>2, <2>3, <2>4, <1>9, <1>t DEF Write, TypeOK, Departing
    <2>6. Written(q) \in Request
      BY <2>1 DEF Written, Request
    <2>7. req' = [req EXCEPT ![r] = Written(q)]
      BY <1>9 DEF Write
    <2>8. TypeOK'
      BY <2>4, <2>5, <2>6, <2>7, <1>9, <1>t DEF TypeOK, Write
    <2>9. ASSUME NEW s \in Requests, req'[s].pc # "idle"
          PROVE  HandlerOK(req[s])'
      <3>1. CASE s = r
        BY <2>1, <2>6, <2>7, <3>1, <1>t DEF HandlerOK, Written, TypeOK, Request
      <3>2. CASE s # r
        <4>1. req'[s] = req[s]
          BY <2>7, <3>2, <1>t DEF TypeOK
        <4>2. req[s] \in Request /\ HandlerOK(req[s])
          BY <4>1, <2>9, <1>t DEF TypeOK, Handlers, Idle
        <4> QED
          BY <4>1, <4>2, <2>4
          DEF HandlerOK, ReadsDone, Allowed, TakesOwner, Request
      <3> QED
        BY <3>1, <3>2
    <2> QED
      BY <2>8, <2>9 DEF Handlers
  <1>10. ASSUME NEW r \in Requests, Publish(r) PROVE Typed'
    <2>1. req[r] \in Request /\ HandlerOK(req[r])
      BY <1>10, <1>t DEF TypeOK, Handlers, Publish, Idle
    <2>2. auditOwner' \in Users /\ auditLeft' \subseteq Users /\ lostEvent' \in BOOLEAN
      BY <2>1, <1>10, <1>t
      DEF Publish, TypeOK, AuditOwnerAfter, AuditLeftAfter, Departing, HandlerOK, Request
    <2> QED
      BY <2>2, <1>10, OneHandler DEF Publish
  <1>11. ASSUME NEW r \in Requests, Fail(r) PROVE Typed'
    BY <1>11, <1>t, OneHandler DEF Fail, TypeOK
  <1>12. ASSUME NEW u \in Users, Join(u) PROVE Typed'
    <2>1. /\ role' \in [Users -> Roles \cup {NoRole}]
          /\ \A v \in Users : role[v] \in Roles => role'[v] \in Roles
      BY <1>12, <1>t, OfferedRolesAreRoles DEF Join, TypeOK
    <2>2. TypeOK'
      BY <2>1, <1>12, <1>t DEF Join, TypeOK
    <2>3. ASSUME NEW s \in Requests, req'[s].pc # "idle"
          PROVE  HandlerOK(req[s])'
      <3>1. req'[s] = req[s]
        BY <1>12 DEF Join
      <3>2. req[s] \in Request /\ HandlerOK(req[s])
        BY <3>1, <2>3, <1>t DEF TypeOK, Handlers, Idle
      <3> QED
        BY <3>1, <3>2, <2>1 DEF HandlerOK, ReadsDone, Allowed, TakesOwner, Request
    <2> QED
      BY <2>2, <2>3 DEF Handlers
  <1>13. CASE UNCHANGED vars
    BY <1>13, <1>t
    DEF vars, TypeOK, Handlers, HandlerOK, ReadsDone, Allowed, TakesOwner
  <1> QED
    BY <1>1, <1>2, <1>3, <1>4, <1>5, <1>6, <1>7, <1>8, <1>9, <1>10, <1>11, <1>12, <1>13
    DEF Next, Step

(* Rows and handlers keep their types, and only rows that were created are *)
(* ever marked deleted, under any interleaving and any faults.             *)
THEOREM TypeCorrect == Spec => []TypeOK
  <1>1. Typed => TypeOK
    BY DEF Typed
  <1> QED
    BY TypedInit, TypedStep, <1>1, PTL DEF Spec

LEMMA TypedAlways == Spec => []Typed
  BY TypedInit, TypedStep, PTL DEF Spec

-----------------------------------------------------------------------------
(* The audit log of departures.                                            *)

\* The departures written and not yet published, as AuditTellsDepartures has them.
Departures == {"remove", "leave"}
Pending == {Departing(req[r]) :
              r \in {s \in Requests : req[s].pc = "publish" /\ req[s].op \in Departures}}

LEMMA DeparturesPending ==
    AuditTellsDepartures <=>
        /\ auditLeft \cup Pending \subseteq deleted
        /\ lostEvent \/ deleted \subseteq auditLeft \cup Pending
  BY DEF AuditTellsDepartures, Pending, Departures

(* A handler that moves on between two states, neither of which is about   *)
(* to publish a departure, leaves the pending departures as they are.      *)
LEMMA PendingKept ==
    ASSUME Typed, NEW r \in Requests, NEW q,
           req' = [req EXCEPT ![r] = q],
           ~(req[r].pc = "publish" /\ req[r].op \in Departures),
           ~(q.pc = "publish" /\ q.op \in Departures)
    PROVE  Pending' = Pending
  <1>1. req'[r] = q /\ \A s \in Requests \ {r} : req'[s] = req[s]
    BY DEF Typed, TypeOK
  <1>2. ASSUME NEW u PROVE u \in Pending' <=> u \in Pending
    BY <1>1 DEF Pending, Departing
  <1> QED
    BY <1>2

LEMMA DeparturesStep == Typed /\ AuditTellsDepartures /\ [Next]_vars => AuditTellsDepartures'
  <1> SUFFICES ASSUME Typed, AuditTellsDepartures, [Next]_vars
               PROVE  AuditTellsDepartures'
    OBVIOUS
  <1>d. /\ auditLeft \cup Pending \subseteq deleted
        /\ lostEvent \/ deleted \subseteq auditLeft \cup Pending
    BY DeparturesPending
  <1>e. ( /\ auditLeft' \cup Pending' \subseteq deleted'
          /\ lostEvent' \/ deleted' \subseteq auditLeft' \cup Pending' )
        => AuditTellsDepartures'
    BY DEF AuditTellsDepartures, Pending, Departures
  <1>i. Idle.pc # "publish"
    BY DEF Idle
  <1>q. ASSUME NEW r \in Requests, NEW q, req' = [req EXCEPT ![r] = q],
               UNCHANGED <<deleted, auditLeft, lostEvent>>,
               req[r].pc # "publish", q.pc # "publish"
        PROVE  AuditTellsDepartures'
    BY <1>q, <1>d, <1>e, PendingKept
  <1>1. ASSUME NEW r \in Requests, NEW op, NEW actor, NEW target, NEW newRole,
               Start(r, op, actor, target, newRole)
        PROVE  AuditTellsDepartures'
    <2>1. /\ req' = [req EXCEPT ![r] = [ pc |-> "reads", op |-> op, actor |-> actor,
                                         target |-> target, newRole |-> newRole,
                                         actorRole |-> Unread, targetRole |-> Unread ]]
          /\ req[r] = Idle /\ UNCHANGED <<deleted, auditLeft, lostEvent>>
      BY <1>1 DEF Start
    <2>2. [ pc |-> "reads", op |-> op, actor |-> actor, target |-> target, newRole |-> newRole,
            actorRole |-> Unread, targetRole |-> Unread ].pc # "publish"
      OBVIOUS
    <2> QED
      BY <2>1, <2>2, <1>q, <1>i
  <1>2. ASSUME NEW r \in Requests, ReadActor(r) \/ ReadTarget(r) \/ CountOwners(r)
        PROVE  AuditTellsDepartures'
    <2>1. PICK q : req' = [req EXCEPT ![r] = q] /\ q.pc # "publish"
      <3>1. req[r] \in Request /\ req[r].pc = "reads"
        BY <1>2 DEF ReadActor, ReadTarget, CountOwners, Typed, TypeOK, Idle
      <3>2. ASSUME ReadActor(r)
            PROVE  \E q : req' = [req EXCEPT ![r] = q] /\ q.pc # "publish"
        <4>1. req' = [req EXCEPT ![r] = [req[r] EXCEPT !.actorRole = Snapshot(req[r].actor)]]
          BY <3>2 DEF ReadActor
        <4>2. [req[r] EXCEPT !.actorRole = Snapshot(req[r].actor)].pc # "publish"
          BY <3>1 DEF Request
        <4> QED
          BY <4>1, <4>2
      <3>3. ASSUME ReadTarget(r)
            PROVE  \E q : req' = [req EXCEPT ![r] = q] /\ q.pc # "publish"
        <4>1. req' = [req EXCEPT ![r] = [req[r] EXCEPT !.targetRole = Snapshot(req[r].target)]]
          BY <3>3 DEF ReadTarget
        <4>2. [req[r] EXCEPT !.targetRole = Snapshot(req[r].target)].pc # "publish"
          BY <3>1 DEF Request
        <4> QED
          BY <4>1, <4>2
      <3>4. ASSUME CountOwners(r)
            PROVE  \E q : req' = [req EXCEPT ![r] = q] /\ q.pc # "publish"
        <4>1. \/ req' = [req EXCEPT ![r] = [req[r] EXCEPT !.pc = "counted"]]
              \/ req' = [req EXCEPT ![r] = Idle]
          BY <3>4 DEF CountOwners
        <4>2. [req[r] EXCEPT !.pc = "counted"].pc # "publish"
          BY <3>1 DEF Request
        <4> QED
          BY <4>1, <4>2, <1>i
      <3> QED
        BY <1>2, <3>2, <3>3, <3>4
    <2>2. req[r].pc # "publish" /\ UNCHANGED <<deleted, auditLeft, lostEvent>>
      BY <1>2 DEF ReadActor, ReadTarget, CountOwners
    <2> QED
      BY <2>1, <2>2, <1>q
  <1>3. ASSUME NEW r \in Requests, Refuse(r) PROVE AuditTellsDepartures'
    BY <1>3, <1>q, <1>i DEF Refuse
  <1>4. ASSUME NEW r \in Requests, Write(r) PROVE AuditTellsDepartures'
    <2> DEFINE q == req[r]
    <2>1. q \in Request /\ q.pc \in {"reads", "counted"}
      BY <1>4 DEF Write, ReadyToWrite, Typed, TypeOK, Idle
    <2>2. req' = [req EXCEPT ![r] = Written(q)] /\ UNCHANGED <<auditLeft, lostEvent>>
      BY <1>4 DEF Write
    <2>3. /\ Written(q).pc = "publish" /\ Written(q).op = q.op
          /\ Written(q).actor = q.actor /\ Written(q).target = q.target
      BY <2>1 DEF Written, Request
    <2>4. CASE q.op \in Departures
      <3>1. deleted' = deleted \cup {Departing(q)}
        BY <1>4, <2>4 DEF Write, Departures
      <3>2. req'[r] = Written(q) /\ \A s \in Requests \ {r} : req'[s] = req[s]
        BY <2>2 DEF Typed, TypeOK
      <3>3. Pending' = Pending \cup {Departing(q)}
        <4> HIDE DEF q
        <4>1. Departing(Written(q)) = Departing(q)
          BY <2>3 DEF Departing
        <4>2. Pending' \subseteq Pending \cup {Departing(q)}
          BY <3>2, <4>1 DEF Pending
        <4>3. Departing(q) \in Pending'
          BY <3>2, <4>1, <2>3, <2>4 DEF Pending
        <4>4. \A s \in Requests : req[s].pc = "publish" => s # r
          BY <2>1 DEF q
        <4>5. Pending \subseteq Pending'
          BY <3>2, <4>4 DEF Pending
        <4> QED
          BY <4>2, <4>3, <4>5
      <3> QED
        BY <1>d, <1>e, <2>2, <3>1, <3>3
    <2>5. CASE q.op \notin Departures
      <3>1. UNCHANGED deleted
        BY <1>4, <2>5 DEF Write, Departures
      <3>2. Pending' = Pending
        BY <2>1, <2>2, <2>3, <2>5, PendingKept
      <3> QED
        BY <1>d, <1>e, <2>2, <3>1, <3>2
    <2> QED
      BY <2>4, <2>5
  <1>5. ASSUME NEW r \in Requests, Publish(r) PROVE AuditTellsDepartures'
    <2>1. req' = [req EXCEPT ![r] = Idle] /\ UNCHANGED <<deleted, lostEvent>>
          /\ auditLeft' = AuditLeftAfter(req[r])
      BY <1>5 DEF Publish
    <2>2. CASE req[r].op \in Departures
      <3>1. auditLeft' = auditLeft \cup {Departing(req[r])} /\ Departing(req[r]) \in Pending
        BY <1>5, <2>1, <2>2 DEF AuditLeftAfter, Departures, Publish, Pending
      <3>2. req'[r] = Idle /\ \A s \in Requests \ {r} : req'[s] = req[s]
        BY <2>1 DEF Typed, TypeOK
      <3>3. Pending' \subseteq Pending
        BY <3>2, <1>i DEF Pending, Departing
      <3>4. Pending \subseteq Pending' \cup {Departing(req[r])}
        BY <3>2 DEF Pending, Departing
      <3> QED
        BY <1>d, <1>e, <2>1, <3>1, <3>3, <3>4
    <2>3. CASE req[r].op \notin Departures
      BY <2>1, <2>3, <1>d, <1>e, <1>i, PendingKept DEF AuditLeftAfter, Departures
    <2> QED
      BY <2>2, <2>3
  <1>6. ASSUME NEW r \in Requests, Fail(r) PROVE AuditTellsDepartures'
    <2>1. req' = [req EXCEPT ![r] = Idle] /\ UNCHANGED <<deleted, auditLeft>>
      BY <1>6 DEF Fail
    <2>2. CASE req[r].pc = "publish"
      <3>1. lostEvent'
        BY <1>6, <2>2 DEF Fail
      <3>2. \A s \in Requests : req'[s] = Idle \/ req'[s] = req[s]
        BY <2>1 DEF Typed, TypeOK
      <3>3. Pending' \subseteq Pending
        BY <3>2, <1>i DEF Pending, Departing
      <3> QED
        BY <1>d, <1>e, <2>1, <3>1, <3>3
    <2>3. CASE req[r].pc # "publish"
      <3>1. lostEvent' = lostEvent
        BY <1>6, <2>3 DEF Fail, Typed, TypeOK
      <3> QED
        BY <2>1, <2>3, <3>1, <1>q, <1>i
    <2> QED
      BY <2>2, <2>3
  <1>7. ASSUME UNCHANGED <<deleted, req, auditLeft, lostEvent>> PROVE AuditTellsDepartures'
    BY <1>7 DEF AuditTellsDepartures, Departing
  <1> QED
    BY <1>1, <1>2, <1>3, <1>4, <1>5, <1>6, <1>7
    DEF Next, Step, StartChangeRole, StartRemove, StartTransfer, StartLeave, Join, vars

(* Whatever interleaves and whatever fails, every departure in the audit   *)
(* log happened, and unless an event was lost every departure is in the    *)
(* log or in the hands of the handler that is about to publish it.         *)
THEOREM DeparturesAreAudited == Spec => []AuditTellsDepartures
  <1>1. Init => AuditTellsDepartures
    BY DEF Init, Idle, AuditTellsDepartures
  <1> QED
    BY <1>1, DeparturesStep, TypedAlways, PTL DEF Spec

-----------------------------------------------------------------------------
(***************************************************************************)
(* Ownership: as long as no transfer overlaps another request, an          *)
(* organization that starts with one owner always has exactly one, and     *)
(* membership implements the abstract promise Ownership.                   *)
(***************************************************************************)

Members == {u \in Users : Active(u)}

(* What a handler that has read and not yet written knows of the owners.   *)
(* "counted" is out of reach: the count of a sole owner never exceeds one. *)
Foresees(q) ==
    /\ q.pc # "counted"
    /\ q.pc = "reads" =>
         /\ q.op \in Manage /\ q.targetRole \in Roles \ {"OWNER"} => q.target \notin Owners
         /\ q.op = "leave" /\ q.actorRole \in Roles \ {"OWNER"} => q.actor \notin Owners
         /\ q.op = "transfer" /\ q.actorRole = "OWNER" => q.actor \in Owners
         /\ q.op = "transfer" /\ q.targetRole \in Roles => q.target \in Members

Settled == \A r \in Requests : Foresees(req[r])

\* OneOwner is kept because no handler that may write is about to surprise it.
OwnerInv == Typed /\ OneOwner /\ TransferAlone /\ Settled

USE DEF Roles, NoRole, Unread

LEMMA SoleOwnerIsCounted == ASSUME OneOwner PROVE ~OthersOwn
  <1>1. PICK o \in Users : Owners = {o}
    BY DEF OneOwner
  <1>2. Cardinality(Owners) = 1
    BY <1>1, FS_Singleton
  <1> QED
    BY <1>2 DEF OthersOwn

(* Rows unchanged: the owners and the members are unchanged. *)
LEMMA RowsKept ==
    ASSUME UNCHANGED <<role, deleted>>
    PROVE  Owners' = Owners /\ Members' = Members
  BY DEF Owners, Members, Active

LEMMA OwnerInvInit == Init /\ MaxInitialOwners = 1 => OwnerInv
  <1> SUFFICES ASSUME Init, MaxInitialOwners = 1 PROVE OwnerInv
    OBVIOUS
  <1>1. PICK founders \in SUBSET Users :
          /\ founders # {}
          /\ Cardinality(founders) <= 1
          /\ role = [u \in Users |-> IF u \in founders THEN "OWNER" ELSE NoRole]
          /\ deleted = {}
          /\ req = [r \in Requests |-> Idle]
    BY DEF Init
  <1>2. Owners = founders
    BY <1>1 DEF Owners, Active
  <1>3. OneOwner
    <2>1. IsFiniteSet(founders)
      BY UsersFinite, FS_Subset
    <2>2. Cardinality(founders) \in Nat /\ Cardinality(founders) # 0
      BY <1>1, <2>1, FS_CardinalityType, FS_EmptySet
    <2>3. Cardinality(founders) = 1
      BY <1>1, <2>2
    <2>4. PICK o : founders = {o}
      BY <2>1, <2>3, FS_Singleton
    <2> QED
      BY <1>1, <1>2, <2>4 DEF OneOwner
  <1>4. TransferAlone /\ Settled
    BY <1>1 DEF TransferAlone, InTransfer, Settled, Foresees, Idle
  <1> QED
    BY <1>3, <1>4, TypedInit DEF OwnerInv

(* What a write can do to the rows under the invariant: change the role of *)
(* a row that is no owner's, end such a membership, or hand ownership to   *)
(* another member.                                                         *)
RoleChanged ==
    /\ Owners' = Owners /\ Members' = Members /\ UNCHANGED deleted
MembershipEnded(u) ==
    /\ u \in Users \ Owners /\ role[u] \in Roles
    /\ deleted' = deleted \cup {u} /\ UNCHANGED role
OwnershipMoved(u) ==
    /\ u \in Members \ Owners
    /\ Owners' = {u} /\ Members' = Members /\ UNCHANGED deleted

LEMMA WriteEffect ==
    ASSUME OwnerInv, NEW r \in Requests, Write(r)
    PROVE  \/ req[r].op = "changeRole" /\ RoleChanged
           \/ req[r].op \in {"remove", "leave"} /\ MembershipEnded(Departing(req[r]))
           \/ req[r].op = "transfer" /\ OwnershipMoved(req[r].target)
  <1> DEFINE q == req[r]
  <1>1. q \in Request /\ HandlerOK(q) /\ Foresees(q)
    BY DEF OwnerInv, Typed, TypeOK, Handlers, Settled, Write, ReadyToWrite, Idle
  <1>2. q.pc = "reads" /\ ReadsDone(q) /\ Allowed(q) /\ ~TakesOwner(q)
    BY <1>1 DEF Foresees, Write, ReadyToWrite
  <1>3. /\ role[q.actor] \in Roles
        /\ q.op # "leave" => q.target \in Users /\ role[q.target] \in Roles
        /\ q.op = "changeRole" => q.newRole \in Roles
    BY <1>1, ReadySawRows DEF Write
  <1>t. /\ q.actor \in Users
        /\ q.newRole # "OWNER"
        /\ role \in [Users -> Roles \cup {NoRole}]
        /\ deleted \subseteq Users
    BY <1>1 DEF Request, OwnerInv, Typed, TypeOK
  <1>4. CASE q.op = "changeRole"
    <2>1. q.targetRole \in Roles \ {"OWNER"}
      BY <1>1, <1>2, <1>4 DEF ReadsDone, Allowed, TakesOwner, Manage, CanManageMember, Request
    <2>2. q.target \notin Owners
      BY <1>1, <1>2, <1>4, <2>1 DEF Foresees, Manage
    <2>3. role' = [role EXCEPT ![q.target] = q.newRole] /\ UNCHANGED deleted
      BY <1>4 DEF Write
    <2>4. Owners' = Owners /\ Members' = Members
      BY <2>2, <2>3, <1>3, <1>4, <1>t DEF Owners, Members, Active
    <2> QED
      BY <1>4, <2>3, <2>4 DEF RoleChanged
  <1>5. CASE q.op = "remove"
    <2>1. q.targetRole \in Roles \ {"OWNER"}
      BY <1>1, <1>2, <1>5 DEF ReadsDone, Allowed, TakesOwner, Manage, CanManageMember, Request
    <2>2. q.target \notin Owners
      BY <1>1, <1>2, <1>5, <2>1 DEF Foresees, Manage
    <2>3. Departing(q) = q.target /\ deleted' = deleted \cup {Departing(q)} /\ UNCHANGED role
      BY <1>5 DEF Write, Departing
    <2> QED
      BY <2>2, <2>3, <1>3, <1>5 DEF MembershipEnded
  <1>6. CASE q.op = "leave"
    <2>1. q.actorRole \in Roles \ {"OWNER"}
      BY <1>1, <1>2, <1>6 DEF ReadsDone, Allowed, TakesOwner, Request
    <2>2. q.actor \notin Owners
      BY <1>1, <1>2, <1>6, <2>1 DEF Foresees
    <2>3. Departing(q) = q.actor /\ deleted' = deleted \cup {Departing(q)} /\ UNCHANGED role
      BY <1>6 DEF Write, Departing
    <2> QED
      BY <2>2, <2>3, <1>3, <1>6, <1>t DEF MembershipEnded
  <1>7. CASE q.op = "transfer"
    <2>1. q.actorRole = "OWNER" /\ q.targetRole \in Roles /\ q.target # q.actor
      BY <1>1, <1>2, <1>7 DEF ReadsDone, Allowed, CanTransferOwnership, Request
    <2>2. q.actor \in Owners /\ q.target \in Members
      BY <1>1, <1>2, <1>7, <2>1 DEF Foresees
    <2>3. Owners = {q.actor}
      BY <2>2 DEF OwnerInv, OneOwner
    <2>4. role' = [role EXCEPT ![q.actor] = "MEMBER", ![q.target] = "OWNER"]
          /\ UNCHANGED deleted
      BY <1>7 DEF Write, AfterTransfer
    <2>5. Members' = Members
      BY <2>4, <1>3, <1>7, <1>t DEF Members, Active
    <2>6. Owners' = {q.target}
      BY <2>1, <2>2, <2>3, <2>4, <1>t DEF Owners, Members, Active
    <2> QED
      BY <1>7, <2>1, <2>2, <2>3, <2>4, <2>5, <2>6 DEF OwnershipMoved
  <1> QED
    BY <1>1, <1>4, <1>5, <1>6, <1>7 DEF Request

(* A step of one handler that leaves the rows alone. *)
LEMMA QuietStep ==
    ASSUME OwnerInv, Typed', TransferAlone', UNCHANGED <<role, deleted>>,
           NEW r \in Requests, NEW q,
           req' = [req EXCEPT ![r] = q],
           Foresees(q)
    PROVE  OwnerInv'
  <1>1. Owners' = Owners /\ Members' = Members
    BY RowsKept
  <1>2. Settled'
    <2> SUFFICES ASSUME NEW s \in Requests PROVE Foresees(req[s])'
      BY DEF Settled
    <2>1. Foresees(req'[s])
      BY DEF OwnerInv, Settled, Typed, TypeOK
    <2> QED
      BY <1>1, <2>1 DEF Foresees
  <1> QED
    BY <1>1, <1>2 DEF OwnerInv, OneOwner

LEMMA StartKeepsOwner ==
    ASSUME OwnerInv, Typed', TransferAlone', NEW r \in Requests,
           NEW op, NEW actor, NEW target, NEW newRole,
           Start(r, op, actor, target, newRole)
    PROVE  OwnerInv'
  <1> DEFINE q == [ pc |-> "reads", op |-> op, actor |-> actor,
                    target |-> target, newRole |-> newRole,
                    actorRole |-> Unread, targetRole |-> Unread ]
  <1>1. Foresees(q)
    BY DEF Foresees
  <1>2. req' = [req EXCEPT ![r] = q] /\ UNCHANGED <<role, deleted>>
    BY DEF Start
  <1> HIDE DEF q
  <1> QED
    BY <1>1, <1>2, QuietStep

LEMMA SnapshotOfOwner ==
    ASSUME TypeOK, NEW u \in Users
    PROVE  /\ Snapshot(u) = "OWNER" <=> u \in Owners
           /\ Snapshot(u) \in Roles <=> u \in Members
  BY DEF TypeOK, Snapshot, Owners, Members, Active

LEMMA OwnerInvStep == OwnerInv /\ [Next /\ TransferAlone']_vars => OwnerInv'
  <1> SUFFICES ASSUME OwnerInv, [Next /\ TransferAlone']_vars PROVE OwnerInv'
    OBVIOUS
  <1>t. TypeOK /\ Typed /\ Settled /\ OneOwner
    BY DEF OwnerInv, Typed
  <1>p. Typed'
    BY TypedStep, <1>t DEF vars
  <1>s. CASE UNCHANGED vars
    BY <1>s, <1>p, <1>t, RowsKept
    DEF vars, OwnerInv, OneOwner, TransferAlone, InTransfer, Settled, Foresees
  <1>a. CASE Next /\ TransferAlone'
    <2> USE <1>a
    <2>1. ASSUME NEW r \in Requests,
                 StartChangeRole(r) \/ StartRemove(r) \/ StartTransfer(r) \/ StartLeave(r)
          PROVE  OwnerInv'
      BY <2>1, <1>p, StartKeepsOwner
      DEF StartChangeRole, StartRemove, StartTransfer, StartLeave
    <2>2. ASSUME NEW r \in Requests, ReadActor(r) PROVE OwnerInv'
      <3> DEFINE q == [req[r] EXCEPT !.actorRole = Snapshot(req[r].actor)]
      <3>1. req[r] \in Request /\ Foresees(req[r])
        BY <2>2, <1>t DEF TypeOK, Settled, ReadActor, Idle
      <3>2. req[r].actor \in Users
        BY <3>1 DEF Request
      <3>3. Foresees(q)
        BY <3>1, <3>2, <1>t, SnapshotOfOwner DEF Foresees, Request
      <3>4. req' = [req EXCEPT ![r] = q] /\ UNCHANGED <<role, deleted>>
        BY <2>2 DEF ReadActor
      <3> HIDE DEF q
      <3> QED
        BY <3>3, <3>4, <1>p, QuietStep
    <2>3. ASSUME NEW r \in Requests, ReadTarget(r) PROVE OwnerInv'
      <3> DEFINE q == [req[r] EXCEPT !.targetRole = Snapshot(req[r].target)]
      <3>1. req[r] \in Request /\ Foresees(req[r]) /\ HandlerOK(req[r])
        BY <2>3, <1>t DEF TypeOK, Typed, Handlers, Settled, ReadTarget, Idle
      <3>2. req[r].target \in Users
        BY <3>1, <2>3 DEF HandlerOK, ReadTarget
      <3>3. Foresees(q)
        BY <3>1, <3>2, <1>t, SnapshotOfOwner DEF Foresees, Request
      <3>4. req' = [req EXCEPT ![r] = q] /\ UNCHANGED <<role, deleted>>
        BY <2>3 DEF ReadTarget
      <3> HIDE DEF q
      <3> QED
        BY <3>3, <3>4, <1>p, QuietStep
    <2>4. Foresees(Idle)
      BY DEF Foresees, Idle
    <2>5. ASSUME NEW r \in Requests, Refuse(r) \/ Publish(r) \/ Fail(r) PROVE OwnerInv'
      BY <2>4, <2>5, <1>p, QuietStep DEF Refuse, Publish, Fail
    <2>6. ASSUME NEW r \in Requests, CountOwners(r) PROVE OwnerInv'
      <3>1. req' = [req EXCEPT ![r] = Idle] /\ UNCHANGED <<role, deleted>>
        BY <2>6, <1>t, SoleOwnerIsCounted DEF CountOwners
      <3> QED
        BY <3>1, <2>4, <1>p, QuietStep
    <2>7. ASSUME NEW r \in Requests, Write(r) PROVE OwnerInv'
      <3> DEFINE q == req[r]
      <3>1. q \in Request /\ q.pc # "idle"
        BY <2>7, <1>t DEF TypeOK, Write, ReadyToWrite, Idle
      <3>2. req' = [req EXCEPT ![r] = Written(q)]
        BY <2>7 DEF Write
      <3>3. Foresees(req[r])'
        BY <3>1, <3>2, <1>t DEF Foresees, Written, Request, TypeOK
      <3>4. CASE q.op = "transfer"
        <4>1. OwnershipMoved(q.target)
          BY <3>4, <2>7, WriteEffect
        <4>2. OneOwner'
          BY <4>1 DEF OwnershipMoved, Members, OneOwner
        <4>3. ASSUME NEW s \in Requests, s # r PROVE Foresees(req[s])'
          <5>1. req'[s] = req[s] /\ req[s].pc = "idle"
            BY <4>3, <3>1, <3>2, <3>4, <1>t
            DEF OwnerInv, TransferAlone, InTransfer, TypeOK, Request
          <5> QED
            BY <5>1 DEF Foresees
        <4>4. Settled'
          BY <4>3, <3>3 DEF Settled
        <4> QED
          BY <4>2, <4>4, <1>p DEF OwnerInv
      <3>5. CASE q.op # "transfer"
        <4>1. Owners' = Owners
          BY <3>5, <2>7, WriteEffect
          DEF RoleChanged, MembershipEnded, Owners, Active
        <4>2. ASSUME NEW s \in Requests, s # r PROVE Foresees(req[s])'
          <5>1. req'[s] = req[s] /\ req[s].op # "transfer"
            BY <4>2, <3>1, <3>2, <1>t
            DEF OwnerInv, TransferAlone, InTransfer, TypeOK, Request
          <5>2. Foresees(req[s])
            BY <1>t DEF Settled
          <5> QED
            BY <5>1, <5>2, <4>1 DEF Foresees
        <4>3. Settled'
          BY <4>2, <3>3 DEF Settled
        <4> QED
          BY <4>1, <4>3, <1>p, <1>t DEF OwnerInv, OneOwner
      <3> QED
        BY <3>4, <3>5
    <2>8. ASSUME NEW u \in Users, Join(u) PROVE OwnerInv'
      <3>1. Owners' = Owners /\ Members \subseteq Members' /\ req' = req
        BY <2>8, <1>t DEF Join, Owners, Members, Active, TypeOK
      <3>2. Settled'
        BY <3>1, <1>t DEF Settled, Foresees
      <3> QED
        BY <3>1, <3>2, <1>p, <1>t DEF OwnerInv, OneOwner
    <2> QED
      BY <2>1, <2>2, <2>3, <2>5, <2>6, <2>7, <2>8 DEF Next, Step
  <1> QED
    BY <1>s, <1>a

(* An organization created with one owner has exactly one active owner at  *)
(* all times, whatever the other requests interleave with and whatever     *)
(* fails, provided no transfer of ownership overlaps another request.      *)
THEOREM ExactlyOneOwner == MaxInitialOwners = 1 /\ SpecAlone => []OneOwner
  <1>1. OwnerInv => OneOwner
    BY DEF OwnerInv
  <1>2. ASSUME MaxInitialOwners = 1 PROVE SpecAlone => []OneOwner
    <2>1. Init => OwnerInv
      BY <1>2, OwnerInvInit
    <2> QED
      BY <2>1, OwnerInvStep, <1>1, PTL DEF SpecAlone
  <1> QED
    BY <1>2

-----------------------------------------------------------------------------
(* Refinement.                                                             *)

LEMMA AbstractInit == Init /\ MaxInitialOwners = 1 => Abstract!Init
  <1> SUFFICES ASSUME Init, MaxInitialOwners = 1 PROVE Abstract!Init
    OBVIOUS
  <1>1. PICK o \in Users : Owners = {o}
    BY OwnerInvInit DEF OwnerInv, OneOwner
  <1>2. Members = Owners /\ deleted = {}
    BY DEF Init, Members, Owners, Active
  <1> QED
    BY <1>1, <1>2 DEF Abstract!Init, Members

(* Every step that does not touch the rows is a stutter of the promise; a  *)
(* write is one of its three operations or, when the row is already marked *)
(* deleted or only its role changes, a stutter as well.                    *)
LEMMA AbstractStep ==
    ASSUME OwnerInv, [Next /\ TransferAlone']_vars
    PROVE  [Abstract!Next]_(Abstract!vars)
  <1>t. TypeOK
    BY DEF OwnerInv, Typed
  <1>1. ASSUME UNCHANGED <<role, deleted>> PROVE UNCHANGED Abstract!vars
    BY <1>1, RowsKept DEF Abstract!vars, Members
  <1>2. ASSUME NEW r \in Requests, Write(r) PROVE [Abstract!Next]_(Abstract!vars)
    <2>1. CASE RoleChanged
      BY <2>1 DEF RoleChanged, Members, Abstract!vars
    <2>2. CASE MembershipEnded(Departing(req[r]))
      <3> DEFINE u == Departing(req[r])
      <3>1. CASE u \in deleted
        BY <2>2, <3>1, <1>1 DEF MembershipEnded
      <3>2. CASE u \notin deleted
        <4>1. u \in Users /\ u \in Members \ Owners
          BY <2>2, <3>2 DEF MembershipEnded, Members, Active
        <4>2. Members' = Members \ {u} /\ deleted' = deleted \cup {u} /\ Owners' = Owners
          BY <2>2 DEF MembershipEnded, Members, Owners, Active
        <4>3. Abstract!Depart(u)
          BY <4>1, <4>2 DEF Abstract!Depart, Members
        <4> QED
          BY <4>1, <4>3 DEF Abstract!Next
      <3> QED
        BY <3>1, <3>2
    <2>3. CASE OwnershipMoved(req[r].target)
      <3> DEFINE u == req[r].target
      <3>1. Abstract!Transfer(u) /\ u \in Users
        BY <2>3 DEF OwnershipMoved, Abstract!Transfer, Members
      <3> QED
        BY <3>1 DEF Abstract!Next
    <2> QED
      BY <1>2, <2>1, <2>2, <2>3, WriteEffect
  <1>3. ASSUME NEW u \in Users, Join(u) PROVE [Abstract!Next]_(Abstract!vars)
    <2>1. u \notin Members \cup deleted
      BY <1>3, <1>t DEF Join, Members, Active, TypeOK
    <2>2. Members' = Members \cup {u} /\ UNCHANGED deleted /\ Owners' = Owners
      BY <1>3, <1>t, <2>1, OfferedRolesAreRoles DEF Join, Members, Owners, Active, TypeOK
    <2>3. Abstract!Join(u)
      BY <2>1, <2>2 DEF Abstract!Join, Members
    <2> QED
      BY <2>3 DEF Abstract!Next
  <1>4. ASSUME NEW r \in Requests, Step(r), ~Write(r) PROVE UNCHANGED <<role, deleted>>
    BY <1>4
    DEF Step, StartChangeRole, StartRemove, StartTransfer, StartLeave, Start,
        ReadActor, ReadTarget, Refuse, CountOwners, Publish, Fail
  <1> QED
    BY <1>1, <1>2, <1>3, <1>4 DEF Next, vars

(* Member management of an organization created with one owner implements  *)
(* the abstract promise: one owner, who is a member; ownership moves only  *)
(* to a member; the owner never departs; who departed never returns.  The  *)
(* same proviso: no transfer overlaps another request.                     *)
THEOREM MembershipImplementsOwnership ==
    MaxInitialOwners = 1 /\ SpecAlone => ImplementsOwnership
  <1>1. ASSUME MaxInitialOwners = 1 PROVE SpecAlone => ImplementsOwnership
    <2>1. Init => OwnerInv /\ Abstract!Init
      BY <1>1, OwnerInvInit, AbstractInit
    <2>2. OwnerInv /\ [Next /\ TransferAlone']_vars => [Abstract!Next]_(Abstract!vars)
      BY AbstractStep
    <2> QED
      BY <2>1, <2>2, OwnerInvStep, PTL DEF SpecAlone, ImplementsOwnership, Abstract!Spec
  <1> QED
    BY <1>1

-----------------------------------------------------------------------------
(* The owner in the audit log.                                             *)

Announces(q) == q.op = "transfer" /\ q.pc = "publish"

(* AuditNamesOwner is kept because a transfer that is committed and not yet *)
(* published names the owner the log is going to have.                      *)
AuditFollows ==
    \/ lostEvent
    \/ /\ \A r \in Requests : Announces(req[r]) => Owners = {req[r].target}
       /\ (\A r \in Requests : ~Announces(req[r])) => Owners = {auditOwner}

LEMMA AuditFollowsImplies == AuditFollows => AuditNamesOwner
  BY DEF AuditFollows, AuditNamesOwner, Announces, InTransfer

(* A step that keeps the owners, the log and, of each handler, what it is   *)
(* going to announce.                                                       *)
LEMMA AuditQuiet ==
    ASSUME Typed, AuditFollows, Owners' = Owners, UNCHANGED <<auditOwner, lostEvent>>,
           NEW r \in Requests, NEW q, req' = [req EXCEPT ![r] = q],
           ~Announces(req[r]), ~Announces(q)
    PROVE  AuditFollows'
  <1>1. req'[r] = q /\ \A s \in Requests \ {r} : req'[s] = req[s]
    BY DEF Typed, TypeOK
  <1>2. \A s \in Requests : Announces(req'[s]) => s # r /\ req'[s] = req[s]
    BY <1>1
  <1>3. \A s \in Requests : Announces(req[s]) => s # r /\ req'[s] = req[s]
    BY <1>1
  <1>4. lostEvent \/ \A s \in Requests : Announces(req'[s]) => Owners' = {req'[s].target}
    BY <1>2 DEF AuditFollows
  <1>5. lostEvent \/ ((\A s \in Requests : ~Announces(req'[s])) => Owners' = {auditOwner'})
    BY <1>3 DEF AuditFollows
  <1> QED
    BY <1>4, <1>5 DEF AuditFollows, Announces

LEMMA AuditFollowsStep ==
    OwnerInv /\ AuditFollows /\ [Next /\ TransferAlone']_vars => AuditFollows'
  <1> SUFFICES ASSUME OwnerInv, AuditFollows, [Next /\ TransferAlone']_vars
               PROVE  AuditFollows'
    OBVIOUS
  <1>t. Typed /\ TypeOK
    BY DEF OwnerInv, Typed
  <1>i. ~Announces(Idle) /\ Idle.pc = "idle"
    BY DEF Announces, Idle
  <1>a. ASSUME NEW r \in Requests, NEW s \in Requests, Announces(req[r]), s # r
        PROVE  req[s].pc = "idle"
    BY <1>a DEF OwnerInv, TransferAlone, InTransfer, Announces
  <1>1. ASSUME NEW r \in Requests, NEW op, NEW actor, NEW target, NEW newRole,
               Start(r, op, actor, target, newRole)
        PROVE  AuditFollows'
    <2> DEFINE q == [ pc |-> "reads", op |-> op, actor |-> actor,
                      target |-> target, newRole |-> newRole,
                      actorRole |-> Unread, targetRole |-> Unread ]
    <2>1. ~Announces(q)
      BY DEF Announces
    <2>2. /\ req' = [req EXCEPT ![r] = q] /\ req[r] = Idle
          /\ UNCHANGED <<role, deleted, auditOwner, lostEvent>>
      BY <1>1 DEF Start
    <2> HIDE DEF q
    <2> QED
      BY <2>1, <2>2, <1>i, <1>t, RowsKept, AuditQuiet
  <1>2. ASSUME NEW r \in Requests, NEW q, req' = [req EXCEPT ![r] = q],
               UNCHANGED <<role, deleted, auditOwner, lostEvent>>,
               req[r].pc # "publish", q.pc # "publish"
        PROVE  AuditFollows'
    BY <1>2, <1>t, RowsKept, AuditQuiet DEF Announces
  <1>3. ASSUME NEW r \in Requests, ReadActor(r) PROVE AuditFollows'
    <2>1. req[r] \in Request /\ req[r].pc = "reads"
      BY <1>3, <1>t DEF ReadActor, TypeOK, Idle
    <2>2. [req[r] EXCEPT !.actorRole = Snapshot(req[r].actor)].pc = "reads"
      BY <2>1 DEF Request
    <2> QED
      BY <2>1, <2>2, <1>2, <1>3 DEF ReadActor
  <1>4. ASSUME NEW r \in Requests, ReadTarget(r) PROVE AuditFollows'
    <2>1. req[r] \in Request /\ req[r].pc = "reads"
      BY <1>4, <1>t DEF ReadTarget, TypeOK, Idle
    <2>2. [req[r] EXCEPT !.targetRole = Snapshot(req[r].target)].pc = "reads"
      BY <2>1 DEF Request
    <2> QED
      BY <2>1, <2>2, <1>2, <1>4 DEF ReadTarget
  <1>5. ASSUME NEW r \in Requests, Refuse(r) PROVE AuditFollows'
    BY <1>5, <1>2, <1>i DEF Refuse
  <1>6. ASSUME NEW r \in Requests, CountOwners(r) PROVE AuditFollows'
    <2>1. req' = [req EXCEPT ![r] = Idle] /\ req[r].pc = "reads"
          /\ UNCHANGED <<role, deleted, auditOwner, lostEvent>>
      BY <1>6, SoleOwnerIsCounted DEF CountOwners, OwnerInv
    <2> QED
      BY <2>1, <1>2, <1>i
  <1>7. ASSUME NEW r \in Requests, Write(r) PROVE AuditFollows'
    <2> DEFINE q == req[r]
    <2>1. q \in Request /\ q.pc # "idle" /\ q.pc # "publish"
      BY <1>7, <1>t DEF TypeOK, Write, ReadyToWrite, Idle
    <2>2. req' = [req EXCEPT ![r] = Written(q)] /\ UNCHANGED <<auditOwner, lostEvent>>
      BY <1>7 DEF Write
    <2>3. Written(q).pc = "publish" /\ Written(q).op = q.op /\ Written(q).target = q.target
      BY <2>1 DEF Written, Request
    <2>4. CASE q.op = "transfer"
      <3>1. Owners' = {q.target}
        BY <2>4, <1>7, WriteEffect DEF OwnershipMoved
      <3>2. req'[r] = Written(q) /\ \A s \in Requests \ {r} : req'[s] = req[s]
        BY <2>2, <1>t DEF TypeOK
      <3>3. \A s \in Requests \ {r} : req[s].pc = "idle"
        BY <2>1, <2>4 DEF OwnerInv, TransferAlone, InTransfer
      <3>4. \A s \in Requests : Announces(req'[s]) => Owners' = {req'[s].target}
        BY <3>1, <3>2, <3>3, <2>3 DEF Announces
      <3>5. Announces(req'[r])
        BY <3>2, <2>3, <2>4 DEF Announces
      <3> QED
        BY <3>4, <3>5 DEF AuditFollows, Announces
    <2>5. CASE q.op # "transfer"
      <3>1. Owners' = Owners
        BY <2>5, <1>7, WriteEffect DEF RoleChanged, MembershipEnded, Owners, Active
      <3>2. ~Announces(q) /\ ~Announces(Written(q))
        BY <2>1, <2>3, <2>5 DEF Announces
      <3> QED
        BY <3>1, <3>2, <2>2, <1>t, AuditQuiet
    <2> QED
      BY <2>4, <2>5
  <1>8. ASSUME NEW r \in Requests, Publish(r) PROVE AuditFollows'
    <2>1. req' = [req EXCEPT ![r] = Idle] /\ Owners' = Owners /\ UNCHANGED lostEvent
          /\ auditOwner' = AuditOwnerAfter(req[r]) /\ req[r].pc = "publish"
      BY <1>8, RowsKept DEF Publish
    <2>2. CASE req[r].op = "transfer"
      <3>1. auditOwner' = req[r].target /\ Announces(req[r])
        BY <2>1, <2>2 DEF AuditOwnerAfter, Announces
      <3>2. lostEvent \/ Owners' = {auditOwner'}
        BY <2>1, <3>1 DEF AuditFollows
      <3>3. \A s \in Requests : req'[s].pc = "idle"
        BY <2>1, <3>1, <1>a, <1>t DEF TypeOK, Idle
      <3> QED
        BY <2>1, <3>2, <3>3 DEF AuditFollows, Announces
    <2>3. CASE req[r].op # "transfer"
      BY <2>1, <2>3, <1>i, <1>t, AuditQuiet DEF AuditOwnerAfter, Announces
    <2> QED
      BY <2>2, <2>3
  <1>9. ASSUME NEW r \in Requests, Fail(r) PROVE AuditFollows'
    <2>1. CASE req[r].pc = "publish"
      BY <1>9, <2>1 DEF Fail, AuditFollows
    <2>2. CASE req[r].pc # "publish"
      <3>1. UNCHANGED lostEvent
        BY <1>9, <2>2, <1>t DEF Fail, TypeOK
      <3> QED
        BY <1>9, <2>2, <3>1, <1>2, <1>i DEF Fail
    <2> QED
      BY <2>1, <2>2
  <1>10. ASSUME NEW u \in Users, Join(u) PROVE AuditFollows'
    <2>1. Owners' = Owners
      BY <1>10, <1>t DEF Join, Owners, Active, TypeOK
    <2> QED
      BY <2>1, <1>10 DEF Join, AuditFollows, Announces
  <1>11. CASE UNCHANGED vars
    BY <1>11, RowsKept DEF vars, AuditFollows, Announces
  <1> QED
    BY <1>1, <1>3, <1>4, <1>5, <1>6, <1>7, <1>8, <1>9, <1>10, <1>11
    DEF Next, Step, StartChangeRole, StartRemove, StartTransfer, StartLeave

(* As long as no transfer overlaps another request, the last transfer in    *)
(* the audit log names the owner, unless an event was lost or a transfer is *)
(* between its commit and its event.                                        *)
THEOREM AuditedOwner == MaxInitialOwners = 1 /\ SpecAlone => []AuditNamesOwner
  <1>1. ASSUME Init, MaxInitialOwners = 1 PROVE AuditFollows
    <2>1. PICK founders \in SUBSET Users :
            /\ role = [u \in Users |-> IF u \in founders THEN "OWNER" ELSE NoRole]
            /\ deleted = {}
            /\ req = [r \in Requests |-> Idle]
            /\ auditOwner \in founders
      BY <1>1 DEF Init
    <2>2. Owners = founders /\ OneOwner
      BY <2>1, <1>1, OwnerInvInit DEF Owners, Active, OwnerInv
    <2>3. Owners = {auditOwner}
      BY <2>1, <2>2 DEF OneOwner
    <2> QED
      BY <2>1, <2>3 DEF AuditFollows, Announces, Idle
  <1>2. ASSUME MaxInitialOwners = 1 PROVE SpecAlone => []AuditNamesOwner
    <2>1. Init => OwnerInv /\ AuditFollows
      BY <1>1, <1>2, OwnerInvInit
    <2> QED
      BY <2>1, OwnerInvStep, AuditFollowsStep, AuditFollowsImplies, PTL DEF SpecAlone
  <1> QED
    BY <1>2

(* As long as no transfer overlaps another request, an owner stops being    *)
(* one only in the write of a transfer that owner asked for.                *)
THEOREM OwnersYield == MaxInitialOwners = 1 /\ SpecAlone => OwnersYieldOnlyThemselves
  <1>1. ASSUME OwnerInv, [Next]_vars, NEW u \in Owners \ Owners'
        PROVE  \E r \in Requests : /\ InTransfer(r)
                                   /\ req[r].actor = u
                                   /\ req[r].pc # "publish"
                                   /\ req'[r].pc = "publish"
    <2>t. TypeOK
      BY <1>1 DEF OwnerInv, Typed
    <2>1. ASSUME NEW r \in Requests, Step(r), ~Write(r) PROVE FALSE
      <3>1. UNCHANGED <<role, deleted>>
        BY <2>1
        DEF Step, StartChangeRole, StartRemove, StartTransfer, StartLeave, Start,
            ReadActor, ReadTarget, Refuse, CountOwners, Publish, Fail
      <3> QED
        BY <3>1, <1>1, RowsKept
    <2>2. ASSUME NEW v \in Users, Join(v) PROVE FALSE
      BY <1>1, <2>2, <2>t DEF Join, Owners, Active, TypeOK
    <2>3. PICK r \in Requests : Write(r)
      BY <1>1, <2>1, <2>2, RowsKept DEF Next, vars
    <2>4. req[r].op = "transfer"
      BY <1>1, <2>3, WriteEffect DEF RoleChanged, MembershipEnded, Owners, Active
    <2>5. req[r] \in Request /\ req' = [req EXCEPT ![r] = Written(req[r])]
      BY <2>3, <2>t DEF TypeOK, Write, ReadyToWrite, Idle
    <2>6. req'[r].pc = "publish" /\ req[r].pc \in {"reads", "counted"}
      BY <2>3, <2>5, <2>t DEF TypeOK, Written, Request, Write, ReadyToWrite
    <2>7. HandlerOK(req[r]) /\ Foresees(req[r])
      BY <1>1, <2>6 DEF OwnerInv, Typed, Handlers, Settled
    <2>8. Allowed(req[r]) /\ ReadsDone(req[r]) /\ req[r].pc = "reads"
      BY <2>3, <2>7 DEF Write, ReadyToWrite, HandlerOK, Foresees
    <2>9. req[r].actor \in Owners
      BY <2>4, <2>7, <2>8 DEF Foresees, Allowed, CanTransferOwnership
    <2>10. req[r].actor = u
      BY <1>1, <2>9 DEF OwnerInv, OneOwner
    <2> QED
      BY <2>3, <2>4, <2>6, <2>10 DEF InTransfer
  <1>2. OwnerInv /\ [Next /\ TransferAlone']_vars =>
          [ \A u \in Owners \ Owners' :
              \E r \in Requests : /\ InTransfer(r)
                                  /\ req[r].actor = u
                                  /\ req[r].pc # "publish"
                                  /\ req'[r].pc = "publish" ]_vars
    BY <1>1
  <1>3. ASSUME MaxInitialOwners = 1 PROVE SpecAlone => OwnersYieldOnlyThemselves
    <2>1. Init => OwnerInv
      BY <1>3, OwnerInvInit
    <2> QED
      BY <2>1, <1>2, OwnerInvStep, PTL DEF SpecAlone, OwnersYieldOnlyThemselves
  <1> QED
    BY <1>3

-----------------------------------------------------------------------------
(* One request at a time, whatever the number of owners at the start: then  *)
(* the last-owner protection and the role hierarchy hold as documented.     *)

Serial == \A p, q \in Requests : p = q

(* Between its start and its write a handler is alone, so what it read, and *)
(* what the guard in front of its route found, still is in the rows.        *)
SeesRows(q) ==
    q.pc \in {"reads", "counted"} =>
        /\ q.actor \in Members
        /\ q.op \in Manage => role[q.actor] \in {"OWNER", "ADMIN"}
        /\ q.actorRole # Unread => q.actorRole = role[q.actor]
        /\ q.targetRole \in Roles => q.target \in Members /\ role[q.target] = q.targetRole
        /\ q.pc = "counted" => Cardinality(Owners) > 1

SerialInv == Typed /\ SomeOwner /\ \A r \in Requests : SeesRows(req[r])

LEMMA ManagersAreOwnersOrAdmins ==
    ASSUME NEW op \in Manage, NEW u, GuardAdmits(op, u)
    PROVE  role[u] \in {"OWNER", "ADMIN"}
  <1>1. \A x \in {"MANAGER", "MEMBER", "VIEWER"} :
          ~HasPermissions({"member:update"}, PermissionsOf(x))
    BY DEF HasPermissions, PermissionsOf, Granted, Wildcard
  <1>2. \A x \in {"MANAGER", "MEMBER", "VIEWER"} :
          ~HasPermissions({"member:remove"}, PermissionsOf(x))
    BY DEF HasPermissions, PermissionsOf, Granted, Wildcard
  <1>3. ~HasPermissions({"member:update"}, {}) /\ ~HasPermissions({"member:remove"}, {})
    BY DEF HasPermissions
  <1>4. role[u] \in Roles
    BY <1>3 DEF GuardAdmits, Manage, PermissionsOf
  <1> QED
    BY <1>1, <1>2, <1>4 DEF GuardAdmits, Manage

LEMMA OwnersFinite == IsFiniteSet(Owners) /\ Cardinality(Owners) \in Nat
  BY UsersFinite, FS_Subset, FS_CardinalityType DEF Owners

(* What a write does to the set of owners: nothing, or it ends one of       *)
(* several ownerships, or it moves one.                                     *)
LEMMA SerialWriteEffect ==
    ASSUME SerialInv, NEW r \in Requests, Write(r)
    PROVE  \/ Owners' = Owners
           \/ \E u \in Owners : Owners' = Owners \ {u} /\ Cardinality(Owners) > 1
           \/ \E u \in Owners, v \in Users : u # v /\ Owners' = (Owners \ {u}) \cup {v}
  <1> DEFINE q == req[r]
  <1>1. q \in Request /\ HandlerOK(q) /\ SeesRows(q) /\ q.pc \in {"reads", "counted"}
    BY DEF SerialInv, Typed, TypeOK, Handlers, Write, ReadyToWrite, Idle
  <1>2. ReadsDone(q) /\ Allowed(q)
    BY <1>1 DEF HandlerOK, Write, ReadyToWrite
  <1>3. /\ TakesOwner(q) => q.pc = "counted" /\ Cardinality(Owners) > 1
        /\ q.actor \in Users /\ q.actor \in Members
        /\ q.actorRole = role[q.actor]
        /\ q.targetRole \in Roles => q.target \in Members /\ role[q.target] = q.targetRole
    BY <1>1, <1>2 DEF Write, ReadyToWrite, SeesRows, ReadsDone, Request
  <1>4. q.op # "leave" => q.targetRole \in Roles /\ q.target # q.actor
    BY <1>1, <1>2 DEF ReadsDone, Allowed, Manage, CanManageMember, CanTransferOwnership, Request
  <1>t. /\ q.newRole # "OWNER"
        /\ role \in [Users -> Roles \cup {NoRole}]
        /\ deleted \subseteq Users
    BY <1>1 DEF Request, SerialInv, Typed, TypeOK
  <1>5. CASE q.op = "changeRole"
    <2>1. role' = [role EXCEPT ![q.target] = q.newRole] /\ UNCHANGED deleted
      BY <1>5 DEF Write
    <2>2. Owners' = Owners \ {q.target}
      BY <2>1, <1>3, <1>4, <1>5, <1>t DEF Owners, Members, Active
    <2>3. q.target \in Owners => TakesOwner(q)
      BY <1>3, <1>4, <1>5 DEF TakesOwner, Manage, Owners
    <2> QED
      BY <2>2, <2>3, <1>3
  <1>6. CASE q.op = "remove"
    <2>1. deleted' = deleted \cup {q.target} /\ UNCHANGED role
      BY <1>6 DEF Write, Departing
    <2>2. Owners' = Owners \ {q.target}
      BY <2>1 DEF Owners, Active
    <2>3. q.target \in Owners => TakesOwner(q)
      BY <1>3, <1>4, <1>6 DEF TakesOwner, Manage, Owners
    <2> QED
      BY <2>2, <2>3, <1>3
  <1>7. CASE q.op = "leave"
    <2>1. deleted' = deleted \cup {q.actor} /\ UNCHANGED role
      BY <1>7 DEF Write, Departing
    <2>2. Owners' = Owners \ {q.actor}
      BY <2>1 DEF Owners, Active
    <2>3. q.actor \in Owners => TakesOwner(q)
      BY <1>3, <1>7 DEF TakesOwner, Owners
    <2> QED
      BY <2>2, <2>3, <1>3
  <1>8. CASE q.op = "transfer"
    <2>1. role' = [role EXCEPT ![q.actor] = "MEMBER", ![q.target] = "OWNER"]
          /\ UNCHANGED deleted
      BY <1>8 DEF Write, AfterTransfer
    <2>2. q.actorRole = "OWNER" /\ q.target \in Members /\ q.target # q.actor
      BY <1>2, <1>3, <1>4, <1>8 DEF Allowed, CanTransferOwnership
    <2>3. q.actor \in Owners /\ q.target \in Users
      BY <2>2, <1>3 DEF Owners, Members
    <2>4. Owners' = (Owners \ {q.actor}) \cup {q.target}
      BY <2>1, <2>2, <2>3, <1>t DEF Owners, Members, Active
    <2> QED
      BY <2>2, <2>3, <2>4
  <1> QED
    BY <1>1, <1>5, <1>6, <1>7, <1>8 DEF Request

LEMMA WriteLeavesAnOwner ==
    ASSUME SerialInv, NEW r \in Requests, Write(r)
    PROVE  Owners' # {} /\ Cardinality(Owners') <= Cardinality(Owners)
  <1>1. CASE Owners' = Owners
    BY <1>1, OwnersFinite DEF SerialInv, SomeOwner
  <1>2. ASSUME NEW u \in Owners, Owners' = Owners \ {u}, Cardinality(Owners) > 1
        PROVE  Owners' # {} /\ Cardinality(Owners') <= Cardinality(Owners)
    <2>1. Cardinality(Owners') = Cardinality(Owners) - 1
      BY <1>2, OwnersFinite, FS_RemoveElement
    <2> QED
      BY <1>2, <2>1, OwnersFinite, FS_EmptySet
  <1>3. ASSUME NEW u \in Owners, NEW v \in Users, Owners' = (Owners \ {u}) \cup {v}
        PROVE  Owners' # {} /\ Cardinality(Owners') <= Cardinality(Owners)
    <2> DEFINE rest == Owners \ {u}
    <2>1. IsFiniteSet(rest) /\ Cardinality(rest) = Cardinality(Owners) - 1
      BY OwnersFinite, FS_RemoveElement
    <2>2. Owners' = rest \cup {v}
      BY <1>3
    <2> HIDE DEF rest
    <2>3. Cardinality(rest \cup {v}) = IF v \in rest THEN Cardinality(rest) ELSE Cardinality(rest) + 1
      BY <2>1, FS_AddElement
    <2> QED
      BY <2>1, <2>2, <2>3, OwnersFinite
  <1> QED
    BY <1>1, <1>2, <1>3, SerialWriteEffect

LEMMA SerialInit == Init => SerialInv
  <1> SUFFICES ASSUME Init PROVE SerialInv
    OBVIOUS
  <1>1. PICK founders \in SUBSET Users :
          /\ founders # {}
          /\ role = [u \in Users |-> IF u \in founders THEN "OWNER" ELSE NoRole]
          /\ deleted = {}
          /\ req = [r \in Requests |-> Idle]
    BY DEF Init
  <1>2. Owners = founders
    BY <1>1 DEF Owners, Active
  <1>3. \A r \in Requests : SeesRows(req[r])
    BY <1>1 DEF SeesRows, Idle
  <1> QED
    BY <1>1, <1>2, <1>3, TypedInit DEF SerialInv, SomeOwner

(* The one handler moves on and leaves the rows alone.                      *)
LEMMA SerialQuiet ==
    ASSUME SerialInv, Serial, Typed', UNCHANGED <<role, deleted>>,
           NEW r \in Requests, NEW q, req' = [req EXCEPT ![r] = q], SeesRows(q)
    PROVE  SerialInv'
  <1>1. Owners' = Owners /\ Members' = Members
    BY RowsKept
  <1>2. ASSUME NEW s \in Requests PROVE SeesRows(req[s])'
    <2>1. SeesRows(req'[s])
      BY DEF Serial, SerialInv, Typed, TypeOK
    <2> QED
      BY <1>1, <2>1 DEF SeesRows
  <1> QED
    BY <1>1, <1>2 DEF SerialInv, SomeOwner

LEMMA SerialStart ==
    ASSUME SerialInv, Serial, Typed', NEW r \in Requests,
           NEW op, NEW actor \in Users, NEW target, NEW newRole,
           Start(r, op, actor, target, newRole)
    PROVE  SerialInv'
  <1> DEFINE q == [ pc |-> "reads", op |-> op, actor |-> actor,
                    target |-> target, newRole |-> newRole,
                    actorRole |-> Unread, targetRole |-> Unread ]
  <1>1. actor \in Members /\ (op \in Manage => role[actor] \in {"OWNER", "ADMIN"})
    BY ManagersAreOwnersOrAdmins DEF Start, GuardAdmits, Members
  <1>2. SeesRows(q)
    BY <1>1 DEF SeesRows
  <1>3. req' = [req EXCEPT ![r] = q] /\ UNCHANGED <<role, deleted>>
    BY DEF Start
  <1> HIDE DEF q
  <1> QED
    BY <1>2, <1>3, SerialQuiet

LEMMA SerialStep == Serial /\ SerialInv /\ [Next]_vars => SerialInv'
  <1> SUFFICES ASSUME Serial, SerialInv, [Next]_vars PROVE SerialInv'
    OBVIOUS
  <1>t. Typed /\ TypeOK /\ Typed'
    BY TypedStep DEF SerialInv, Typed
  <1>i. SeesRows(Idle)
    BY DEF SeesRows, Idle
  <1>1. ASSUME NEW r \in Requests,
               StartChangeRole(r) \/ StartRemove(r) \/ StartTransfer(r) \/ StartLeave(r)
        PROVE  SerialInv'
    BY <1>1, <1>t, SerialStart DEF StartChangeRole, StartRemove, StartTransfer, StartLeave
  <1>2. ASSUME NEW r \in Requests, ReadActor(r) PROVE SerialInv'
    <2> DEFINE q == [req[r] EXCEPT !.actorRole = Snapshot(req[r].actor)]
    <2>1. req[r] \in Request /\ SeesRows(req[r]) /\ req[r].pc = "reads"
      BY <1>2, <1>t DEF TypeOK, SerialInv, ReadActor, Idle
    <2>2. Snapshot(req[r].actor) = role[req[r].actor]
      BY <2>1 DEF SeesRows, Members, Snapshot
    <2>3. SeesRows(q)
      BY <2>1, <2>2 DEF SeesRows, Request
    <2>4. req' = [req EXCEPT ![r] = q] /\ UNCHANGED <<role, deleted>>
      BY <1>2 DEF ReadActor
    <2> HIDE DEF q
    <2> QED
      BY <2>3, <2>4, <1>t, SerialQuiet
  <1>3. ASSUME NEW r \in Requests, ReadTarget(r) PROVE SerialInv'
    <2> DEFINE q == [req[r] EXCEPT !.targetRole = Snapshot(req[r].target)]
    <2>1. /\ req[r] \in Request /\ SeesRows(req[r]) /\ req[r].pc = "reads"
          /\ req[r].target \in Users
      BY <1>3, <1>t DEF Typed, Handlers, HandlerOK, TypeOK, SerialInv, ReadTarget, Idle
    <2>2. Snapshot(req[r].target) \in Roles =>
            req[r].target \in Members /\ role[req[r].target] = Snapshot(req[r].target)
      BY <2>1 DEF Members, Snapshot
    <2>3. SeesRows(q)
      BY <2>1, <2>2 DEF SeesRows, Request
    <2>4. req' = [req EXCEPT ![r] = q] /\ UNCHANGED <<role, deleted>>
      BY <1>3 DEF ReadTarget
    <2> HIDE DEF q
    <2> QED
      BY <2>3, <2>4, <1>t, SerialQuiet
  <1>4. ASSUME NEW r \in Requests, Refuse(r) \/ Publish(r) \/ Fail(r) PROVE SerialInv'
    BY <1>4, <1>i, <1>t, SerialQuiet DEF Refuse, Publish, Fail
  <1>5. ASSUME NEW r \in Requests, CountOwners(r) PROVE SerialInv'
    <2> DEFINE q == IF OthersOwn THEN [req[r] EXCEPT !.pc = "counted"] ELSE Idle
    <2>1. req[r] \in Request /\ SeesRows(req[r]) /\ req[r].pc = "reads"
      BY <1>5, <1>t DEF TypeOK, SerialInv, CountOwners, Idle
    <2>2. SeesRows(q)
      BY <2>1, <1>i DEF SeesRows, Request, OthersOwn
    <2>3. req' = [req EXCEPT ![r] = q] /\ UNCHANGED <<role, deleted>>
      BY <1>5 DEF CountOwners
    <2> HIDE DEF q
    <2> QED
      BY <2>2, <2>3, <1>t, SerialQuiet
  <1>6. ASSUME NEW r \in Requests, Write(r) PROVE SerialInv'
    <2>1. req[r] \in Request /\ req' = [req EXCEPT ![r] = Written(req[r])]
      BY <1>6, <1>t DEF TypeOK, Write, ReadyToWrite, Idle
    <2>2. \A s \in Requests : req'[s].pc = "publish"
      BY <2>1, <1>t DEF Serial, TypeOK, Written, Request
    <2> QED
      BY <2>2, <1>6, <1>t, WriteLeavesAnOwner DEF SerialInv, SomeOwner, SeesRows
  <1>7. ASSUME NEW u \in Users, Join(u) PROVE SerialInv'
    <2>1. /\ Owners' = Owners /\ Members \subseteq Members' /\ req' = req
          /\ \A v \in Members : role'[v] = role[v]
      BY <1>7, <1>t DEF Join, Owners, Members, Active, TypeOK
    <2>2. ASSUME NEW s \in Requests PROVE SeesRows(req[s])'
      BY <2>1 DEF SerialInv, SeesRows
    <2> QED
      BY <2>1, <2>2, <1>t DEF SerialInv, SomeOwner
  <1>8. CASE UNCHANGED vars
    BY <1>8, <1>t, RowsKept DEF vars, SerialInv, SomeOwner, SeesRows
  <1> QED
    BY <1>1, <1>2, <1>3, <1>4, <1>5, <1>6, <1>7, <1>8 DEF Next, Step

LEMMA SerialAlways == Serial /\ Spec => []SerialInv
  <1>1. ASSUME Serial PROVE SerialInv /\ [Next]_vars => SerialInv'
    BY <1>1, SerialStep
  <1>2. ASSUME Serial PROVE Spec => []SerialInv
    BY <1>1, <1>2, SerialInit, PTL DEF Spec
  <1> QED
    BY <1>2

(* When requests come one at a time, no sequence of them leaves the         *)
(* organization without an owner, however many it had at the start.         *)
THEOREM SerialOwnerRemains == Serial /\ Spec => []SomeOwner
  <1>1. SerialInv => SomeOwner
    BY DEF SerialInv
  <1> QED
    BY <1>1, SerialAlways, PTL

(* When requests come one at a time, no step of any of them leaves more     *)
(* owners than there were: a transfer takes the role before it gives it.    *)
THEOREM SerialOwnersNeverMultiply == Serial /\ Spec => OwnersNeverMultiply
  <1>1. ASSUME SerialInv, [Next]_vars PROVE [Cardinality(Owners') <= Cardinality(Owners)]_vars
    <2>1. ASSUME NEW r \in Requests, Write(r) PROVE Cardinality(Owners') <= Cardinality(Owners)
      BY <1>1, <2>1, WriteLeavesAnOwner
    <2>2. ASSUME NEW r \in Requests, Step(r), ~Write(r) PROVE UNCHANGED <<role, deleted>>
      BY <2>2
      DEF Step, StartChangeRole, StartRemove, StartTransfer, StartLeave, Start,
          ReadActor, ReadTarget, Refuse, CountOwners, Publish, Fail
    <2>3. ASSUME NEW u \in Users, Join(u) PROVE Owners' = Owners
      BY <1>1, <2>3 DEF Join, Owners, Active, SerialInv, Typed, TypeOK
    <2> QED
      BY <1>1, <2>1, <2>2, <2>3, RowsKept, OwnersFinite DEF Next
  <1> QED
    BY <1>1, SerialAlways, PTL DEF Spec, OwnersNeverMultiply

(* Only a write takes a handler to its publication.                         *)
LEMMA OnlyWritesPublish ==
    ASSUME Typed, [Next]_vars, NEW r \in Requests, req[r].pc # "publish", req'[r].pc = "publish"
    PROVE  Write(r)
  <1>t. TypeOK
    BY DEF Typed
  <1>1. PICK s \in Requests : Step(s) /\ s = r
    <2>1. ASSUME NEW s \in Requests, Step(s), s # r PROVE req'[r] = req[r]
      BY <2>1, <1>t
      DEF Step, StartChangeRole, StartRemove, StartTransfer, StartLeave, Start,
          ReadActor, ReadTarget, Refuse, CountOwners, Write, Publish, Fail, TypeOK
    <2>2. ASSUME NEW u \in Users, Join(u) PROVE req'[r] = req[r]
      BY <2>2 DEF Join
    <2> QED
      BY <2>1, <2>2 DEF Next, vars
  <1>2. ASSUME StartChangeRole(r) \/ StartRemove(r) \/ StartTransfer(r) \/ StartLeave(r)
        PROVE  FALSE
    BY <1>2, <1>t DEF StartChangeRole, StartRemove, StartTransfer, StartLeave, Start, TypeOK
  <1>3. ASSUME Refuse(r) \/ Publish(r) \/ Fail(r) PROVE FALSE
    BY <1>3, <1>t DEF Refuse, Publish, Fail, TypeOK, Idle
  <1>4. ASSUME ReadActor(r) \/ ReadTarget(r) \/ CountOwners(r) PROVE FALSE
    <2>1. req[r] \in Request /\ req[r].pc = "reads"
      BY <1>4, <1>t DEF ReadActor, ReadTarget, CountOwners, TypeOK, Idle
    <2> QED
      BY <2>1, <1>4, <1>t DEF ReadActor, ReadTarget, CountOwners, TypeOK, Request, Idle
  <1> QED
    BY <1>1, <1>2, <1>3, <1>4 DEF Step

(* When requests come one at a time, an owner or an administrator loses     *)
(* their role or membership to another member only if that member is an     *)
(* owner at that moment.                                                    *)
THEOREM SerialHierarchy == Serial /\ Spec => HierarchyRespected
  <1>1. ASSUME SerialInv, [Next]_vars, NEW r \in Requests,
               req[r].pc # "publish", req'[r].pc = "publish",
               req[r].op \in Manage, role[req[r].target] \in {"OWNER", "ADMIN"}
        PROVE  role[req[r].actor] = "OWNER"
    <2> DEFINE q == req[r]
    <2>1. Write(r)
      BY <1>1, OnlyWritesPublish DEF SerialInv
    <2>2. q \in Request /\ HandlerOK(q) /\ SeesRows(q) /\ q.pc \in {"reads", "counted"}
      BY <1>1, <2>1 DEF SerialInv, Typed, TypeOK, Handlers, Write, ReadyToWrite, Idle
    <2>3. ReadsDone(q) /\ Allowed(q)
      BY <2>1, <2>2 DEF HandlerOK, Write, ReadyToWrite
    <2>4. /\ q.actorRole = role[q.actor] /\ q.actorRole \in {"OWNER", "ADMIN"}
          /\ q.targetRole \in Roles => role[q.target] = q.targetRole
      BY <1>1, <2>2, <2>3 DEF SeesRows, ReadsDone
    <2>5. CanManageMember(q.actor, q.actorRole, q.target, q.targetRole, q.newRole)
          /\ q.targetRole \in Roles
      BY <1>1, <2>2, <2>3 DEF Allowed, ReadsDone, Manage, CanManageMember, Request
    <2> QED
      BY <1>1, <2>4, <2>5 DEF CanManageMember
  <1>2. SerialInv /\ [Next]_vars =>
          [ \A r \in Requests :
              ( /\ req[r].pc # "publish"
                /\ req'[r].pc = "publish"
                /\ req[r].op \in Manage
                /\ role[req[r].target] \in {"OWNER", "ADMIN"} )
              => role[req[r].actor] = "OWNER" ]_vars
    BY <1>1
  <1> QED
    BY <1>2, SerialAlways, PTL DEF Spec, HierarchyRespected
=============================================================================
