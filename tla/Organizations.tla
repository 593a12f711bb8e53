---------------------------- MODULE Organizations ----------------------------
(***************************************************************************)
(* The slugs of organizations: OrganizationsService over                   *)
(* OrganizationRepository.  A creation looks for a free slug one query at  *)
(* a time; a change of the profile reads the organization, asks whether    *)
(* the slug is taken, writes, and publishes SlugChanged with the slug it   *)
(* read at first.  Names and settings go the same way and are left out.  A *)
(* slug is a base and a suffix, 1 where it has none.                       *)
(***************************************************************************)
EXTENDS Integers, Sequences

CONSTANTS
    Tenants,        \* organization ids; one is never used twice, or deleted
    Managers,       \* requests in flight
    Bases,          \* slugify of the names organizations are created with
    ReservedSlugs,
    MaxChanges      \* bound on the changes of slugs

ASSUME MaxChangesAssumption == MaxChanges \in Nat

VARIABLES
    slugOf,         \* the slug of each organization
    task,           \* the local state of each request
    trail,          \* SlugChanged events of each organization, in order
    born,           \* the slug it was created with (history)
    blurred,        \* organizations with two changes in flight at once, or
                    \* with an event lost (history)
    changes         \* changes so far

organizationsVars == <<slugOf, task, trail, born, blurred, changes>>

NoSlug == <<>>
NoTask == [pc |-> "idle", org |-> "none", base |-> "none", number |-> 0,
           old |-> NoSlug, new |-> NoSlug]

Tenant(o) == slugOf[o] # NoSlug
Release(m) == task' = [task EXCEPT ![m] = NoTask]
Changing(o) == {m \in Managers : task[m].org = o /\ task[m].pc \in {"check", "write", "publish"}}
Taken(slug, o) == \E q \in Tenants \ {o} : slugOf[q] = slug

OrganizationsInit ==
    /\ slugOf = [o \in Tenants |-> NoSlug]
    /\ task = [m \in Managers |-> NoTask]
    /\ trail = [o \in Tenants |-> <<>>]
    /\ born = [o \in Tenants |-> NoSlug]
    /\ blurred = {}
    /\ changes = 0

-----------------------------------------------------------------------------
StartCreateOrg(m) ==
    \E o \in Tenants, b \in Bases :
        /\ task[m].pc = "idle"
        /\ ~Tenant(o)
        /\ \A n \in Managers : task[n].org # o
        /\ task' = [task EXCEPT ![m] =
                [NoTask EXCEPT !.pc = "seek", !.org = o, !.base = b, !.number = 1]]
        /\ UNCHANGED <<slugOf, trail, born, blurred, changes>>

\* One turn of the loop around existsBySlug; reserved slugs are not skipped.
SeekOrgSlug(m) ==
    LET slug == <<task[m].base, task[m].number>> IN
    /\ task[m].pc = "seek"
    /\ task' = [task EXCEPT ![m] =
            IF Taken(slug, task[m].org) THEN [task[m] EXCEPT !.number = @ + 1]
            ELSE [task[m] EXCEPT !.pc = "insert", !.new = slug]]
    /\ UNCHANGED <<slugOf, trail, born, blurred, changes>>

\* createWithMemberAndAudit: fails where the slug has been taken meanwhile.
InsertOrg(m) ==
    LET o == task[m].org IN
    /\ task[m].pc = "insert"
    /\ ~Taken(task[m].new, o)
    /\ slugOf' = [slugOf EXCEPT ![o] = task[m].new]
    /\ born' = [born EXCEPT ![o] = task[m].new]
    /\ Release(m)
    /\ UNCHANGED <<trail, blurred, changes>>

-----------------------------------------------------------------------------
Wanted == (Bases \X {1, 2}) \ ReservedSlugs

\* The caller administers the organization, and wants another slug than the
\* one read.
StartChange(m) ==
    \E o \in Tenants, slug \in Wanted :
        /\ task[m].pc = "idle"
        /\ changes < MaxChanges
        /\ Tenant(o)
        /\ slug # slugOf[o]
        /\ changes' = changes + 1
        /\ task' = [task EXCEPT ![m] =
                [NoTask EXCEPT !.pc = "check", !.org = o, !.old = slugOf[o], !.new = slug]]
        /\ blurred' = IF Changing(o) = {} THEN blurred ELSE blurred \cup {o}
        /\ UNCHANGED <<slugOf, trail, born>>

\* existsBySlugExcept
CheckSlug(m) ==
    /\ task[m].pc = "check"
    /\ IF Taken(task[m].new, task[m].org) THEN Release(m)
       ELSE task' = [task EXCEPT ![m].pc = "write"]
    /\ UNCHANGED <<slugOf, trail, born, blurred, changes>>

WriteSlug(m) ==
    /\ task[m].pc = "write"
    /\ ~Taken(task[m].new, task[m].org)
    /\ slugOf' = [slugOf EXCEPT ![task[m].org] = task[m].new]
    /\ task' = [task EXCEPT ![m].pc = "publish"]
    /\ UNCHANGED <<trail, born, blurred, changes>>

\* The unique index fails the update, and with it the request.
AfterConflictTold(m) == [task[m] EXCEPT !.pc = "publish"]
AfterConflict(m) == NoTask

RefuseSlug(m) ==
    /\ task[m].pc = "write"
    /\ Taken(task[m].new, task[m].org)
    /\ task' = [task EXCEPT ![m] = AfterConflict(m)]
    /\ UNCHANGED <<slugOf, trail, born, blurred, changes>>

PublishSlug(m) ==
    /\ task[m].pc = "publish"
    /\ trail' = [trail EXCEPT ![task[m].org] =
            Append(@, [old |-> task[m].old, new |-> task[m].new])]
    /\ Release(m)
    /\ UNCHANGED <<slugOf, born, blurred, changes>>

\* A fault; between the commit and the publication it loses the event.
FailTask(m) ==
    /\ task[m].pc # "idle"
    /\ Release(m)
    /\ blurred' = IF task[m].pc = "publish" THEN blurred \cup {task[m].org} ELSE blurred
    /\ UNCHANGED <<slugOf, trail, born, changes>>

OrganizationsStep(m) ==
    \/ StartCreateOrg(m) \/ SeekOrgSlug(m) \/ InsertOrg(m)
    \/ StartChange(m) \/ CheckSlug(m) \/ WriteSlug(m) \/ RefuseSlug(m) \/ PublishSlug(m)
    \/ FailTask(m)

OrganizationsNext == \E m \in Managers : OrganizationsStep(m)

OrganizationsSpec == OrganizationsInit /\ [][OrganizationsNext]_organizationsVars

-----------------------------------------------------------------------------
\* Slugs have their type and differ (the unique index).
OrganizationsTypeOK ==
    /\ \A o, q \in Tenants :
        /\ Tenant(o) => slugOf[o] \in Bases \X (Nat \ {0})
        /\ Tenant(o) /\ slugOf[o] = slugOf[q] => o = q
    /\ blurred \subseteq Tenants
    /\ changes \in 0 .. MaxChanges

Before(o, i) == IF i = 1 THEN born[o] ELSE trail[o][i - 1].new

\* The SlugChanged events of an organization, read in order, lead from the
\* slug it was created with to the one it has, unless two changes of it were
\* in flight at once or an event was lost; and a reserved slug is always the
\* one an organization was created with.
SlugTrail ==
    \A o \in Tenants : Tenant(o) =>
        /\ slugOf[o] \in ReservedSlugs => slugOf[o] = born[o]
        /\ o \notin blurred =>
            /\ \A i \in DOMAIN trail[o] : trail[o][i].old = Before(o, i)
            /\ \/ slugOf[o] = Before(o, Len(trail[o]) + 1)
               \/ \E m \in Changing(o) : task[m].pc = "publish" /\ slugOf[o] = task[m].new
=============================================================================
