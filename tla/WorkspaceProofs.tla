--------------------------- MODULE WorkspaceProofs ---------------------------
(***************************************************************************)
(* Theorems about the parts of the workspace: the slugs of organizations,  *)
(* the usage summaries, and what holds of all parts side by side.          *)
(***************************************************************************)
EXTENDS Workspace, ProvidersProofs, PromptsProofs, FiniteSetTheorems

OrgSlugs == Bases \X (Nat \ {0})
Tasks == [pc : {"idle", "seek", "insert", "check", "write", "publish"},
          org : Tenants \cup {"none"}, base : Bases \cup {"none"}, number : Nat,
          old : OrgSlugs \cup {NoSlug}, new : OrgSlugs \cup {NoSlug}]

OrganizationsTyping ==
    /\ slugOf \in [Tenants -> OrgSlugs \cup {NoSlug}]
    /\ task \in [Managers -> Tasks]
    /\ trail \in [Tenants -> Seq([old : OrgSlugs, new : OrgSlugs])]
    /\ born \in [Tenants -> OrgSlugs \cup {NoSlug}]
    /\ blurred \subseteq Tenants
    /\ changes \in 0 .. MaxChanges

SlugsDiffer == \A o, q \in Tenants : Tenant(o) /\ slugOf[o] = slugOf[q] => o = q

\* A creation has its id to itself, which is no tenant yet; a change is of a
\* tenant, and to a slug that is not reserved.
Founding(m) == task[m].pc \in {"seek", "insert"}
InFlight(m) == task[m].pc \in {"check", "write", "publish"}
TasksMatch ==
    /\ \A m \in Managers :
        /\ Founding(m) => task[m].org \in Tenants /\ ~Tenant(task[m].org)
        /\ task[m].pc = "seek" => task[m].base \in Bases /\ task[m].number # 0
        /\ task[m].pc = "insert" => task[m].new \in OrgSlugs
        /\ InFlight(m) =>
            /\ task[m].org \in Tenants /\ Tenant(task[m].org)
            /\ task[m].old \in OrgSlugs /\ task[m].new \in OrgSlugs \ ReservedSlugs
    /\ \A m, n \in Managers : Founding(m) /\ Founding(n) /\ task[m].org = task[n].org => m = n

Unborn == \A o \in Tenants : ~Tenant(o) => trail[o] = <<>>

ReservedAreBorn ==
    \A o \in Tenants : Tenant(o) /\ slugOf[o] \in ReservedSlugs => slugOf[o] = born[o]

\* Where at most one change was in flight at a time and no event was lost, the
\* trail leads to the slug, or to the one that a change in flight has replaced.
Told(o) == Before(o, Len(trail[o]) + 1)
Traced(o) ==
    /\ \A i \in DOMAIN trail[o] : trail[o][i].old = Before(o, i)
    /\ \A m, n \in Changing(o) : m = n
    /\ \A m \in Changing(o) :
        /\ task[m].old = Told(o)
        /\ slugOf[o] = IF task[m].pc = "publish" THEN task[m].new ELSE Told(o)
    /\ Changing(o) = {} => slugOf[o] = Told(o)

AllTraced == \A o \in Tenants : Tenant(o) /\ o \notin blurred => Traced(o)

OrganizationsInv ==
    /\ OrganizationsTyping /\ SlugsDiffer /\ TasksMatch
    /\ Unborn /\ ReservedAreBorn /\ AllTraced

-----------------------------------------------------------------------------
LEMMA NoSlugIsNone == NoSlug \notin OrgSlugs
BY DEF NoSlug, OrgSlugs

LEMMA NoTaskTyped == NoTask \in Tasks /\ NoTask.pc = "idle"
BY DEF NoTask, Tasks

\* One request moves, the others stay.
LEMMA OneTask ==
    ASSUME OrganizationsTyping, NEW m \in Managers, NEW t \in Tasks,
           task' = [task EXCEPT ![m] = t]
    PROVE  /\ task' \in [Managers -> Tasks]
           /\ task'[m] = t
           /\ \A n \in Managers \ {m} : task'[n] = task[n]
BY DEF OrganizationsTyping

\* An organization whose rows, trail and changes in flight stay is traced as
\* it was.
LEMMA TracedKept ==
    ASSUME NEW o \in Tenants, Traced(o),
           slugOf'[o] = slugOf[o], trail'[o] = trail[o], born'[o] = born[o],
           Changing(o)' = Changing(o), \A m \in Changing(o) : task'[m] = task[m]
    PROVE  Traced(o)'
BY DEF Traced, Told, Before

\* A step that only gives m, which changes nothing before or after, another
\* local state keeps every organization traced.
LEMMA TracedWhenIdle ==
    ASSUME OrganizationsTyping, AllTraced, NEW m \in Managers, NEW t \in Tasks,
           task' = [task EXCEPT ![m] = t], ~InFlight(m),
           t.pc \notin {"check", "write", "publish"},
           UNCHANGED <<slugOf, trail, born, blurred>>
    PROVE  AllTraced'
<1>1. task'[m] = t /\ \A n \in Managers \ {m} : task'[n] = task[n]
  BY OneTask
<1> SUFFICES ASSUME NEW o \in Tenants, Tenant(o), o \notin blurred PROVE Traced(o)'
  BY DEF AllTraced, Tenant
<1>2. Changing(o)' = Changing(o) /\ \A n \in Changing(o) : task'[n] = task[n]
  BY <1>1 DEF Changing, InFlight
<1> QED BY <1>2, TracedKept DEF AllTraced

LEMMA OrganizationsInitHolds == OrganizationsInit => OrganizationsInv
<1> SUFFICES ASSUME OrganizationsInit PROVE OrganizationsInv
  OBVIOUS
<1>1. OrganizationsTyping
  BY NoTaskTyped, MaxChangesAssumption DEF OrganizationsInit, OrganizationsTyping
<1>2. \A o \in Tenants : ~Tenant(o)
  BY DEF OrganizationsInit, Tenant
<1>3. TasksMatch
  BY NoTaskTyped DEF OrganizationsInit, TasksMatch, Founding, InFlight
<1>4. Unborn
  BY DEF OrganizationsInit, Unborn
<1> QED BY <1>1, <1>2, <1>3, <1>4
       DEF OrganizationsInv, SlugsDiffer, ReservedAreBorn, AllTraced

LEMMA StartCreateOrgHolds ==
    ASSUME OrganizationsInv, NEW m \in Managers, StartCreateOrg(m)
    PROVE  OrganizationsInv'
<1>1. /\ OrganizationsTyping /\ SlugsDiffer /\ TasksMatch
      /\ Unborn /\ ReservedAreBorn /\ AllTraced
  BY DEF OrganizationsInv
<1>2. PICK o \in Tenants, b \in Bases :
        /\ ~Tenant(o)
        /\ \A n \in Managers : task[n].org # o
        /\ task' = [task EXCEPT ![m] =
                [NoTask EXCEPT !.pc = "seek", !.org = o, !.base = b, !.number = 1]]
  BY DEF StartCreateOrg
<1> DEFINE t == [NoTask EXCEPT !.pc = "seek", !.org = o, !.base = b, !.number = 1]
<1>3. /\ t \in Tasks /\ t.pc = "seek" /\ t.org = o /\ t.base \in Bases /\ t.number # 0
  <2>1. t \in Tasks
    BY NoTaskTyped DEF Tasks
  <2> QED BY <2>1, NoTaskTyped DEF Tasks
<1> HIDE DEF t
<1>4. task' = [task EXCEPT ![m] = t]
  BY <1>2 DEF t
<1>5. /\ task' \in [Managers -> Tasks] /\ task'[m] = t
      /\ \A n \in Managers \ {m} : task'[n] = task[n]
  BY <1>1, <1>3, <1>4, OneTask
<1>6. task[m].pc = "idle" /\ UNCHANGED <<slugOf, trail, born, blurred, changes>>
  BY DEF StartCreateOrg
<1>7. OrganizationsTyping' /\ SlugsDiffer' /\ Unborn' /\ ReservedAreBorn'
  BY <1>1, <1>5, <1>6 DEF OrganizationsTyping, SlugsDiffer, Unborn, ReservedAreBorn, Tenant
<1>8. TasksMatch'
  BY <1>1, <1>2, <1>3, <1>5, <1>6 DEF TasksMatch, Founding, InFlight, Tenant
<1>9. AllTraced'
  BY <1>1, <1>3, <1>4, <1>6, TracedWhenIdle DEF InFlight
<1> QED BY <1>7, <1>8, <1>9 DEF OrganizationsInv

LEMMA SeekOrgSlugHolds ==
    ASSUME OrganizationsInv, NEW m \in Managers, SeekOrgSlug(m)
    PROVE  OrganizationsInv'
<1>1. /\ OrganizationsTyping /\ SlugsDiffer /\ TasksMatch
      /\ Unborn /\ ReservedAreBorn /\ AllTraced
  BY DEF OrganizationsInv
<1> DEFINE slug == <<task[m].base, task[m].number>>
           next == [task[m] EXCEPT !.number = @ + 1]
           found == [task[m] EXCEPT !.pc = "insert", !.new = slug]
<1>2. task[m] \in Tasks /\ task[m].pc = "seek" /\ UNCHANGED <<slugOf, trail, born, blurred, changes>>
  BY <1>1 DEF SeekOrgSlug, OrganizationsTyping
<1>3. task[m].base \in Bases /\ task[m].number \in Nat \ {0}
  BY <1>1, <1>2 DEF TasksMatch, Tasks
<1>4. slug \in OrgSlugs
  BY <1>3 DEF OrgSlugs
<1>5. /\ next \in Tasks /\ next.pc = "seek" /\ next.org = task[m].org
      /\ next.base \in Bases /\ next.number # 0
  BY <1>2, <1>3 DEF Tasks
<1> HIDE DEF slug
<1>6. found \in Tasks /\ found.pc = "insert" /\ found.org = task[m].org /\ found.new \in OrgSlugs
  BY <1>2, <1>4 DEF Tasks
<1>7. task' = [task EXCEPT ![m] = next] \/ task' = [task EXCEPT ![m] = found]
  BY DEF SeekOrgSlug, slug
<1> HIDE DEF next, found
<1>8. PICK t \in Tasks :
        /\ task' = [task EXCEPT ![m] = t] /\ t.org = task[m].org
        /\ \/ t.pc = "seek" /\ t.base \in Bases /\ t.number # 0
           \/ t.pc = "insert" /\ t.new \in OrgSlugs
  BY <1>5, <1>6, <1>7
<1>9. /\ task' \in [Managers -> Tasks] /\ task'[m] = t
      /\ \A n \in Managers \ {m} : task'[n] = task[n]
  BY <1>1, <1>8, OneTask
<1>10. OrganizationsTyping' /\ SlugsDiffer' /\ Unborn' /\ ReservedAreBorn'
  BY <1>1, <1>2, <1>9 DEF OrganizationsTyping, SlugsDiffer, Unborn, ReservedAreBorn, Tenant
<1>11. TasksMatch'
  BY <1>1, <1>2, <1>8, <1>9 DEF TasksMatch, Founding, InFlight, Tenant
<1>12. AllTraced'
  BY <1>1, <1>2, <1>8, TracedWhenIdle DEF InFlight
<1> QED BY <1>10, <1>11, <1>12 DEF OrganizationsInv

\* A tenant's first slug: nothing was in flight for it, and nothing was told.
LEMMA InsertOrgHolds ==
    ASSUME OrganizationsInv, NEW m \in Managers, InsertOrg(m)
    PROVE  OrganizationsInv'
<1>1. /\ OrganizationsTyping /\ SlugsDiffer /\ TasksMatch
      /\ Unborn /\ ReservedAreBorn /\ AllTraced
  BY DEF OrganizationsInv
<1>a. task[m].pc = "insert" /\ task[m].org \in Tenants /\ task[m].new \in OrgSlugs
  BY <1>1 DEF InsertOrg, TasksMatch, Founding
<1>2. PICK o \in Tenants, slug \in OrgSlugs :
        /\ task[m].org = o /\ task[m].new = slug /\ ~Taken(slug, o)
        /\ slugOf' = [slugOf EXCEPT ![o] = slug] /\ born' = [born EXCEPT ![o] = slug]
        /\ task' = [task EXCEPT ![m] = NoTask]
        /\ UNCHANGED <<trail, blurred, changes>>
  BY <1>a DEF InsertOrg, Release
<1>3. ~Tenant(o)
  BY <1>1, <1>2, <1>a DEF TasksMatch, Founding
<1>4. /\ task' \in [Managers -> Tasks] /\ task'[m] = NoTask
      /\ \A n \in Managers \ {m} : task'[n] = task[n]
  BY <1>1, <1>2, NoTaskTyped, OneTask
<1>5. /\ slugOf'[o] = slug /\ born'[o] = slug
      /\ \A q \in Tenants \ {o} : slugOf'[q] = slugOf[q] /\ born'[q] = born[q]
  BY <1>1, <1>2, <1>3 DEF OrganizationsTyping
<1>6. \A q \in Tenants : Tenant(q)' <=> q = o \/ Tenant(q)
  BY <1>3, <1>5, NoSlugIsNone DEF Tenant
<1>7. OrganizationsTyping'
  BY <1>1, <1>2, <1>3, <1>4 DEF OrganizationsTyping
<1>8. SlugsDiffer'
  <2> SUFFICES ASSUME NEW p \in Tenants, NEW q \in Tenants, Tenant(p)',
                      slugOf'[p] = slugOf'[q]
               PROVE  p = q
    BY DEF SlugsDiffer
  <2>1. \A x \in Tenants \ {o} : slugOf[x] # slug
    BY <1>2 DEF Taken
  <2> QED BY <1>1, <1>5, <1>6, <2>1 DEF SlugsDiffer
<1>9. \A n \in Managers \ {m} : Founding(n) => task[n].org # o
  BY <1>1, <1>2, <1>a DEF TasksMatch, Founding
<1>10. TasksMatch'
  BY <1>1, <1>4, <1>6, <1>9, NoTaskTyped DEF TasksMatch, Founding, InFlight
<1>11. Unborn' /\ ReservedAreBorn'
  BY <1>1, <1>2, <1>5, <1>6 DEF Unborn, ReservedAreBorn
<1>12. Changing(o)' = {}
  <2>1. Changing(o) = {}
    BY <1>1, <1>3 DEF Changing, TasksMatch, InFlight
  <2> QED BY <1>4, <2>1, NoTaskTyped DEF Changing
<1>13. Traced(o)'
  <2>1. trail'[o] = <<>>
    BY <1>1, <1>2, <1>3 DEF Unborn
  <2>2. Told(o)' = slug
    BY <1>5, <2>1 DEF Told, Before
  <2> QED BY <1>5, <1>12, <2>1, <2>2 DEF Traced
<1>14. AllTraced'
  <2> SUFFICES ASSUME NEW q \in Tenants, Tenant(q)', q \notin blurred, q # o PROVE Traced(q)'
    BY <1>2, <1>13 DEF AllTraced
  <2>1. Tenant(q) /\ Traced(q) /\ slugOf'[q] = slugOf[q] /\ born'[q] = born[q]
    BY <1>1, <1>5, <1>6 DEF AllTraced
  <2>2. Changing(q)' = Changing(q) /\ \A n \in Changing(q) : task'[n] = task[n]
    BY <1>2, <1>4, <1>a, NoTaskTyped DEF Changing
  <2> QED BY <1>2, <2>1, <2>2, TracedKept
<1> QED BY <1>7, <1>8, <1>10, <1>11, <1>14 DEF OrganizationsInv

\* A change that begins reads the slug the trail leads to, or meets another
\* change of its organization.
LEMMA StartChangeHolds ==
    ASSUME OrganizationsInv, NEW m \in Managers, StartChange(m)
    PROVE  OrganizationsInv'
<1>1. /\ OrganizationsTyping /\ SlugsDiffer /\ TasksMatch
      /\ Unborn /\ ReservedAreBorn /\ AllTraced
  BY DEF OrganizationsInv
<1>2. PICK o \in Tenants, slug \in Wanted :
        /\ Tenant(o)
        /\ task' = [task EXCEPT ![m] =
                [NoTask EXCEPT !.pc = "check", !.org = o, !.old = slugOf[o], !.new = slug]]
        /\ blurred' = IF Changing(o) = {} THEN blurred ELSE blurred \cup {o}
  BY DEF StartChange
<1>3. /\ task[m].pc = "idle" /\ changes < MaxChanges /\ changes' = changes + 1
      /\ UNCHANGED <<slugOf, trail, born>>
  BY DEF StartChange
<1>4. slug \in OrgSlugs \ ReservedSlugs
  BY DEF Wanted, OrgSlugs
<1>5. slugOf[o] \in OrgSlugs
  BY <1>1, <1>2 DEF OrganizationsTyping, Tenant
<1> DEFINE t == [NoTask EXCEPT !.pc = "check", !.org = o, !.old = slugOf[o], !.new = slug]
<1>6. /\ t \in Tasks /\ t.pc = "check" /\ t.org = o /\ t.old = slugOf[o] /\ t.new = slug
  <2>1. t \in Tasks
    BY <1>4, <1>5, NoTaskTyped DEF Tasks
  <2> QED BY <2>1, NoTaskTyped DEF Tasks
<1>7. task' = [task EXCEPT ![m] = t]
  BY <1>2
<1> HIDE DEF t
<1>8. /\ task' \in [Managers -> Tasks] /\ task'[m] = t
      /\ \A n \in Managers \ {m} : task'[n] = task[n]
  BY <1>1, <1>6, <1>7, OneTask
<1>9. OrganizationsTyping'
  <2>1. changes' \in 0 .. MaxChanges
    BY <1>1, <1>3, MaxChangesAssumption DEF OrganizationsTyping
  <2> QED BY <1>1, <1>2, <1>3, <1>8, <2>1 DEF OrganizationsTyping
<1>10. SlugsDiffer' /\ Unborn' /\ ReservedAreBorn'
  BY <1>1, <1>3 DEF SlugsDiffer, Unborn, ReservedAreBorn, Tenant
<1>11. TasksMatch'
  BY <1>1, <1>2, <1>3, <1>4, <1>5, <1>6, <1>8 DEF TasksMatch, Founding, InFlight, Tenant
<1>12. AllTraced'
  <2> SUFFICES ASSUME NEW q \in Tenants, Tenant(q), q \notin blurred' PROVE Traced(q)'
    BY <1>3 DEF AllTraced, Tenant
  <2>1. Traced(q)
    BY <1>1, <1>2 DEF AllTraced
  <2>2. CASE q # o
    <3>1. Changing(q)' = Changing(q) /\ \A n \in Changing(q) : task'[n] = task[n]
      BY <1>3, <1>6, <1>8, <2>2 DEF Changing
    <3> QED BY <1>3, <2>1, <3>1, TracedKept
  <2>3. CASE q = o
    <3>1. Changing(o) = {}
      BY <1>2, <2>3
    <3>2. Changing(o)' = {m}
      BY <1>6, <1>8, <3>1 DEF Changing
    <3>3. slugOf[o] = Told(o) /\ Told(o)' = Told(o)
      BY <1>3, <2>1, <2>3, <3>1 DEF Traced, Told, Before
    <3>4. \A i \in DOMAIN trail'[o] : trail'[o][i].old = Before(o, i)'
      BY <1>3, <2>1, <2>3 DEF Traced, Before
    <3> QED BY <1>3, <1>6, <1>8, <2>3, <3>2, <3>3, <3>4 DEF Traced
  <2> QED BY <2>2, <2>3
<1> QED BY <1>9, <1>10, <1>11, <1>12 DEF OrganizationsInv

\* A request that ends keeps the invariant; where it had committed a slug and
\* published nothing yet, its organization must be blurred.
LEMMA EndHolds ==
    ASSUME OrganizationsInv, NEW m \in Managers, task' = [task EXCEPT ![m] = NoTask],
           UNCHANGED <<slugOf, trail, born, changes>>,
           blurred \subseteq blurred', blurred' \subseteq Tenants,
           task[m].pc = "publish" => task[m].org \in blurred'
    PROVE  OrganizationsInv'
<1>1. /\ OrganizationsTyping /\ SlugsDiffer /\ TasksMatch
      /\ Unborn /\ ReservedAreBorn /\ AllTraced
  BY DEF OrganizationsInv
<1>2. /\ task' \in [Managers -> Tasks] /\ task'[m] = NoTask
      /\ \A n \in Managers \ {m} : task'[n] = task[n]
  BY <1>1, NoTaskTyped, OneTask
<1>3. OrganizationsTyping' /\ SlugsDiffer' /\ Unborn' /\ ReservedAreBorn'
  BY <1>1, <1>2 DEF OrganizationsTyping, SlugsDiffer, Unborn, ReservedAreBorn, Tenant
<1>4. TasksMatch'
  BY <1>1, <1>2, NoTaskTyped DEF TasksMatch, Founding, InFlight, Tenant
<1>5. AllTraced'
  <2> SUFFICES ASSUME NEW o \in Tenants, Tenant(o), o \notin blurred' PROVE Traced(o)'
    BY DEF AllTraced, Tenant
  <2>1. Traced(o)
    BY <1>1 DEF AllTraced
  <2>2. Changing(o)' = Changing(o) \ {m} /\ \A n \in Changing(o) \ {m} : task'[n] = task[n]
    BY <1>2, NoTaskTyped DEF Changing
  <2>3. CASE m \notin Changing(o)
    <3>1. Changing(o)' = Changing(o) /\ \A n \in Changing(o) : task'[n] = task[n]
      BY <2>2, <2>3
    <3> QED BY <2>1, <3>1, TracedKept
  <2>4. CASE m \in Changing(o)
    <3>1. Changing(o)' = {}
      BY <2>1, <2>2, <2>4 DEF Traced
    <3>2. task[m].pc # "publish"
      BY <2>4 DEF Changing
    <3>3. slugOf[o] = Told(o) /\ Told(o)' = Told(o)
      BY <2>1, <2>4, <3>2 DEF Traced, Told, Before
    <3>4. \A i \in DOMAIN trail'[o] : trail'[o][i].old = Before(o, i)'
      BY <2>1 DEF Traced, Before
    <3> QED BY <3>1, <3>3, <3>4 DEF Traced
  <2> QED BY <2>3, <2>4
<1> QED BY <1>3, <1>4, <1>5 DEF OrganizationsInv

LEMMA CheckSlugHolds ==
    ASSUME OrganizationsInv, NEW m \in Managers, CheckSlug(m)
    PROVE  OrganizationsInv'
<1>1. /\ OrganizationsTyping /\ SlugsDiffer /\ TasksMatch
      /\ Unborn /\ ReservedAreBorn /\ AllTraced
  BY DEF OrganizationsInv
<1>2. task[m].pc = "check" /\ UNCHANGED <<slugOf, trail, born, blurred, changes>>
  BY DEF CheckSlug
<1>3. CASE task' = [task EXCEPT ![m] = NoTask]
  BY <1>1, <1>2, <1>3, EndHolds DEF OrganizationsTyping
<1>4. CASE task' = [task EXCEPT ![m].pc = "write"]
  <2>1. PICK t \in Tasks :
          /\ task' = [task EXCEPT ![m] = t] /\ t.pc = "write"
          /\ t.org = task[m].org /\ t.old = task[m].old /\ t.new = task[m].new
    <3> DEFINE t == [task[m] EXCEPT !.pc = "write"]
    <3>1. task[m] \in Tasks
      BY <1>1 DEF OrganizationsTyping
    <3>2. /\ t \in Tasks /\ t.pc = "write"
          /\ t.org = task[m].org /\ t.old = task[m].old /\ t.new = task[m].new
      BY <3>1 DEF Tasks
    <3>3. task' = [task EXCEPT ![m] = t]
      BY <1>1, <1>4 DEF OrganizationsTyping
    <3> HIDE DEF t
    <3> QED BY <3>2, <3>3
  <2>2. /\ task' \in [Managers -> Tasks] /\ task'[m] = t
        /\ \A n \in Managers \ {m} : task'[n] = task[n]
    BY <1>1, <2>1, OneTask
  <2>3. OrganizationsTyping' /\ SlugsDiffer' /\ Unborn' /\ ReservedAreBorn'
    BY <1>1, <1>2, <2>2 DEF OrganizationsTyping, SlugsDiffer, Unborn, ReservedAreBorn, Tenant
  <2>4. TasksMatch'
    BY <1>1, <1>2, <2>1, <2>2 DEF TasksMatch, Founding, InFlight, Tenant
  <2>5. AllTraced'
    <3> SUFFICES ASSUME NEW o \in Tenants, Tenant(o), o \notin blurred PROVE Traced(o)'
      BY <1>2 DEF AllTraced, Tenant
    <3>1. Changing(o)' = Changing(o)
      BY <1>2, <2>1, <2>2 DEF Changing
    <3>2. Told(o)' = Told(o) /\ Traced(o) /\ \A i \in DOMAIN trail[o] : Before(o, i)' = Before(o, i)
      BY <1>1, <1>2 DEF Told, Before, AllTraced
    <3> QED BY <1>2, <2>1, <2>2, <3>1, <3>2 DEF Traced
  <2> QED BY <2>3, <2>4, <2>5 DEF OrganizationsInv
<1> QED BY <1>3, <1>4 DEF CheckSlug, Release

\* The new slug is no one's, is not reserved, and waits to be told.
LEMMA WriteSlugHolds ==
    ASSUME OrganizationsInv, NEW m \in Managers, WriteSlug(m)
    PROVE  OrganizationsInv'
<1>1. /\ OrganizationsTyping /\ SlugsDiffer /\ TasksMatch
      /\ Unborn /\ ReservedAreBorn /\ AllTraced
  BY DEF OrganizationsInv
<1>2. /\ task[m].pc = "write" /\ task[m].org \in Tenants /\ Tenant(task[m].org)
      /\ task[m].old \in OrgSlugs /\ task[m].new \in OrgSlugs \ ReservedSlugs
  BY <1>1 DEF WriteSlug, TasksMatch, InFlight
<1>3. PICK o \in Tenants, slug \in OrgSlugs \ ReservedSlugs :
        /\ task[m].org = o /\ task[m].new = slug /\ Tenant(o) /\ ~Taken(slug, o)
        /\ slugOf' = [slugOf EXCEPT ![o] = slug]
        /\ task' = [task EXCEPT ![m].pc = "publish"]
        /\ UNCHANGED <<trail, born, blurred, changes>>
  BY <1>2 DEF WriteSlug
<1>4. PICK t \in Tasks :
        /\ task' = [task EXCEPT ![m] = t] /\ t.pc = "publish"
        /\ t.org = o /\ t.old = task[m].old /\ t.new = slug
  <2> DEFINE t == [task[m] EXCEPT !.pc = "publish"]
  <2>1. task[m] \in Tasks
    BY <1>1 DEF OrganizationsTyping
  <2>2. /\ t \in Tasks /\ t.pc = "publish" /\ t.org = o /\ t.old = task[m].old /\ t.new = slug
    BY <1>3, <2>1 DEF Tasks
  <2>3. task' = [task EXCEPT ![m] = t]
    BY <1>1, <1>3 DEF OrganizationsTyping
  <2> HIDE DEF t
  <2> QED BY <2>2, <2>3
<1>5. /\ task' \in [Managers -> Tasks] /\ task'[m] = t
      /\ \A n \in Managers \ {m} : task'[n] = task[n]
  BY <1>1, <1>4, OneTask
<1>6. slugOf'[o] = slug /\ \A q \in Tenants \ {o} : slugOf'[q] = slugOf[q]
  BY <1>1, <1>3 DEF OrganizationsTyping
<1>7. \A q \in Tenants : Tenant(q)' <=> Tenant(q)
  BY <1>3, <1>6, NoSlugIsNone DEF Tenant
<1>8. OrganizationsTyping'
  BY <1>1, <1>3, <1>5 DEF OrganizationsTyping
<1>9. SlugsDiffer'
  <2> SUFFICES ASSUME NEW p \in Tenants, NEW q \in Tenants, Tenant(p)',
                      slugOf'[p] = slugOf'[q]
               PROVE  p = q
    BY DEF SlugsDiffer
  <2>1. \A x \in Tenants \ {o} : slugOf[x] # slug
    BY <1>3 DEF Taken
  <2> QED BY <1>1, <1>6, <1>7, <2>1 DEF SlugsDiffer
<1>10. TasksMatch'
  BY <1>1, <1>2, <1>3, <1>4, <1>5, <1>7 DEF TasksMatch, Founding, InFlight
<1>11. Unborn' /\ ReservedAreBorn'
  BY <1>1, <1>3, <1>6, <1>7 DEF Unborn, ReservedAreBorn
<1>12. AllTraced'
  <2> SUFFICES ASSUME NEW q \in Tenants, Tenant(q), q \notin blurred PROVE Traced(q)'
    BY <1>3, <1>7 DEF AllTraced
  <2>1. Traced(q)
    BY <1>1 DEF AllTraced
  <2>2. Changing(q)' = Changing(q) /\ \A n \in Changing(q) \ {m} : task'[n] = task[n]
    BY <1>2, <1>3, <1>4, <1>5 DEF Changing
  <2>3. CASE q # o
    <3>1. m \notin Changing(q)
      BY <1>3, <2>3 DEF Changing
    <3> QED BY <1>3, <1>6, <2>1, <2>2, <2>3, <3>1, TracedKept
  <2>4. CASE q = o
    <3>1. m \in Changing(o)
      BY <1>2, <1>3 DEF Changing
    <3>2. Told(o)' = Told(o) /\ \A i \in DOMAIN trail[o] : Before(o, i)' = Before(o, i)
      BY <1>3 DEF Told, Before
    <3> QED BY <1>3, <1>4, <1>5, <1>6, <2>1, <2>2, <2>4, <3>1, <3>2 DEF Traced
  <2> QED BY <2>3, <2>4
<1> QED BY <1>8, <1>9, <1>10, <1>11, <1>12 DEF OrganizationsInv

\* What is told is what was committed last.
LEMMA PublishSlugHolds ==
    ASSUME OrganizationsInv, NEW m \in Managers, PublishSlug(m)
    PROVE  OrganizationsInv'
<1>1. /\ OrganizationsTyping /\ SlugsDiffer /\ TasksMatch
      /\ Unborn /\ ReservedAreBorn /\ AllTraced
  BY DEF OrganizationsInv
<1>2. /\ task[m].pc = "publish" /\ task[m].org \in Tenants /\ Tenant(task[m].org)
      /\ task[m].old \in OrgSlugs /\ task[m].new \in OrgSlugs
  BY <1>1 DEF PublishSlug, TasksMatch, InFlight
<1>3. PICK o \in Tenants, e \in [old : OrgSlugs, new : OrgSlugs] :
        /\ task[m].org = o /\ task[m].old = e.old /\ task[m].new = e.new /\ Tenant(o)
        /\ trail' = [trail EXCEPT ![o] = Append(@, e)]
        /\ task' = [task EXCEPT ![m] = NoTask]
        /\ UNCHANGED <<slugOf, born, blurred, changes>>
  <2> DEFINE e == [old |-> task[m].old, new |-> task[m].new]
  <2>1. e \in [old : OrgSlugs, new : OrgSlugs] /\ e.old = task[m].old /\ e.new = task[m].new
    BY <1>2
  <2> QED BY <1>2, <2>1 DEF PublishSlug, Release
<1>4. /\ task' \in [Managers -> Tasks] /\ task'[m] = NoTask
      /\ \A n \in Managers \ {m} : task'[n] = task[n]
  BY <1>1, <1>3, NoTaskTyped, OneTask
<1>5. trail'[o] = Append(trail[o], e) /\ \A q \in Tenants \ {o} : trail'[q] = trail[q]
  BY <1>1, <1>3 DEF OrganizationsTyping
<1>6. trail[o] \in Seq([old : OrgSlugs, new : OrgSlugs])
  BY <1>1 DEF OrganizationsTyping
<1>7. OrganizationsTyping'
  <2>1. Append(trail[o], e) \in Seq([old : OrgSlugs, new : OrgSlugs])
    BY <1>6
  <2> QED BY <1>1, <1>3, <1>4, <2>1 DEF OrganizationsTyping
<1>8. SlugsDiffer' /\ ReservedAreBorn'
  BY <1>1, <1>3 DEF SlugsDiffer, ReservedAreBorn, Tenant
<1>9. Unborn'
  BY <1>1, <1>3, <1>5 DEF Unborn, Tenant
<1>10. TasksMatch'
  BY <1>1, <1>3, <1>4, NoTaskTyped DEF TasksMatch, Founding, InFlight, Tenant
<1>11. AllTraced'
  <2> SUFFICES ASSUME NEW q \in Tenants, Tenant(q), q \notin blurred PROVE Traced(q)'
    BY <1>3 DEF AllTraced, Tenant
  <2>1. Traced(q)
    BY <1>1 DEF AllTraced
  <2>2. Changing(q)' = Changing(q) \ {m} /\ \A n \in Changing(q) \ {m} : task'[n] = task[n]
    BY <1>4, NoTaskTyped DEF Changing
  <2>3. CASE q # o
    <3>1. m \notin Changing(q)
      BY <1>3, <2>3 DEF Changing
    <3>2. Changing(q)' = Changing(q) /\ \A n \in Changing(q) : task'[n] = task[n]
      BY <2>2, <3>1
    <3> QED BY <1>3, <1>5, <2>1, <2>3, <3>2, TracedKept
  <2>4. CASE q = o
    <3>1. m \in Changing(o)
      BY <1>2, <1>3 DEF Changing
    <3>2. Changing(o)' = {}
      BY <2>1, <2>2, <2>4, <3>1 DEF Traced
    <3>3. e.old = Told(o) /\ slugOf[o] = e.new
      BY <1>2, <1>3, <2>1, <2>4, <3>1 DEF Traced
    <3>4. PICK n \in Nat :
            /\ n = Len(trail[o]) /\ DOMAIN trail[o] = 1 .. n
            /\ Len(trail'[o]) = n + 1 /\ DOMAIN trail'[o] = 1 .. n + 1
            /\ trail'[o][n + 1] = e /\ \A i \in 1 .. n : trail'[o][i] = trail[o][i]
      <4>1. /\ Len(trail[o]) \in Nat /\ DOMAIN trail[o] = 1 .. Len(trail[o])
            /\ Len(trail'[o]) = Len(trail[o]) + 1 /\ DOMAIN trail'[o] = 1 .. Len(trail[o]) + 1
            /\ trail'[o][Len(trail[o]) + 1] = e
            /\ \A i \in 1 .. Len(trail[o]) : trail'[o][i] = trail[o][i]
        BY <1>5, <1>6
      <4> QED BY <4>1
    <3>5. Told(o)' = e.new
      BY <3>4 DEF Told, Before
    <3>6. \A i \in 1 .. n + 1 : Before(o, i)' = Before(o, i)
      BY <1>3, <3>4 DEF Before
    <3>7. \A i \in 1 .. n : trail'[o][i].old = Before(o, i)'
      BY <2>1, <2>4, <3>4, <3>6 DEF Traced
    <3>8. trail'[o][n + 1].old = Before(o, n + 1)'
      BY <3>3, <3>4, <3>6 DEF Told
    <3>9. \A i \in DOMAIN trail'[o] : trail'[o][i].old = Before(o, i)'
      BY <3>4, <3>7, <3>8
    <3> QED BY <1>3, <2>4, <3>2, <3>3, <3>5, <3>9 DEF Traced
  <2> QED BY <2>3, <2>4
<1> QED BY <1>7, <1>8, <1>9, <1>10, <1>11 DEF OrganizationsInv

LEMMA OrganizationsNextHolds ==
    OrganizationsInv /\ [OrganizationsNext]_organizationsVars => OrganizationsInv'
<1> SUFFICES ASSUME OrganizationsInv, [OrganizationsNext]_organizationsVars
             PROVE  OrganizationsInv'
  OBVIOUS
<1>1. OrganizationsTyping /\ TasksMatch
  BY DEF OrganizationsInv
<1>2. CASE UNCHANGED organizationsVars
  <2>1. UNCHANGED <<slugOf, task, trail, born, blurred, changes>>
    BY <1>2 DEF organizationsVars
  <2>2. OrganizationsTyping' /\ SlugsDiffer' /\ Unborn' /\ ReservedAreBorn'
    BY <2>1 DEF OrganizationsInv, OrganizationsTyping, SlugsDiffer, Unborn, ReservedAreBorn, Tenant
  <2>3. TasksMatch'
    BY <1>1, <2>1 DEF TasksMatch, Founding, InFlight, Tenant
  <2>4. \A o \in Tenants : Changing(o)' = Changing(o)
    BY <2>1 DEF Changing
  <2>5. AllTraced'
    BY <2>1, <2>4, TracedKept DEF OrganizationsInv, AllTraced, Tenant
  <2> QED BY <2>2, <2>3, <2>5 DEF OrganizationsInv
<1>3. ASSUME NEW m \in Managers, RefuseSlug(m) PROVE OrganizationsInv'
  BY <1>1, <1>3, EndHolds DEF RefuseSlug, AfterConflict, OrganizationsTyping
<1>4. ASSUME NEW m \in Managers, FailTask(m) PROVE OrganizationsInv'
  <2>1. task[m].pc = "publish" => task[m].org \in Tenants
    BY <1>1 DEF TasksMatch, InFlight
  <2>2. /\ blurred \subseteq blurred' /\ blurred' \subseteq Tenants
        /\ task[m].pc = "publish" => task[m].org \in blurred'
    BY <1>1, <1>4, <2>1 DEF FailTask, OrganizationsTyping
  <2> QED BY <1>4, <2>2, EndHolds DEF FailTask, Release
<1> QED BY <1>2, <1>3, <1>4, StartCreateOrgHolds, SeekOrgSlugHolds, InsertOrgHolds,
          StartChangeHolds, CheckSlugHolds, WriteSlugHolds, PublishSlugHolds
       DEF OrganizationsNext, OrganizationsStep

\* No two organizations have one slug (the unique index over what the checks
\* of requests in flight let through), and every slug a request holds, looks
\* for or writes is one.
THEOREM OrganizationsTyped == OrganizationsSpec => []OrganizationsTypeOK
<1>1. OrganizationsInv => OrganizationsTypeOK
  BY DEF OrganizationsInv, OrganizationsTyping, OrganizationsTypeOK, SlugsDiffer, OrgSlugs, Tenant
<1> QED BY <1>1, OrganizationsInitHolds, OrganizationsNextHolds, PTL DEF OrganizationsSpec

\* The events of an organization read in order lead to its slug, unless
\* changes of it overlapped or an event was lost between commit and
\* publication; and nobody changes to a reserved slug.
THEOREM TrailsLeadToSlugs == OrganizationsSpec => []SlugTrail
<1>1. OrganizationsInv => SlugTrail
  <2> SUFFICES ASSUME OrganizationsInv, NEW o \in Tenants, Tenant(o), o \notin blurred
               PROVE  /\ \A i \in DOMAIN trail[o] : trail[o][i].old = Before(o, i)
                      /\ \/ slugOf[o] = Told(o)
                         \/ \E m \in Changing(o) : task[m].pc = "publish" /\ slugOf[o] = task[m].new
    BY DEF OrganizationsInv, ReservedAreBorn, SlugTrail, Told
  <2>1. Traced(o)
    BY DEF OrganizationsInv, AllTraced
  <2> QED BY <2>1 DEF Traced
<1> QED BY <1>1, OrganizationsInitHolds, OrganizationsNextHolds, PTL DEF OrganizationsSpec

-----------------------------------------------------------------------------
\* Usage summaries.  Rows are only ever added, so what has been counted stays
\* a lower bound of what there is to count.
LogRows == [status : Statuses, day : 0 .. MaxLogs]
Counts == [Statuses -> 0 .. MaxLogs]
Summaries == [pc : {0, 1, 2, 3}, since : Int, until : Int, requests : Nat,
              byStatus : Counts]

AnalyticsTyping ==
    /\ logs \in Seq(LogRows) /\ Len(logs) <= MaxLogs
    /\ today \in 0 .. MaxLogs
    /\ summary \in [Readers -> Summaries]

Outcomes(by) == by["SUCCESS"] + by["FAILED"] + by["CANCELLED"]
Counted(r) ==
    /\ summary[r].pc = 2 => summary[r].requests <= Cardinality(Within(r))
    /\ summary[r].pc = 3 =>
        /\ summary[r].requests <= Outcomes(summary[r].byStatus)
        /\ Outcomes(summary[r].byStatus) <= Cardinality(Within(r))

AnalyticsInv == AnalyticsTyping /\ \A r \in Readers : Counted(r)

LEMMA NoSummaryTyped == NoSummaryYet \in Summaries
BY BoundsAssumption DEF NoSummaryYet, NoCounts, Summaries, Counts

LEMMA PartOfInterval ==
    ASSUME NEW n \in Nat, NEW S \in SUBSET (1 .. n)
    PROVE  IsFiniteSet(S) /\ Cardinality(S) \in 0 .. n
<1>1. IsFiniteSet(1 .. n) /\ Cardinality(1 .. n) = IF 1 > n THEN 0 ELSE n - 1 + 1
  <2>1. 1 \in Int /\ n \in Int
    OBVIOUS
  <2> QED BY <2>1, FS_Interval, Zenon
<1>2. IsFiniteSet(S) /\ Cardinality(S) <= Cardinality(1 .. n)
  BY <1>1, FS_Subset, Zenon
<1>3. Cardinality(S) \in Nat
  BY <1>2, FS_CardinalityType, Zenon
<1> QED BY <1>1, <1>2, <1>3

\* What a query finds is finite, no more than the rows there are, and never
\* fewer than an earlier query of the same range found.
LEMMA WithinIsFinite ==
    ASSUME AnalyticsTyping, NEW r \in Readers, NEW S \in SUBSET Within(r)
    PROVE  IsFiniteSet(S) /\ Cardinality(S) \in 0 .. MaxLogs
<1>1. S \subseteq 1 .. Len(logs) /\ Len(logs) \in 0 .. MaxLogs
  BY BoundsAssumption DEF Within, AnalyticsTyping
<1>2. IsFiniteSet(S) /\ Cardinality(S) \in 0 .. Len(logs)
  BY <1>1, PartOfInterval
<1> QED BY <1>1, <1>2, BoundsAssumption

LEMMA DisjointUnion ==
    ASSUME NEW S, NEW T, IsFiniteSet(S), IsFiniteSet(T), S \cap T = {}
    PROVE  /\ IsFiniteSet(S \cup T)
           /\ Cardinality(S \cup T) = Cardinality(S) + Cardinality(T)
<1>1. /\ IsFiniteSet(S \cup T)
      /\ Cardinality(S \cup T) = Cardinality(S) + Cardinality(T) - Cardinality(S \cap T)
  BY FS_Union, Zenon
<1>2. Cardinality({}) = 0 /\ Cardinality(S) \in Nat /\ Cardinality(T) \in Nat
  BY FS_EmptySet, FS_CardinalityType, Zenon
<1>3. Cardinality(S \cap T) = Cardinality({})
  BY Zenon
<1>4. ASSUME NEW a, NEW b \in Nat, NEW c \in Nat, NEW d, a = b + c - d, d = 0
      PROVE  a = b + c
  BY <1>4
<1> QED BY <1>1, <1>2, <1>3, <1>4, Zenon

\* Each row counts under one status and no other.
LEMMA StatusesSplit ==
    ASSUME AnalyticsTyping, NEW r \in Readers, NEW by,
           by = [s \in Statuses |-> Cardinality({i \in Within(r) : logs[i].status = s})]
    PROVE  by \in Counts /\ Outcomes(by) = Cardinality(Within(r))
<1> DEFINE Of(s) == {i \in Within(r) : logs[i].status = s}
<1>1. \A s \in Statuses : IsFiniteSet(Of(s)) /\ Cardinality(Of(s)) \in 0 .. MaxLogs
  BY WithinIsFinite
<1>2. Within(r) = (Of("SUCCESS") \cup Of("FAILED")) \cup Of("CANCELLED")
  <2>1. \A i \in Within(r) : logs[i].status \in {"SUCCESS", "FAILED", "CANCELLED"}
    <3>1. \A i \in DOMAIN logs : logs[i] \in LogRows
      BY DEF AnalyticsTyping
    <3>2. Within(r) \subseteq DOMAIN logs
      BY DEF Within
    <3> QED BY <3>1, <3>2 DEF LogRows, Statuses
  <2> QED BY <2>1
<1>3. /\ Of("SUCCESS") \cap Of("FAILED") = {}
      /\ (Of("SUCCESS") \cup Of("FAILED")) \cap Of("CANCELLED") = {}
  OBVIOUS
<1>4. \A s \in Statuses : by[s] = Cardinality(Of(s))
  OBVIOUS
<1>5. by \in Counts
  BY <1>1, <1>4 DEF Counts
<1> HIDE DEF Of
<1>6. /\ IsFiniteSet(Of("SUCCESS") \cup Of("FAILED"))
      /\ Cardinality(Of("SUCCESS") \cup Of("FAILED"))
            = Cardinality(Of("SUCCESS")) + Cardinality(Of("FAILED"))
  <2>1. /\ IsFiniteSet(Of("SUCCESS")) /\ Cardinality(Of("SUCCESS")) \in Nat
        /\ IsFiniteSet(Of("FAILED")) /\ Cardinality(Of("FAILED")) \in Nat
    BY <1>1, BoundsAssumption DEF Statuses
  <2> QED BY <1>3, <2>1, DisjointUnion
<1>7. Cardinality(Within(r)) =
        Cardinality(Of("SUCCESS") \cup Of("FAILED")) + Cardinality(Of("CANCELLED"))
  <2>1. /\ Cardinality(Of("SUCCESS") \cup Of("FAILED")) \in Nat
        /\ IsFiniteSet(Of("CANCELLED")) /\ Cardinality(Of("CANCELLED")) \in Nat
    BY <1>1, <1>6, BoundsAssumption DEF Statuses
  <2> QED BY <1>2, <1>3, <1>6, <2>1, DisjointUnion
<1> QED BY <1>1, <1>4, <1>5, <1>6, <1>7 DEF Outcomes, Statuses

LEMMA AnalyticsInitHolds == AnalyticsInit => AnalyticsInv
<1> SUFFICES ASSUME AnalyticsInit PROVE AnalyticsInv
  OBVIOUS
<1>1. AnalyticsTyping
  BY NoSummaryTyped, BoundsAssumption DEF AnalyticsInit, AnalyticsTyping
<1> QED BY <1>1 DEF AnalyticsInit, AnalyticsInv, Counted, NoSummaryYet

LEMMA InsertLogHolds ==
    ASSUME AnalyticsInv, InsertLog
    PROVE  AnalyticsInv'
<1>1. AnalyticsTyping
  BY DEF AnalyticsInv
<1>2. PICK row \in LogRows : logs' = Append(logs, row)
  BY <1>1 DEF InsertLog, LogRows, AnalyticsTyping
<1>3. Len(logs) < MaxLogs /\ UNCHANGED <<today, summary>>
  BY DEF InsertLog
<1>4. AnalyticsTyping'
  BY <1>1, <1>2, <1>3, BoundsAssumption DEF AnalyticsTyping
<1>5. ASSUME NEW r \in Readers PROVE Counted(r)'
  <2>1. Within(r) \subseteq Within(r)'
    BY <1>1, <1>2, <1>3 DEF Within, AnalyticsTyping
  <2>2. IsFiniteSet(Within(r)') /\ Cardinality(Within(r)') \in Nat
    <3>1. Within(r)' \subseteq 1 .. Len(logs') /\ Len(logs') \in Nat
      BY <1>4 DEF Within, AnalyticsTyping
    <3> QED BY <3>1, PartOfInterval
  <2>3. Cardinality(Within(r)) <= Cardinality(Within(r)') /\ Cardinality(Within(r)) \in Nat
    BY <2>1, <2>2, FS_Subset, FS_CardinalityType
  <2>4. Counted(r) /\ summary[r] \in Summaries
    BY <1>1 DEF AnalyticsInv, AnalyticsTyping
  <2>5. Outcomes(summary[r].byStatus) \in Nat /\ summary[r].requests \in Nat
    BY <2>4, BoundsAssumption DEF Summaries, Counts, Outcomes, Statuses
  <2>6. Outcomes(summary[r].byStatus)' = Outcomes(summary[r].byStatus)
    BY <1>3
  <2> QED BY <1>3, <2>2, <2>3, <2>4, <2>5, <2>6 DEF Counted
<1> QED BY <1>4, <1>5 DEF AnalyticsInv

\* A reader's own step counts for it, and takes nothing from the others.
LEMMA OneReader ==
    ASSUME AnalyticsInv, NEW r \in Readers, NEW t \in Summaries,
           summary' = [summary EXCEPT ![r] = t], UNCHANGED <<logs, today>>,
           Counted(r)'
    PROVE  AnalyticsInv'
<1>1. AnalyticsTyping'
  BY DEF AnalyticsInv, AnalyticsTyping
<1>2. ASSUME NEW q \in Readers, q # r PROVE Counted(q)'
  <2>1. summary'[q] = summary[q]
    BY <1>2 DEF AnalyticsInv, AnalyticsTyping
  <2>2. Within(q)' = Within(q)
    BY <2>1 DEF Within
  <2> QED BY <2>1, <2>2 DEF AnalyticsInv, Counted, Outcomes
<1> QED BY <1>1, <1>2 DEF AnalyticsInv

LEMMA ReaderHolds ==
    ASSUME AnalyticsInv, NEW r \in Readers,
           StartSummary(r) \/ CountRequests(r) \/ CountByStatus(r)
    PROVE  AnalyticsInv'
<1>1. AnalyticsTyping /\ Counted(r) /\ summary[r] \in Summaries /\ UNCHANGED <<logs, today>>
  BY DEF AnalyticsInv, AnalyticsTyping, StartSummary, CountRequests, CountByStatus
<1>2. CASE StartSummary(r)
  <2>1. \A span \in Spans : span.since \in Int /\ span.until \in Int
    BY <1>1, BoundsAssumption DEF Spans, AnalyticsTyping
  <2>2. PICK t \in Summaries : summary' = [summary EXCEPT ![r] = t] /\ t.pc = 1
    <3>1. PICK span \in Spans : summary' = [summary EXCEPT ![r] =
            [NoSummaryYet EXCEPT !.pc = 1, !.since = span.since, !.until = span.until]]
      BY <1>2 DEF StartSummary
    <3> DEFINE t == [NoSummaryYet EXCEPT !.pc = 1, !.since = span.since, !.until = span.until]
    <3>2. t \in Summaries
      BY <2>1, <3>1, NoSummaryTyped DEF Summaries
    <3>3. t.pc = 1
      BY DEF NoSummaryYet
    <3> HIDE DEF t
    <3>4. summary' = [summary EXCEPT ![r] = t]
      BY <3>1 DEF t
    <3> QED BY <3>2, <3>3, <3>4
  <2>3. summary'[r] = t
    BY <1>1, <2>2 DEF AnalyticsTyping
  <2>4. Counted(r)'
    BY <2>2, <2>3 DEF Counted
  <2> QED BY <1>1, <2>2, <2>4, OneReader
<1>3. CASE CountRequests(r)
  <2>1. summary[r].pc = 1
    BY <1>1, <1>3 DEF CountRequests, Queries, Summaries
  <2>2. PICK n \in Nat : n = Cardinality(Within(r))
    BY <1>1, WithinIsFinite, BoundsAssumption
  <2>3. PICK t \in Summaries :
          /\ summary' = [summary EXCEPT ![r] = t] /\ t.pc = 2 /\ t.requests = n
          /\ t.since = summary[r].since /\ t.until = summary[r].until
    <3> DEFINE t == [summary[r] EXCEPT !.pc = 2, !.requests = n]
    <3>1. /\ t \in Summaries /\ t.pc = 2 /\ t.requests = n
          /\ t.since = summary[r].since /\ t.until = summary[r].until
      BY <1>1, <2>2 DEF Summaries
    <3>2. summary' = [summary EXCEPT ![r] = t]
      <4>1. summary \in [Readers -> Summaries]
        BY <1>1 DEF AnalyticsTyping
      <4>2. summary' = [summary EXCEPT ![r].pc = @ + 1, ![r].requests = n]
        BY <1>3, <2>2 DEF CountRequests
      <4>3. summary' = [summary EXCEPT ![r].pc = 2, ![r].requests = n]
        BY <2>1, <4>1, <4>2
      <4> QED BY <4>1, <4>3
    <3> HIDE DEF t
    <3> QED BY <3>1, <3>2
  <2>4. summary'[r] = t
    BY <1>1, <2>3 DEF AnalyticsTyping
  <2>5. Within(r)' = Within(r)
    BY <1>1, <2>3, <2>4 DEF Within
  <2>6. Counted(r)'
    BY <2>2, <2>3, <2>4, <2>5 DEF Counted
  <2> QED BY <1>1, <2>3, <2>6, OneReader
<1>4. CASE CountByStatus(r)
  <2>1. summary[r].pc = 2
    BY <1>1, <1>4 DEF CountByStatus, Queries, Summaries
  <2>2. PICK by \in Counts :
          /\ by = [s \in Statuses |-> Cardinality({i \in Within(r) : logs[i].status = s})]
          /\ Outcomes(by) = Cardinality(Within(r))
    BY <1>1, StatusesSplit
  <2>3. PICK t \in Summaries :
          /\ summary' = [summary EXCEPT ![r] = t] /\ t.pc = 3 /\ t.byStatus = by
          /\ t.requests = summary[r].requests
          /\ t.since = summary[r].since /\ t.until = summary[r].until
    <3> DEFINE t == [summary[r] EXCEPT !.pc = 3, !.byStatus = by]
    <3>1. /\ t \in Summaries /\ t.pc = 3 /\ t.byStatus = by
          /\ t.requests = summary[r].requests
          /\ t.since = summary[r].since /\ t.until = summary[r].until
      BY <1>1, <2>2 DEF Summaries
    <3>2. summary' = [summary EXCEPT ![r] = t]
      <4>1. summary \in [Readers -> Summaries]
        BY <1>1 DEF AnalyticsTyping
      <4>2. summary' = [summary EXCEPT ![r].pc = @ + 1, ![r].byStatus = by]
        BY <1>4, <2>2 DEF CountByStatus
      <4>3. summary' = [summary EXCEPT ![r].pc = 3, ![r].byStatus = by]
        BY <2>1, <4>1, <4>2
      <4> QED BY <4>1, <4>3
    <3> HIDE DEF t
    <3> QED BY <3>1, <3>2
  <2>4. summary'[r] = t
    BY <1>1, <2>3 DEF AnalyticsTyping
  <2>5. Within(r)' = Within(r)
    BY <1>1, <2>3, <2>4 DEF Within
  <2>6. Cardinality(Within(r)) \in Nat
    BY <1>1, WithinIsFinite, BoundsAssumption
  <2>7. Counted(r)'
    BY <1>1, <2>1, <2>2, <2>3, <2>4, <2>5, <2>6 DEF Counted
  <2> QED BY <1>1, <2>3, <2>7, OneReader
<1> QED BY <1>2, <1>3, <1>4

LEMMA AnalyticsNextHolds == AnalyticsInv /\ [AnalyticsNext]_analyticsVars => AnalyticsInv'
<1> SUFFICES ASSUME AnalyticsInv, [AnalyticsNext]_analyticsVars PROVE AnalyticsInv'
  OBVIOUS
<1>1. CASE UNCHANGED <<logs, summary>> /\ today' \in 0 .. MaxLogs
  <2>1. \A r \in Readers : Within(r)' = Within(r)
    BY <1>1 DEF Within
  <2> QED BY <1>1, <2>1 DEF AnalyticsInv, AnalyticsTyping, Counted, Outcomes
<1>2. NewDay \/ UNCHANGED analyticsVars => UNCHANGED <<logs, summary>> /\ today' \in 0 .. MaxLogs
  BY BoundsAssumption DEF NewDay, analyticsVars, AnalyticsInv, AnalyticsTyping
<1> QED BY <1>1, <1>2, InsertLogHolds, ReaderHolds DEF AnalyticsNext

\* Rows and the counts taken of them have their types.
THEOREM AnalyticsTyped == AnalyticsSpec => []AnalyticsTypeOK
<1>1. AnalyticsInv => AnalyticsTypeOK
  BY DEF AnalyticsInv, AnalyticsTyping, AnalyticsTypeOK, LogRows, Summaries, Counts
<1> QED BY <1>1, AnalyticsInitHolds, AnalyticsNextHolds, PTL DEF AnalyticsSpec

\* A summary's two queries, with insertions and days between them, never tell
\* of more requests than outcomes, nor of more outcomes than there are rows.
THEOREM SummariesAddUp == AnalyticsSpec => []SummaryAddsUp
<1>1. AnalyticsInv => SummaryAddsUp
  BY DEF AnalyticsInv, Counted, Outcomes, SummaryAddsUp
<1> QED BY <1>1, AnalyticsInitHolds, AnalyticsNextHolds, PTL DEF AnalyticsSpec

-----------------------------------------------------------------------------
\* A step of the workspace is a step of one part and leaves the others alone.
LEMMA StepOfEach ==
    ASSUME [WorkspaceNext]_workspaceVars
    PROVE  /\ [ProvidersNext]_providersVars /\ [PromptsNext]_promptsVars
           /\ [OrganizationsNext]_organizationsVars /\ [AnalyticsNext]_analyticsVars
<1>1. CASE UNCHANGED workspaceVars
  BY <1>1 DEF workspaceVars
<1>2. CASE ProvidersMove
  BY <1>2 DEF ProvidersMove, Moves
<1>3. CASE PromptsMove
  BY <1>3 DEF PromptsMove, Moves
<1>4. CASE OrganizationsMove
  BY <1>4 DEF OrganizationsMove, Moves
<1>5. CASE AnalyticsMove
  BY <1>5 DEF AnalyticsMove, Moves
<1>6. CASE StreamMove
  BY <1>6 DEF StreamMove, Moves
<1>7. CASE RenderingMove
  BY <1>7 DEF RenderingMove, Moves
<1> QED BY <1>1, <1>2, <1>3, <1>4, <1>5, <1>6, <1>7 DEF WorkspaceNext

\* So a part moves as it does alone, and what is proved of a part is proved
\* of the workspace.
LEMMA PartsSideBySide ==
    WorkspaceSpec => ProvidersSpec /\ PromptsSpec /\ OrganizationsSpec /\ AnalyticsSpec
<1>1. WorkspaceInit => ProvidersInit /\ PromptsInit /\ OrganizationsInit /\ AnalyticsInit
  BY DEF WorkspaceInit
<1>2. [WorkspaceNext]_workspaceVars =>
        /\ [ProvidersNext]_providersVars /\ [PromptsNext]_promptsVars
        /\ [OrganizationsNext]_organizationsVars /\ [AnalyticsNext]_analyticsVars
  BY StepOfEach
<1> QED BY <1>1, <1>2, PTL
       DEF WorkspaceSpec, ProvidersSpec, PromptsSpec, OrganizationsSpec, AnalyticsSpec

\* All rows and requests of the workspace have their types, and the keys that
\* requests compete for (names of configurations, slugs of prompts and of
\* organizations) stay unique.
THEOREM WorkspaceTyped == WorkspaceSpec => []WorkspaceTypeOK
<1>1. ProvidersTypeOK /\ PromptsTypeOK /\ OrganizationsTypeOK /\ AnalyticsTypeOK
        => WorkspaceTypeOK
  BY DEF WorkspaceTypeOK
<1> QED BY <1>1, PartsSideBySide, ProvidersTyped, PromptsTypes, OrganizationsTyped,
          AnalyticsTyped, PTL
=============================================================================
