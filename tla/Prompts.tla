------------------------------- MODULE Prompts -------------------------------
(***************************************************************************)
(* The prompt library: PromptService over PrismaPromptRepository.  A       *)
(* request reads the prompt and decides on what it read whether its user   *)
(* may write; it looks for a free slug, or for the latest version, one     *)
(* query at a time; and it writes by id.  Templates and descriptions are   *)
(* left out, a slug is a base and a suffix, 1 where it has none.           *)
(***************************************************************************)
EXTENDS Integers, Sequences, Functions

CONSTANTS
    Prompts,        \* row ids; one is never used twice
    Editors,        \* requests in flight
    Authors,        \* users
    Orgs,
    MemberOf,       \* the organizations each user acts in
    Titles,
    Slugified,      \* slugify of each title
    MaxEdits        \* bound on the requests of a behaviour

ASSUME MembersAssumption == MemberOf \in [Authors -> SUBSET Orgs]
ASSUME MaxEditsAssumption == MaxEdits \in Nat

VARIABLES
    prompt,         \* the Prompt rows
    versions,       \* version numbers of each prompt, in order of insertion
    edit,           \* the local state of each request
    writers,        \* who updated a prompt or added a version (history)
    shared,         \* prompts that have been visible to their organization (history)
    edits           \* requests so far

promptsVars == <<prompt, versions, edit, writers, shared, edits>>

Visibilities == {"PRIVATE", "ORGANIZATION", "SYSTEM"}
NotGiven == "none"
NoOrg == "none"
ASSUME NoOrgAssumption == NoOrg \notin Orgs

NoPrompt == [state |-> "none", org |-> NoOrg, title |-> NotGiven, slug |-> <<>>,
             visibility |-> NotGiven, creator |-> NotGiven]
Deleted == [NoPrompt EXCEPT !.state = "gone"]

NoEdit == [pc |-> "idle", prompt |-> "none", actor |-> NotGiven, org |-> NoOrg, title |-> NotGiven,
           visibility |-> NotGiven, slug |-> <<>>, number |-> 0]

Stands(p) == prompt[p].state = "live"
Finish(e) == edit' = [edit EXCEPT ![e] = NoEdit]
Slug(e, n) == <<Slugified[edit[e].title], n>>

PromptsInit ==
    /\ prompt = [p \in Prompts |-> NoPrompt]
    /\ versions = [p \in Prompts |-> <<>>]
    /\ edit = [e \in Editors |-> NoEdit]
    /\ writers = [p \in Prompts |-> {}]
    /\ shared = {}
    /\ edits = 0

-----------------------------------------------------------------------------
\* findById: the organization's prompts, and those anybody may see.
Found(p, org) ==
    Stands(p) /\ (prompt[p].org = org \/ prompt[p].visibility = "SYSTEM")

\* enforceAccess, for a write
MayWriteShared(p, org, actor) ==
    IF prompt[p].visibility = "SYSTEM" THEN prompt[p].creator = actor
    ELSE prompt[p].org = org
MayWrite(p, org, actor) ==
    IF prompt[p].visibility = "SYSTEM" THEN prompt[p].creator = actor
    ELSE /\ prompt[p].org = org
         /\ prompt[p].visibility = "PRIVATE" => prompt[p].creator = actor

Begin(e, request) ==
    /\ edit[e].pc = "idle"
    /\ edits < MaxEdits
    /\ edits' = edits + 1
    /\ edit' = [edit EXCEPT ![e] = request]
    /\ UNCHANGED <<prompt, versions, writers, shared>>

StartCreatePrompt(e) ==
    \E p \in Prompts, u \in Authors, t \in Titles, v \in Visibilities :
        \E o \in MemberOf[u] :
            /\ prompt[p] = NoPrompt
            /\ \A f \in Editors : edit[f].prompt # p
            /\ Begin(e, [NoEdit EXCEPT !.pc = "slug", !.prompt = p, !.actor = u, !.org = o,
                                       !.title = t, !.visibility = v, !.number = 1])

Reads(e, p, org, actor, request) ==
    /\ Found(p, org)
    /\ MayWrite(p, org, actor)
    /\ Begin(e, request)

\* A name that is not the prompt's gets a new slug, the same name the slug
\* that was read.
StartUpdatePrompt(e) ==
    \E p \in Prompts, u \in Authors, t \in Titles \cup {NotGiven}, v \in Visibilities \cup {NotGiven} :
        \E o \in MemberOf[u] :
            LET request == [NoEdit EXCEPT !.prompt = p, !.actor = u, !.title = t,
                                          !.visibility = v]
            IN Reads(e, p, o, u,
                IF t \in {NotGiven, prompt[p].title}
                THEN [request EXCEPT !.pc = "update", !.slug = prompt[p].slug]
                ELSE [request EXCEPT !.pc = "reslug", !.org = o, !.number = 1])

StartDeletePrompt(e) ==
    \E p \in Prompts, u \in Authors : \E o \in MemberOf[u] :
        Reads(e, p, o, u, [NoEdit EXCEPT !.pc = "delete", !.prompt = p])

StartVersion(e) ==
    \E p \in Prompts, u \in Authors : \E o \in MemberOf[u] :
        Reads(e, p, o, u, [NoEdit EXCEPT !.pc = "latest", !.prompt = p, !.actor = u])

-----------------------------------------------------------------------------
\* One turn of the loop around existsSlug.  It asks about the organization of
\* the request, which is not that of a SYSTEM prompt.
Exists(e, slug) ==
    \E q \in Prompts : Stands(q) /\ prompt[q].org = edit[e].org /\ prompt[q].slug = slug

SeekSlug(e) ==
    LET q == edit[e]
        slug == Slug(e, q.number)
    IN
    /\ q.pc \in {"slug", "reslug"}
    /\ edit' = [edit EXCEPT ![e] =
            IF Exists(e, slug) THEN [q EXCEPT !.number = q.number + 1]
            ELSE [q EXCEPT !.pc = IF q.pc = "slug" THEN "insert" ELSE "update", !.slug = slug]]
    /\ UNCHANGED <<prompt, versions, writers, shared, edits>>

\* unique(organizationId, slug): rows without an organization never collide.
SlugIsFreeAnyway(p, org, slug) == TRUE
SlugIsFree(p, org, slug) ==
    org = NoOrg \/ \A q \in Prompts \ {p} :
        Stands(q) => prompt[q].org # org \/ prompt[q].slug # slug

Put(p, row) ==
    /\ prompt' = [prompt EXCEPT ![p] = row]
    /\ shared' = IF row.visibility = "ORGANIZATION" THEN shared \cup {p} ELSE shared

\* One transaction: the row and its version 1.
InsertPrompt(e) ==
    LET q == edit[e]
        org == IF q.visibility = "SYSTEM" THEN NoOrg ELSE q.org
    IN
    /\ q.pc = "insert"
    /\ SlugIsFree(q.prompt, org, q.slug)
    /\ Put(q.prompt, [state |-> "live", org |-> org, title |-> q.title, slug |-> q.slug,
                      visibility |-> q.visibility, creator |-> q.actor])
    /\ versions' = [versions EXCEPT ![q.prompt] = <<1>>]
    /\ Finish(e)
    /\ UNCHANGED <<writers, edits>>

\* The fields that were given, on whatever the row is by now.  Its
\* organization stays, also where it becomes a SYSTEM prompt or is none more.
UpdatedRow(e) ==
    LET q == edit[e]
        old == prompt[q.prompt]
    IN [old EXCEPT !.title = IF q.title = NotGiven THEN @ ELSE q.title,
                   !.slug = IF q.title = NotGiven THEN @ ELSE q.slug,
                   !.visibility = IF q.visibility = NotGiven THEN @ ELSE q.visibility]

Wrote(e) == writers' = [writers EXCEPT ![edit[e].prompt] = @ \cup {edit[e].actor}]

UpdatePrompt(e) ==
    LET p == edit[e].prompt IN
    /\ edit[e].pc = "update"
    /\ Stands(p)
    /\ SlugIsFree(p, prompt[p].org, UpdatedRow(e).slug)
    /\ Put(p, UpdatedRow(e))
    /\ Wrote(e)
    /\ Finish(e)
    /\ UNCHANGED <<versions, edits>>

\* Versions cascade.
DeletePrompt(e) ==
    LET p == edit[e].prompt IN
    /\ edit[e].pc = "delete"
    /\ Stands(p)
    /\ prompt' = [prompt EXCEPT ![p] = Deleted]
    /\ versions' = [versions EXCEPT ![p] = <<>>]
    /\ writers' = [writers EXCEPT ![p] = {}]
    /\ shared' = shared \ {p}
    /\ Finish(e)
    /\ UNCHANGED edits

\* getLatestVersion; isActive is never unset.
LatestVersion(p) ==
    IF versions[p] = <<>> THEN 0
    ELSE CHOOSE n \in Range(versions[p]) : \A m \in Range(versions[p]) : m <= n

ReadLatest(e) ==
    /\ edit[e].pc = "latest"
    /\ edit' = [edit EXCEPT ![e].pc = "version", ![e].number = LatestVersion(edit[e].prompt) + 1]
    /\ UNCHANGED <<prompt, versions, writers, shared, edits>>

\* unique(promptId, version)
NumberIsFreeAnyway(p, number) == TRUE
NumberIsFree(p, number) == \A i \in DOMAIN versions[p] : versions[p][i] # number

InsertVersion(e) ==
    LET p == edit[e].prompt IN
    /\ edit[e].pc = "version"
    /\ Stands(p)
    /\ NumberIsFree(p, edit[e].number)
    /\ versions' = [versions EXCEPT ![p] = Append(@, edit[e].number)]
    /\ Wrote(e)
    /\ Finish(e)
    /\ UNCHANGED <<prompt, shared, edits>>

\* A row that is gone, a key that is taken, a fault.
FailEdit(e) ==
    /\ edit[e].pc # "idle"
    /\ Finish(e)
    /\ UNCHANGED <<prompt, versions, writers, shared, edits>>

PromptsStep(e) ==
    \/ StartCreatePrompt(e) \/ StartUpdatePrompt(e) \/ StartDeletePrompt(e) \/ StartVersion(e)
    \/ SeekSlug(e) \/ InsertPrompt(e) \/ UpdatePrompt(e) \/ DeletePrompt(e)
    \/ ReadLatest(e) \/ InsertVersion(e) \/ FailEdit(e)

PromptsNext == \E e \in Editors : PromptsStep(e)

PromptsSpec == PromptsInit /\ [][PromptsNext]_promptsVars

-----------------------------------------------------------------------------
\* Rows and requests have their types, and an organization's slugs differ.
PromptsTypeOK ==
    /\ \A p, q \in Prompts :
        /\ Stands(p) => prompt[p].visibility \in Visibilities /\ prompt[p].creator \in Authors
        /\ Stands(p) /\ Stands(q) /\ prompt[p].org \in Orgs
             /\ <<prompt[p].org, prompt[p].slug>> = <<prompt[q].org, prompt[q].slug>> => p = q
    /\ versions \in [Prompts -> Seq(Nat \ {0})]
    /\ \A e \in Editors : edit[e].pc # "idle" =>
        edit[e].prompt \in Prompts /\ edit[e].number \in Nat
    /\ writers \in [Prompts -> SUBSET Authors]
    /\ shared \subseteq Prompts

\* However requests that add versions overlap, a prompt's versions are
\* numbered 1, 2, 3, ... in the order they were stored, without a gap.
VersionsContiguous ==
    \A p \in Prompts :
        /\ Stands(p) => versions[p] # <<>>
        /\ \A i \in DOMAIN versions[p] : versions[p][i] = i

\* A prompt is written by its creator only, until it has once been visible to
\* its organization, and then by nobody from outside: whatever the order in
\* which visibility changes, requests that read it, and their writes, happen.
WritersHadAccess ==
    \A p \in Prompts : Stands(p) =>
        \A u \in writers[p] \ {prompt[p].creator} :
            p \in shared /\ prompt[p].org \in MemberOf[u]
=============================================================================
