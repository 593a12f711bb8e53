---------------------------- MODULE PromptsProofs ----------------------------
(***************************************************************************)
(* Proofs about the prompt library: for any prompts, users, organizations  *)
(* and overlapping requests, versions are numbered without a gap, and only *)
(* those a prompt was open to have written it.                             *)
(***************************************************************************)
EXTENDS Prompts, TLAPS

Slugs == {<<>>} \cup ({Slugified[t] : t \in Titles} \X Nat)
PromptRows ==
    [state : {"none", "live", "gone"}, org : Orgs \cup {NoOrg}, title : Titles \cup {NotGiven},
     slug : Slugs, visibility : Visibilities \cup {NotGiven}, creator : Authors \cup {NotGiven}]
Edits ==
    [pc : {"idle", "slug", "reslug", "insert", "update", "delete", "latest", "version"},
     prompt : Prompts \cup {"none"}, actor : Authors \cup {NotGiven}, org : Orgs \cup {NoOrg},
     title : Titles \cup {NotGiven}, visibility : Visibilities \cup {NotGiven},
     slug : Slugs, number : Nat]

Creating(r) == r.pc \in {"slug", "insert"}
Busy(r) == r.pc # "idle"
Writing(r) == r.pc \in {"reslug", "update", "latest", "version"}

\* What a request in flight knows of its own fields
Formed(r) ==
    /\ Busy(r) => r.prompt \in Prompts
    /\ Creating(r) \/ Writing(r) => r.actor \in Authors
    /\ Creating(r) => r.visibility \in Visibilities
    /\ Creating(r) \/ r.pc = "reslug" => r.title \in Titles

\* The number it read is one of the versions there are, or the next
Numbered(r) ==
    r.pc = "version" /\ Stands(r.prompt) => r.number \in 1 .. Len(versions[r.prompt]) + 1

\* Its user is the creator, or the prompt has been open to its organization
Entitled(p, u) == u = prompt[p].creator \/ (p \in shared /\ prompt[p].org \in MemberOf[u])
StillEntitled(r) == Writing(r) /\ Stands(r.prompt) => Entitled(r.prompt, r.actor)

PromptsTyping ==
    /\ prompt \in [Prompts -> PromptRows]
    /\ versions \in [Prompts -> Seq(Nat)]
    /\ edit \in [Editors -> Edits]
    /\ writers \in [Prompts -> SUBSET Authors]
    /\ shared \subseteq Prompts

\* The id of a prompt that is being created belongs to that request alone.
PromptsFresh ==
    \A e \in Editors : Creating(edit[e]) =>
        /\ prompt[edit[e].prompt].state = "none"
        /\ \A f \in Editors \ {e} : Busy(edit[f]) => edit[f].prompt # edit[e].prompt

PromptsRow(p) ==
    /\ Stands(p) =>
        /\ versions[p] # <<>>
        /\ prompt[p].visibility \in Visibilities
        /\ prompt[p].visibility = "ORGANIZATION" => p \in shared
    /\ ~Stands(p) => writers[p] = {}
    /\ \A i \in DOMAIN versions[p] : versions[p][i] = i
    /\ Stands(p) => \A u \in writers[p] : Entitled(p, u)

PromptsRequest(r) == Formed(r) /\ Numbered(r) /\ StillEntitled(r)

PromptsInv ==
    /\ PromptsTyping /\ PromptsFresh
    /\ \A p \in Prompts : PromptsRow(p)
    /\ \A e \in Editors : PromptsRequest(edit[e])

-----------------------------------------------------------------------------
LEMMA NoEditTyped == NoEdit \in Edits /\ ~Busy(NoEdit) /\ PromptsRequest(NoEdit)
BY DEF NoEdit, Edits, Slugs, Busy, PromptsRequest, Formed, Numbered, StillEntitled, Creating, Writing

LEMMA PromptsInitHolds == PromptsInit => PromptsInv
<1> SUFFICES ASSUME PromptsInit PROVE PromptsInv
  OBVIOUS
<1> USE DEF PromptsInit
<1>1. NoPrompt \in PromptRows /\ NoPrompt.state = "none"
  BY DEF NoPrompt, PromptRows, Slugs
<1>2. PromptsTyping
  BY <1>1, NoEditTyped DEF PromptsTyping
<1>3. \A e \in Editors : edit[e].pc = "idle"
  BY DEF NoEdit
<1>4. PromptsFresh
  BY <1>3 DEF PromptsFresh, Creating
<1>5. \A p \in Prompts : PromptsRow(p)
  BY <1>1 DEF PromptsRow, Stands
<1>6. \A e \in Editors : PromptsRequest(edit[e])
  BY <1>3 DEF PromptsRequest, Formed, Numbered, StillEntitled, Creating, Writing, Busy
<1> QED BY <1>2, <1>4, <1>5, <1>6 DEF PromptsInv

\* A step that changes the request only
LEMMA EditStep ==
    ASSUME PromptsInv, NEW e \in Editors, NEW r \in Edits,
           edit' = [edit EXCEPT ![e] = r],
           UNCHANGED <<prompt, versions, writers, shared>>,
           PromptsRequest(r),
           Creating(r) =>
             /\ prompt[r.prompt].state = "none"
             /\ \A f \in Editors \ {e} : Busy(edit[f]) => edit[f].prompt # r.prompt,
           Busy(r) => \A f \in Editors \ {e} : Creating(edit[f]) => edit[f].prompt # r.prompt
    PROVE  PromptsInv'
<1> USE DEF PromptsInv
<1>1. \A f \in Editors : edit'[f] = IF f = e THEN r ELSE edit[f]
  BY DEF PromptsTyping
<1>2. PromptsTyping'
  BY DEF PromptsTyping
<1>3. PromptsFresh'
  BY <1>1 DEF PromptsFresh
<1>4. \A p \in Prompts : PromptsRow(p)'
  BY DEF PromptsRow, Stands, Entitled
<1>5. \A f \in Editors : PromptsRequest(edit[f])'
  BY <1>1 DEF PromptsRequest, Formed, Numbered, StillEntitled, Entitled, Stands
<1> QED BY <1>2, <1>3, <1>4, <1>5

LEMMA FinishHolds ==
    ASSUME PromptsInv, NEW e \in Editors, Finish(e), UNCHANGED <<prompt, versions, writers, shared>>
    PROVE  PromptsInv'
BY NoEditTyped, EditStep DEF Finish, Creating, Busy

\* A step that writes the row of a prompt and ends the request
LEMMA WriteStep ==
    ASSUME PromptsInv, NEW e \in Editors, NEW p \in Prompts, Finish(e), PromptsTyping', PromptsRow(p)',
           \A q \in Prompts \ {p} :
             /\ prompt'[q] = prompt[q] /\ versions'[q] = versions[q] /\ writers'[q] = writers[q]
             /\ q \in shared' <=> q \in shared,
           prompt'[p].state # "none",
           \A f \in Editors \ {e} : ~(Creating(edit[f]) /\ edit[f].prompt = p),
           \A f \in Editors \ {e} : Busy(edit[f]) /\ edit[f].prompt = p =>
             Numbered(edit[f])' /\ StillEntitled(edit[f])'
    PROVE  PromptsInv'
<1> USE DEF PromptsInv
<1>1. \A f \in Editors : edit'[f] = IF f = e THEN NoEdit ELSE edit[f]
  BY DEF Finish, PromptsTyping
<1>2. PromptsFresh'
  BY <1>1, NoEditTyped DEF PromptsFresh, PromptsRequest, Formed, Creating, Busy
<1>3. ASSUME NEW q \in Prompts PROVE PromptsRow(q)'
  <2>1. CASE q = p
    BY <2>1
  <2>2. CASE q # p
    BY <2>2 DEF PromptsRow, Stands, Entitled
  <2> QED BY <2>1, <2>2
<1>4. ASSUME NEW f \in Editors PROVE PromptsRequest(edit[f])'
  <2>1. CASE f = e
    BY <2>1, <1>1 DEF NoEdit, PromptsRequest, Formed, Numbered, StillEntitled, Creating, Writing, Busy
  <2>2. CASE f # e
    <3>1. edit'[f] = edit[f] /\ PromptsRequest(edit[f])
      BY <2>2, <1>1
    <3>2. CASE ~Busy(edit[f])
      BY <3>1, <3>2 DEF PromptsRequest, Formed, Numbered, StillEntitled, Creating, Writing, Busy
    <3>3. CASE Busy(edit[f]) /\ edit[f].prompt = p
      BY <2>2, <3>1, <3>3 DEF PromptsRequest, Formed
    <3>4. CASE Busy(edit[f]) /\ edit[f].prompt # p
      BY <3>1, <3>4 DEF PromptsRequest, Formed, Numbered, StillEntitled, Entitled, Stands, Busy
    <3> QED BY <3>2, <3>3, <3>4
  <2> QED BY <2>1, <2>2
<1> QED BY <1>2, <1>3, <1>4

-----------------------------------------------------------------------------
\* The requests begin.  None of them is on a prompt that is being created.
LEMMA NotFresh ==
    ASSUME PromptsInv, NEW p \in Prompts, prompt[p].state # "none", NEW f \in Editors, Creating(edit[f])
    PROVE  edit[f].prompt # p
BY DEF PromptsInv, PromptsFresh

LEMMA PromptsBeginHolds ==
    ASSUME PromptsInv, NEW e \in Editors, NEW r \in Edits, Begin(e, r), PromptsRequest(r), ~Creating(r),
           r.prompt \in Prompts, Stands(r.prompt)
    PROVE  PromptsInv'
<1>1. \A f \in Editors \ {e} : Creating(edit[f]) => edit[f].prompt # r.prompt
  BY NotFresh DEF Stands
<1> QED BY <1>1, EditStep DEF Begin

LEMMA CreateHolds ==
    ASSUME PromptsInv, NEW e \in Editors, StartCreatePrompt(e)
    PROVE  PromptsInv'
<1> USE DEF PromptsInv
<1>1. PICK p \in Prompts, u \in Authors, t \in Titles, v \in Visibilities : \E o \in MemberOf[u] :
        /\ prompt[p] = NoPrompt
        /\ \A f \in Editors : edit[f].prompt # p
        /\ Begin(e, [NoEdit EXCEPT !.pc = "slug", !.prompt = p, !.actor = u, !.org = o,
                                   !.title = t, !.visibility = v, !.number = 1])
  BY DEF StartCreatePrompt
<1>2. PICK o \in MemberOf[u] :
        /\ prompt[p] = NoPrompt
        /\ \A f \in Editors : edit[f].prompt # p
        /\ Begin(e, [NoEdit EXCEPT !.pc = "slug", !.prompt = p, !.actor = u, !.org = o,
                                   !.title = t, !.visibility = v, !.number = 1])
  BY <1>1
<1> DEFINE r == [NoEdit EXCEPT !.pc = "slug", !.prompt = p, !.actor = u, !.org = o,
                               !.title = t, !.visibility = v, !.number = 1]
<1>3. o \in Orgs
  BY MembersAssumption
<1>4. /\ r \in Edits /\ r.pc = "slug" /\ r.prompt = p /\ r.actor = u /\ r.visibility = v
      /\ r.title = t
  BY <1>3 DEF NoEdit, Edits, Slugs
<1>5. Begin(e, r)
  BY <1>2
<1> HIDE DEF r
<1>6. PromptsRequest(r)
  BY <1>4 DEF PromptsRequest, Formed, Numbered, StillEntitled, Creating, Writing
<1>7. prompt[p].state = "none"
  BY <1>2 DEF NoPrompt
<1> QED BY <1>2, <1>4, <1>5, <1>6, <1>7, EditStep DEF Begin, Creating, Busy

\* Whoever may write a prompt that is found is entitled to it.
LEMMA AccessEntitles ==
    ASSUME PromptsInv, NEW p \in Prompts, NEW u \in Authors, NEW o \in MemberOf[u],
           Found(p, o), MayWrite(p, o, u)
    PROVE  Stands(p) /\ Entitled(p, u)
BY DEF PromptsInv, PromptsRow, Found, MayWrite, Entitled, Visibilities

LEMMA ReadsHolds ==
    ASSUME PromptsInv, NEW e \in Editors, NEW p \in Prompts, NEW u \in Authors, NEW o \in MemberOf[u],
           NEW r \in Edits, Reads(e, p, o, u, r),
           r.prompt = p, r.pc \in {"reslug", "update", "delete", "latest"},
           r.pc # "delete" => r.actor = u,
           r.pc = "reslug" => r.title \in Titles
    PROVE  PromptsInv'
<1>1. Stands(p) /\ Entitled(p, u) /\ Begin(e, r)
  BY AccessEntitles DEF Reads
<1>2. PromptsRequest(r) /\ ~Creating(r)
  BY <1>1 DEF PromptsRequest, Formed, Numbered, StillEntitled, Creating, Writing
<1> QED BY <1>1, <1>2, PromptsBeginHolds

LEMMA UpdateHolds ==
    ASSUME PromptsInv, NEW e \in Editors, StartUpdatePrompt(e)
    PROVE  PromptsInv'
<1>1. PICK p \in Prompts, u \in Authors, t \in Titles \cup {NotGiven},
           v \in Visibilities \cup {NotGiven} :
        \E o \in MemberOf[u] :
            LET request == [NoEdit EXCEPT !.prompt = p, !.actor = u, !.title = t, !.visibility = v]
            IN Reads(e, p, o, u,
                IF t \in {NotGiven, prompt[p].title}
                THEN [request EXCEPT !.pc = "update", !.slug = prompt[p].slug]
                ELSE [request EXCEPT !.pc = "reslug", !.org = o, !.number = 1])
  BY DEF StartUpdatePrompt
<1> DEFINE request == [NoEdit EXCEPT !.prompt = p, !.actor = u, !.title = t, !.visibility = v]
           same == [request EXCEPT !.pc = "update", !.slug = prompt[p].slug]
           other(o) == [request EXCEPT !.pc = "reslug", !.org = o, !.number = 1]
<1>2. PICK o \in MemberOf[u] :
        Reads(e, p, o, u, IF t \in {NotGiven, prompt[p].title} THEN same ELSE other(o))
  BY <1>1
<1>3. o \in Orgs /\ prompt[p].slug \in Slugs
  BY MembersAssumption DEF PromptsInv, PromptsTyping, PromptRows
<1>4. CASE t \in {NotGiven, prompt[p].title}
  <2>1. same \in Edits /\ same.prompt = p /\ same.pc = "update" /\ same.actor = u
    BY <1>3 DEF NoEdit, Edits
  <2>2. Reads(e, p, o, u, same)
    BY <1>2, <1>4
  <2> HIDE DEF same
  <2> QED BY <2>1, <2>2, ReadsHolds
<1>5. CASE t \notin {NotGiven, prompt[p].title}
  <2>1. /\ other(o) \in Edits /\ other(o).prompt = p /\ other(o).pc = "reslug"
        /\ other(o).actor = u /\ other(o).title \in Titles
    BY <1>3, <1>5 DEF NoEdit, Edits, Slugs
  <2>2. Reads(e, p, o, u, other(o))
    BY <1>2, <1>5
  <2> HIDE DEF other
  <2> QED BY <2>1, <2>2, ReadsHolds
<1> QED BY <1>4, <1>5

LEMMA StartDeleteHolds ==
    ASSUME PromptsInv, NEW e \in Editors, StartDeletePrompt(e)
    PROVE  PromptsInv'
<1>1. PICK p \in Prompts, u \in Authors : \E o \in MemberOf[u] :
        Reads(e, p, o, u, [NoEdit EXCEPT !.pc = "delete", !.prompt = p])
  BY DEF StartDeletePrompt
<1> DEFINE r == [NoEdit EXCEPT !.pc = "delete", !.prompt = p]
<1>2. r \in Edits /\ r.prompt = p /\ r.pc = "delete"
  BY DEF NoEdit, Edits, Slugs
<1>3. PICK o \in MemberOf[u] : Reads(e, p, o, u, r)
  BY <1>1
<1> HIDE DEF r
<1> QED BY <1>2, <1>3, ReadsHolds

LEMMA StartVersionHolds ==
    ASSUME PromptsInv, NEW e \in Editors, StartVersion(e)
    PROVE  PromptsInv'
<1>1. PICK p \in Prompts, u \in Authors : \E o \in MemberOf[u] :
        Reads(e, p, o, u, [NoEdit EXCEPT !.pc = "latest", !.prompt = p, !.actor = u])
  BY DEF StartVersion
<1> DEFINE r == [NoEdit EXCEPT !.pc = "latest", !.prompt = p, !.actor = u]
<1>2. r \in Edits /\ r.prompt = p /\ r.pc = "latest" /\ r.actor = u
  BY DEF NoEdit, Edits, Slugs
<1>3. PICK o \in MemberOf[u] : Reads(e, p, o, u, r)
  BY <1>1
<1> HIDE DEF r
<1> QED BY <1>2, <1>3, ReadsHolds

-----------------------------------------------------------------------------
LEMMA SeekSlugHolds ==
    ASSUME PromptsInv, NEW e \in Editors, SeekSlug(e)
    PROVE  PromptsInv'
<1>0. PICK q \in Edits : q = edit[e]
  BY DEF PromptsInv, PromptsTyping
<1> DEFINE next == [q EXCEPT !.number = q.number + 1]
           found == [q EXCEPT !.pc = IF q.pc = "slug" THEN "insert" ELSE "update",
                              !.slug = Slug(e, q.number)]
           r == IF Exists(e, Slug(e, q.number)) THEN next ELSE found
<1>1. /\ q \in Edits /\ q.pc \in {"slug", "reslug"} /\ PromptsRequest(q)
      /\ q.prompt \in Prompts /\ q.title \in Titles
  BY <1>0 DEF SeekSlug, PromptsInv, PromptsTyping, PromptsRequest, Formed, Busy, Creating
<1>2. Slug(e, q.number) \in Slugs
  BY <1>0, <1>1 DEF Slug, Slugs, Edits
<1>3. /\ next \in Edits /\ next.pc = q.pc /\ next.prompt = q.prompt /\ next.actor = q.actor
      /\ next.title = q.title /\ next.visibility = q.visibility
  BY <1>1 DEF Edits
<1>4. /\ found \in Edits /\ found.pc = IF q.pc = "slug" THEN "insert" ELSE "update"
      /\ found.prompt = q.prompt /\ found.actor = q.actor
      /\ found.title = q.title /\ found.visibility = q.visibility
  BY <1>1, <1>2 DEF Edits
<1>5. edit' = [edit EXCEPT ![e] = r] /\ UNCHANGED <<prompt, versions, writers, shared>>
  <2>1. CASE Exists(e, Slug(e, q.number))
    BY <1>0, <2>1 DEF SeekSlug
  <2>2. CASE ~Exists(e, Slug(e, q.number))
    BY <1>0, <2>2 DEF SeekSlug
  <2> QED BY <2>1, <2>2
<1>6. /\ r \in Edits /\ r.prompt = q.prompt /\ r.actor = q.actor
      /\ r.title = q.title /\ r.visibility = q.visibility
      /\ r.pc \in {"slug", "reslug", "insert", "update"}
      /\ Creating(r) <=> Creating(q)
      /\ Writing(r) <=> Writing(q)
  BY <1>1, <1>3, <1>4 DEF Creating, Writing
<1>7. Busy(q) /\ (Creating(q) \/ q.pc = "reslug")
  BY <1>1 DEF Busy, Creating
<1> HIDE DEF r
<1>8. PromptsRequest(r)
  BY <1>1, <1>6, <1>7 DEF PromptsRequest, Formed, Numbered, StillEntitled
<1>9. \A f \in Editors \ {e} : Busy(edit[f]) /\ Creating(q) => edit[f].prompt # q.prompt
  BY <1>0 DEF PromptsInv, PromptsFresh
<1>10. \A f \in Editors \ {e} : Creating(edit[f]) => edit[f].prompt # q.prompt
  BY <1>0, <1>7 DEF PromptsInv, PromptsFresh
<1>11. Creating(q) => prompt[q.prompt].state = "none"
  BY <1>0 DEF PromptsInv, PromptsFresh
<1> QED BY <1>5, <1>6, <1>8, <1>9, <1>10, <1>11, EditStep

\* The latest of the versions 1 .. n is n.
LEMMA LatestIsLast ==
    ASSUME PromptsInv, NEW p \in Prompts
    PROVE  LatestVersion(p) = Len(versions[p])
<1>1. versions[p] \in Seq(Nat) /\ \A i \in DOMAIN versions[p] : versions[p][i] = i
  BY DEF PromptsInv, PromptsTyping, PromptsRow
<1>2. CASE versions[p] = <<>>
  BY <1>2 DEF LatestVersion
<1>3. CASE versions[p] # <<>>
  <2>1. Len(versions[p]) \in Nat \ {0} /\ DOMAIN versions[p] = 1 .. Len(versions[p])
    BY <1>1, <1>3
  <2>2. Range(versions[p]) = 1 .. Len(versions[p])
    BY <1>1, <2>1 DEF Range
  <2>3. Len(versions[p]) \in Range(versions[p])
    BY <2>1, <2>2
  <2>4. \A m \in Range(versions[p]) : m <= Len(versions[p])
    BY <2>1, <2>2
  <2>5. \A n \in Range(versions[p]) :
          (\A m \in Range(versions[p]) : m <= n) => n = Len(versions[p])
    BY <2>1, <2>2, <2>3
  <2> QED BY <1>3, <2>3, <2>4, <2>5 DEF LatestVersion
<1> QED BY <1>2, <1>3

LEMMA ReadLatestHolds ==
    ASSUME PromptsInv, NEW e \in Editors, ReadLatest(e)
    PROVE  PromptsInv'
<1>0. PICK q \in Edits : q = edit[e]
  BY DEF PromptsInv, PromptsTyping
<1>1. q.pc = "latest" /\ PromptsRequest(q) /\ q.prompt \in Prompts
  BY <1>0 DEF ReadLatest, PromptsInv, PromptsTyping, PromptsRequest, Formed, Busy
<1>2. PICK n \in Nat : n = Len(versions[q.prompt]) + 1 /\ n = LatestVersion(q.prompt) + 1
  <2>1. versions[q.prompt] \in Seq(Nat) /\ LatestVersion(q.prompt) = Len(versions[q.prompt])
    BY <1>1, LatestIsLast DEF PromptsInv, PromptsTyping
  <2>2. Len(versions[q.prompt]) + 1 \in Nat
    BY <2>1
  <2> QED BY <2>1, <2>2
<1> DEFINE r == [q EXCEPT !.pc = "version", !.number = n]
<1>3. /\ r \in Edits /\ r.pc = "version" /\ r.prompt = q.prompt /\ r.actor = q.actor
      /\ r.number = n
  BY <1>1 DEF Edits
<1>4. edit' = [edit EXCEPT ![e] = r] /\ UNCHANGED <<prompt, versions, writers, shared>>
  <2>1. edit' = [edit EXCEPT ![e].pc = "version", ![e].number = LatestVersion(edit[e].prompt) + 1]
    BY DEF ReadLatest
  <2>2. edit' = [edit EXCEPT ![e] = [edit[e] EXCEPT !.pc = "version", !.number = n]]
    BY <1>0, <1>2, <2>1 DEF PromptsInv, PromptsTyping
  <2> QED BY <1>0, <2>2 DEF ReadLatest
<1>5. \A f \in Editors \ {e} : Creating(edit[f]) => edit[f].prompt # q.prompt
  BY <1>0, <1>1 DEF PromptsInv, PromptsFresh, Busy
<1> HIDE DEF r
<1>6. PromptsRequest(r)
  BY <1>1, <1>2, <1>3 DEF PromptsRequest, Formed, Numbered, StillEntitled, Creating, Writing, Busy
<1> QED BY <1>3, <1>4, <1>5, <1>6, EditStep DEF Creating

-----------------------------------------------------------------------------
\* The writes.  Other requests on a prompt that stands go on being right.
LEMMA InsertPromptHolds ==
    ASSUME PromptsInv, NEW e \in Editors, InsertPrompt(e)
    PROVE  PromptsInv'
<1>0. PICK q \in Edits, p \in Prompts : q = edit[e] /\ p = q.prompt
  BY DEF InsertPrompt, PromptsInv, PromptsTyping, PromptsRequest, Formed, Busy
<1> DEFINE org == IF q.visibility = "SYSTEM" THEN NoOrg ELSE q.org
           row == [state |-> "live", org |-> org, title |-> q.title, slug |-> q.slug,
                   visibility |-> q.visibility, creator |-> q.actor]
<1>1. /\ q.pc = "insert" /\ q.actor \in Authors
      /\ q.visibility \in Visibilities /\ q.title \in Titles
  BY <1>0 DEF InsertPrompt, PromptsInv, PromptsRequest, Formed, Creating
<1>2. /\ Put(p, row) /\ versions' = [versions EXCEPT ![p] = <<1>>] /\ Finish(e)
      /\ writers' = writers
  BY <1>0 DEF InsertPrompt
<1>3. /\ prompt[p].state = "none"
      /\ \A f \in Editors \ {e} : Busy(edit[f]) => edit[f].prompt # p
  BY <1>0, <1>1 DEF PromptsInv, PromptsFresh, Creating
<1>4. row \in PromptRows
  BY <1>1 DEF PromptRows, Edits, Visibilities
<1>5. prompt' = [prompt EXCEPT ![p] = row]
  BY <1>2 DEF Put
<1>6. shared' = IF q.visibility = "ORGANIZATION" THEN shared \cup {p} ELSE shared
  BY <1>2 DEF Put
<1>7. PromptsTyping'
  <2>1. <<1>> \in Seq(Nat)
    OBVIOUS
  <2>2. prompt' \in [Prompts -> PromptRows]
    BY <1>1, <1>4, <1>5 DEF PromptsInv, PromptsTyping
  <2>3. versions' \in [Prompts -> Seq(Nat)]
    BY <1>1, <1>2, <2>1 DEF PromptsInv, PromptsTyping
  <2>4. edit' \in [Editors -> Edits]
    BY <1>2, NoEditTyped DEF PromptsInv, PromptsTyping, Finish
  <2>5. shared' \subseteq Prompts
    BY <1>1, <1>6 DEF PromptsInv, PromptsTyping
  <2> QED BY <1>2, <2>2, <2>3, <2>4, <2>5 DEF PromptsInv, PromptsTyping
<1>8. /\ prompt'[p].state = "live" /\ prompt'[p].visibility = q.visibility
      /\ versions'[p] = <<1>> /\ writers'[p] = {}
  <2>1. writers[p] = {}
    BY <1>1, <1>3 DEF PromptsInv, PromptsRow, Stands
  <2> QED BY <1>1, <1>2, <1>5, <2>1 DEF PromptsInv, PromptsTyping
<1>9. PromptsRow(p)'
  BY <1>1, <1>6, <1>8 DEF PromptsRow, Stands
<1>10. \A x \in Prompts \ {p} :
        /\ prompt'[x] = prompt[x] /\ versions'[x] = versions[x] /\ writers'[x] = writers[x]
        /\ x \in shared' <=> x \in shared
  BY <1>2, <1>5, <1>6 DEF PromptsInv, PromptsTyping
<1>11. \A f \in Editors \ {e} : ~(Creating(edit[f]) /\ edit[f].prompt = p)
  BY <1>3 DEF Creating, Busy
<1> HIDE DEF row
<1> QED BY <1>1, <1>2, <1>3, <1>7, <1>8, <1>9, <1>10, <1>11, WriteStep

LEMMA UpdatePromptHolds ==
    ASSUME PromptsInv, NEW e \in Editors, UpdatePrompt(e)
    PROVE  PromptsInv'
<1>0. PICK q \in Edits, p \in Prompts : q = edit[e] /\ p = q.prompt
  BY DEF UpdatePrompt, PromptsInv, PromptsTyping, PromptsRequest, Formed, Busy
<1>1. q.pc = "update" /\ q.actor \in Authors /\ Stands(p) /\ Entitled(p, q.actor)
  BY <1>0 DEF UpdatePrompt, PromptsInv, PromptsRequest, Formed, Writing, StillEntitled
<1>a. PICK row : row = UpdatedRow(e)
  OBVIOUS
<1>2. /\ Put(p, row) /\ Finish(e) /\ versions' = versions
      /\ writers' = [writers EXCEPT ![p] = @ \cup {q.actor}]
  BY <1>0, <1>a DEF UpdatePrompt, Wrote
<1>3. /\ row \in PromptRows /\ row.state = "live" /\ row.org = prompt[p].org
      /\ row.creator = prompt[p].creator
      /\ row.visibility \in Visibilities
      /\ row.visibility = "ORGANIZATION" =>
            q.visibility = "ORGANIZATION" \/ prompt[p].visibility = "ORGANIZATION"
  <2>1. prompt[p] \in PromptRows /\ prompt[p].state = "live" /\ prompt[p].visibility \in Visibilities
    BY <1>1 DEF PromptsInv, PromptsTyping, PromptsRow, Stands
  <2> QED BY <1>0, <1>1, <1>a, <2>1 DEF UpdatedRow, PromptRows, Edits
<1>4. prompt' = [prompt EXCEPT ![p] = row]
  BY <1>2 DEF Put
<1>5. shared' = IF row.visibility = "ORGANIZATION" THEN shared \cup {p} ELSE shared
  BY <1>2 DEF Put
<1>6. PromptsTyping'
  <2>1. prompt' \in [Prompts -> PromptRows]
    BY <1>1, <1>3, <1>4 DEF PromptsInv, PromptsTyping
  <2>2. edit' \in [Editors -> Edits]
    BY <1>2, NoEditTyped DEF PromptsInv, PromptsTyping, Finish
  <2>3. writers' \in [Prompts -> SUBSET Authors]
    BY <1>1, <1>2 DEF PromptsInv, PromptsTyping
  <2> QED BY <1>1, <1>2, <1>5, <2>1, <2>2, <2>3 DEF PromptsInv, PromptsTyping
<1>7. /\ prompt'[p] = row /\ versions'[p] = versions[p]
      /\ writers'[p] = writers[p] \cup {q.actor}
  BY <1>1, <1>2, <1>4 DEF PromptsInv, PromptsTyping
<1>8. \A u : Entitled(p, u) => Entitled(p, u)'
  BY <1>3, <1>5, <1>7 DEF Entitled
<1>9. PromptsRow(p)'
  <2>1. \A u \in writers'[p] : Entitled(p, u)'
    BY <1>1, <1>7, <1>8 DEF PromptsInv, PromptsRow
  <2> QED BY <1>1, <1>3, <1>5, <1>7, <2>1 DEF PromptsInv, PromptsRow, Stands
<1>10. \A x \in Prompts \ {p} :
        /\ prompt'[x] = prompt[x] /\ versions'[x] = versions[x] /\ writers'[x] = writers[x]
        /\ x \in shared' <=> x \in shared
  BY <1>2, <1>4, <1>5 DEF PromptsInv, PromptsTyping
<1>11. \A f \in Editors \ {e} : ~(Creating(edit[f]) /\ edit[f].prompt = p)
  BY <1>1, NotFresh DEF Stands
<1>12. \A f \in Editors \ {e} : Busy(edit[f]) /\ edit[f].prompt = p =>
        Numbered(edit[f])' /\ StillEntitled(edit[f])'
  <2>1. ASSUME NEW f \in Editors \ {e}, edit[f].prompt = p
        PROVE  Numbered(edit[f])' /\ StillEntitled(edit[f])'
    <3>1. edit'[f] = edit[f] /\ Numbered(edit[f]) /\ StillEntitled(edit[f])
      BY <1>2 DEF PromptsInv, PromptsTyping, Finish, PromptsRequest
    <3> QED BY <1>1, <1>7, <1>8, <2>1, <3>1 DEF Numbered, StillEntitled, Stands
  <2> QED BY <2>1
<1> QED BY <1>1, <1>2, <1>3, <1>6, <1>7, <1>9, <1>10, <1>11, <1>12, WriteStep

LEMMA DeletePromptHolds ==
    ASSUME PromptsInv, NEW e \in Editors, DeletePrompt(e)
    PROVE  PromptsInv'
<1>0. PICK p \in Prompts : p = edit[e].prompt
  BY DEF DeletePrompt, PromptsInv, PromptsTyping, PromptsRequest, Formed, Busy
<1>1. Stands(p) /\ Finish(e)
  BY <1>0 DEF DeletePrompt
<1>2. /\ prompt' = [prompt EXCEPT ![p] = Deleted] /\ versions' = [versions EXCEPT ![p] = <<>>]
      /\ writers' = [writers EXCEPT ![p] = {}] /\ shared' = shared \ {p}
  BY <1>0 DEF DeletePrompt
<1>3. Deleted \in PromptRows /\ Deleted.state = "gone"
  BY DEF Deleted, NoPrompt, PromptRows, Slugs
<1>4. PromptsTyping'
  <2>1. edit' \in [Editors -> Edits]
    BY <1>1, NoEditTyped DEF PromptsInv, PromptsTyping, Finish
  <2>2. <<>> \in Seq(Nat)
    OBVIOUS
  <2> QED BY <1>2, <1>3, <2>1, <2>2 DEF PromptsInv, PromptsTyping
<1>5. prompt'[p].state = "gone" /\ versions'[p] = <<>> /\ writers'[p] = {}
  BY <1>2, <1>3 DEF PromptsInv, PromptsTyping
<1>6. PromptsRow(p)'
  BY <1>5 DEF PromptsRow, Stands
<1>7. \A x \in Prompts \ {p} :
        /\ prompt'[x] = prompt[x] /\ versions'[x] = versions[x] /\ writers'[x] = writers[x]
        /\ x \in shared' <=> x \in shared
  BY <1>2 DEF PromptsInv, PromptsTyping
<1>8. \A f \in Editors \ {e} : ~(Creating(edit[f]) /\ edit[f].prompt = p)
  BY <1>1, NotFresh DEF Stands
<1>9. \A f \in Editors \ {e} : Busy(edit[f]) /\ edit[f].prompt = p =>
        Numbered(edit[f])' /\ StillEntitled(edit[f])'
  <2>1. ASSUME NEW f \in Editors \ {e}, edit[f].prompt = p
        PROVE  Numbered(edit[f])' /\ StillEntitled(edit[f])'
    <3>1. edit'[f] = edit[f]
      BY <1>1 DEF PromptsInv, PromptsTyping, Finish
    <3> QED BY <1>5, <2>1, <3>1 DEF Numbered, StillEntitled, Stands
  <2> QED BY <2>1
<1> QED BY <1>1, <1>4, <1>5, <1>6, <1>7, <1>8, <1>9, WriteStep

\* The number is one of those there are, which the unique index refuses, or
\* the next.
LEMMA InsertVersionHolds ==
    ASSUME PromptsInv, NEW e \in Editors, InsertVersion(e)
    PROVE  PromptsInv'
<1>0. PICK q \in Edits, p \in Prompts : q = edit[e] /\ p = q.prompt
  BY DEF InsertVersion, PromptsInv, PromptsTyping, PromptsRequest, Formed, Busy
<1>1. /\ q.pc = "version" /\ q.actor \in Authors /\ Stands(p) /\ Entitled(p, q.actor)
      /\ q.number \in 1 .. Len(versions[p]) + 1
  BY <1>0 DEF InsertVersion, PromptsInv, PromptsRequest, Formed, Writing, StillEntitled, Numbered
<1>2. PICK s \in Seq(Nat) : s = versions[p]
  BY DEF PromptsInv, PromptsTyping
<1>3. \A i \in 1 .. Len(s) : s[i] = i
  BY <1>2 DEF PromptsInv, PromptsRow
<1>4. q.number = Len(s) + 1
  <2>1. \A i \in 1 .. Len(s) : s[i] # q.number
    BY <1>0, <1>2 DEF InsertVersion, NumberIsFree
  <2>2. Len(s) \in Nat /\ q.number \in 1 .. Len(s) + 1
    BY <1>1, <1>2
  <2> QED BY <1>3, <2>1, <2>2
<1>5. PICK t \in Seq(Nat) : t = Append(s, Len(s) + 1)
  <2>1. Len(s) + 1 \in Nat
    BY <1>2
  <2>2. Append(s, Len(s) + 1) \in Seq(Nat)
    BY <2>1
  <2> QED BY <2>2
<1>6. Len(t) = Len(s) + 1 /\ t # <<>> /\ \A i \in DOMAIN t : t[i] = i
  BY <1>3, <1>5
<1>7. /\ versions' = [versions EXCEPT ![p] = t] /\ Finish(e)
      /\ writers' = [writers EXCEPT ![p] = @ \cup {q.actor}]
      /\ prompt' = prompt /\ shared' = shared
  BY <1>0, <1>2, <1>4, <1>5 DEF InsertVersion, Wrote
<1>8. PromptsTyping'
  <2>1. edit' \in [Editors -> Edits]
    BY <1>7, NoEditTyped DEF PromptsInv, PromptsTyping, Finish
  <2>2. versions' \in [Prompts -> Seq(Nat)]
    BY <1>7 DEF PromptsInv, PromptsTyping
  <2>3. writers' \in [Prompts -> SUBSET Authors]
    BY <1>1, <1>7 DEF PromptsInv, PromptsTyping
  <2> QED BY <1>7, <2>1, <2>2, <2>3 DEF PromptsInv, PromptsTyping
<1>9. versions'[p] = t /\ writers'[p] = writers[p] \cup {q.actor}
  BY <1>7 DEF PromptsInv, PromptsTyping
<1>10. PromptsRow(p)'
  BY <1>1, <1>6, <1>7, <1>9 DEF PromptsInv, PromptsRow, Stands, Entitled
<1>11. \A x \in Prompts \ {p} :
        /\ prompt'[x] = prompt[x] /\ versions'[x] = versions[x] /\ writers'[x] = writers[x]
        /\ x \in shared' <=> x \in shared
  BY <1>7 DEF PromptsInv, PromptsTyping
<1>12. \A f \in Editors \ {e} : ~(Creating(edit[f]) /\ edit[f].prompt = p)
  BY <1>1, NotFresh DEF Stands
<1>13. \A f \in Editors \ {e} : Busy(edit[f]) /\ edit[f].prompt = p =>
        Numbered(edit[f])' /\ StillEntitled(edit[f])'
  <2>1. ASSUME NEW f \in Editors \ {e}, edit[f].prompt = p
        PROVE  Numbered(edit[f])' /\ StillEntitled(edit[f])'
    <3>1. edit'[f] = edit[f] /\ Numbered(edit[f]) /\ StillEntitled(edit[f]) /\ edit[f] \in Edits
      BY <1>7 DEF PromptsInv, PromptsTyping, Finish, PromptsRequest
    <3>2. StillEntitled(edit[f])'
      BY <1>7, <3>1 DEF StillEntitled, Stands, Entitled
    <3>3. edit[f].number \in Nat /\ Len(s) \in Nat
      BY <1>2, <3>1 DEF Edits
    <3>4. Numbered(edit[f])'
      BY <1>1, <1>2, <1>6, <1>9, <2>1, <3>1, <3>3 DEF Numbered, Stands
    <3> QED BY <3>2, <3>4
  <2> QED BY <2>1
<1>14. prompt'[p].state # "none"
  BY <1>1, <1>7 DEF Stands
<1> QED BY <1>7, <1>8, <1>10, <1>11, <1>12, <1>13, <1>14, WriteStep

-----------------------------------------------------------------------------
LEMMA PromptsNextHolds == PromptsInv /\ [PromptsNext]_promptsVars => PromptsInv'
<1> SUFFICES ASSUME PromptsInv, [PromptsNext]_promptsVars PROVE PromptsInv'
  OBVIOUS
<1>1. ASSUME NEW e \in Editors, PromptsStep(e) PROVE PromptsInv'
  <2>1. CASE StartCreatePrompt(e)
    BY <2>1, CreateHolds
  <2>2. CASE StartUpdatePrompt(e)
    BY <2>2, UpdateHolds
  <2>3. CASE StartDeletePrompt(e)
    BY <2>3, StartDeleteHolds
  <2>4. CASE StartVersion(e)
    BY <2>4, StartVersionHolds
  <2>5. CASE SeekSlug(e)
    BY <2>5, SeekSlugHolds
  <2>6. CASE InsertPrompt(e)
    BY <2>6, InsertPromptHolds
  <2>7. CASE UpdatePrompt(e)
    BY <2>7, UpdatePromptHolds
  <2>8. CASE DeletePrompt(e)
    BY <2>8, DeletePromptHolds
  <2>9. CASE ReadLatest(e)
    BY <2>9, ReadLatestHolds
  <2>10. CASE InsertVersion(e)
    BY <2>10, InsertVersionHolds
  <2>11. CASE FailEdit(e)
    BY <2>11, FinishHolds DEF FailEdit
  <2> QED BY <1>1, <2>1, <2>2, <2>3, <2>4, <2>5, <2>6, <2>7, <2>8, <2>9, <2>10, <2>11
          DEF PromptsStep
<1>2. CASE UNCHANGED promptsVars
  BY <1>2 DEF promptsVars, PromptsInv, PromptsTyping, PromptRows, Edits, Slugs,
              PromptsFresh, PromptsRow, PromptsRequest, Formed, Numbered, StillEntitled, Entitled, Stands, Creating, Writing, Busy
<1> QED BY <1>1, <1>2 DEF PromptsNext

\* Every reachable state of the prompt library has the inductive invariant:
\* an id being created is that request's alone, a user who passed the access
\* check stays entitled, a number that was read is at most one past the last.
THEOREM PromptsInvariant == PromptsSpec => []PromptsInv
BY PromptsInitHolds, PromptsNextHolds, PTL DEF PromptsSpec

\* However the requests that add versions overlap, and for any number of
\* prompts and requests, versions are numbered 1, 2, 3, ... without a gap.
THEOREM VersionsDense == PromptsSpec => []VersionsContiguous
<1>1. PromptsInv => VersionsContiguous
  BY DEF PromptsInv, PromptsRow, VersionsContiguous
<1> QED BY <1>1, PromptsInvariant, PTL

\* A prompt is written by its creator only, until it has once been visible to
\* its organization, and then by that organization's members only.
THEOREM WritersEntitled == PromptsSpec => []WritersHadAccess
<1>1. PromptsInv => WritersHadAccess
  BY DEF PromptsInv, PromptsRow, Entitled, WritersHadAccess
<1> QED BY <1>1, PromptsInvariant, PTL

-----------------------------------------------------------------------------
\* The slugs.  A row goes into the table where the unique index allows it.
Owned ==
    /\ \A p, q \in Prompts :
        Stands(p) /\ Stands(q) /\ prompt[p].org \in Orgs
          /\ prompt[p].org = prompt[q].org /\ prompt[p].slug = prompt[q].slug => p = q
    /\ \A p \in Prompts : Stands(p) => prompt[p].creator \in Authors

LEMMA PutKeepsOwned ==
    ASSUME PromptsInv, Owned, NEW p \in Prompts, NEW row, prompt' = [prompt EXCEPT ![p] = row],
           row.creator \in Authors, SlugIsFree(p, row.org, row.slug)
    PROVE  Owned'
<1>1. \A x \in Prompts : prompt'[x] = IF x = p THEN row ELSE prompt[x]
  BY DEF PromptsInv, PromptsTyping
<1>2. ASSUME NEW x \in Prompts, NEW y \in Prompts, Stands(x)', Stands(y)', prompt'[x].org \in Orgs,
             prompt'[x].org = prompt'[y].org, prompt'[x].slug = prompt'[y].slug
      PROVE  x = y
  BY <1>1, <1>2, NoOrgAssumption DEF Owned, Stands, SlugIsFree
<1>3. \A x \in Prompts : Stands(x)' => prompt'[x].creator \in Authors
  BY <1>1 DEF Owned, Stands
<1> QED BY <1>2, <1>3 DEF Owned

LEMMA OwnedHolds ==
    ASSUME PromptsInv, Owned, [PromptsNext]_promptsVars
    PROVE  Owned'
<1>1. CASE prompt' = prompt
  BY <1>1 DEF Owned, Stands
<1>2. ASSUME NEW e \in Editors, InsertPrompt(e) PROVE Owned'
  <2>1. PICK q \in Edits, p \in Prompts : q = edit[e] /\ p = q.prompt
    BY <1>2 DEF InsertPrompt, PromptsInv, PromptsTyping, PromptsRequest, Formed, Busy
  <2>2. q.actor \in Authors
    BY <1>2, <2>1 DEF InsertPrompt, PromptsInv, PromptsRequest, Formed, Creating
  <2> DEFINE org == IF q.visibility = "SYSTEM" THEN NoOrg ELSE q.org
             row == [state |-> "live", org |-> org, title |-> q.title, slug |-> q.slug,
                     visibility |-> q.visibility, creator |-> q.actor]
  <2>3. prompt' = [prompt EXCEPT ![p] = row] /\ SlugIsFree(p, row.org, row.slug)
    BY <1>2, <2>1 DEF InsertPrompt, Put
  <2>4. row.creator \in Authors
    BY <2>2
  <2> HIDE DEF row
  <2> QED BY <2>3, <2>4, PutKeepsOwned
<1>3. ASSUME NEW e \in Editors, UpdatePrompt(e) PROVE Owned'
  <2>1. PICK q \in Edits, p \in Prompts : q = edit[e] /\ p = q.prompt
    BY <1>3 DEF UpdatePrompt, PromptsInv, PromptsTyping, PromptsRequest, Formed, Busy
  <2>2. Stands(p) /\ prompt[p] \in PromptRows /\ prompt[p].creator \in Authors
    BY <1>3, <2>1 DEF UpdatePrompt, PromptsInv, PromptsTyping, Owned
  <2>3. PICK row : row = UpdatedRow(e)
    OBVIOUS
  <2>4. row.creator = prompt[p].creator /\ row.org = prompt[p].org
    BY <2>1, <2>2, <2>3 DEF UpdatedRow, PromptRows
  <2>5. prompt' = [prompt EXCEPT ![p] = row] /\ SlugIsFree(p, row.org, row.slug)
    BY <1>3, <2>1, <2>3, <2>4 DEF UpdatePrompt, Put
  <2> QED BY <2>2, <2>4, <2>5, PutKeepsOwned
<1>4. ASSUME NEW e \in Editors, DeletePrompt(e) PROVE Owned'
  <2>1. PICK p \in Prompts : p = edit[e].prompt
    BY <1>4 DEF DeletePrompt, PromptsInv, PromptsTyping, PromptsRequest, Formed, Busy
  <2>2. \A x \in Prompts : prompt'[x] = IF x = p THEN Deleted ELSE prompt[x]
    BY <1>4, <2>1 DEF DeletePrompt, PromptsInv, PromptsTyping
  <2>3. \A x \in Prompts : Stands(x)' => Stands(x) /\ prompt'[x] = prompt[x]
    BY <2>2 DEF Stands, Deleted, NoPrompt
  <2> QED BY <2>3 DEF Owned
<1>5. ASSUME NEW e \in Editors, PromptsStep(e) PROVE Owned'
  BY <1>1, <1>2, <1>3, <1>4, <1>5
     DEF PromptsStep, StartCreatePrompt, StartUpdatePrompt, StartDeletePrompt, StartVersion,
         Reads, Begin, SeekSlug, ReadLatest, InsertVersion, FailEdit
<1> QED BY <1>1, <1>5 DEF PromptsNext, promptsVars

\* Rows and requests have their types in every reachable state, and an
\* organization's slugs differ: the loop around existsSlug does not ensure it
\* when requests overlap, the unique index does.
THEOREM PromptsTypes == PromptsSpec => []PromptsTypeOK
<1>1. PromptsInit => Owned
  BY DEF PromptsInit, Owned, Stands, NoPrompt
<1>2. PromptsInv /\ Owned => PromptsTypeOK
  <2> SUFFICES ASSUME PromptsInv, Owned PROVE PromptsTypeOK
    OBVIOUS
  <2>1. versions \in [Prompts -> Seq(Nat \ {0})]
    <3>1. ASSUME NEW p \in Prompts PROVE versions[p] \in Seq(Nat \ {0})
      <4>1. versions[p] \in Seq(Nat) /\ \A i \in 1 .. Len(versions[p]) : versions[p][i] = i
        BY DEF PromptsInv, PromptsTyping, PromptsRow
      <4> QED BY <4>1
    <3> QED BY <3>1 DEF PromptsInv, PromptsTyping
  <2>2. \A e \in Editors : edit[e].pc # "idle" =>
          edit[e].prompt \in Prompts /\ edit[e].number \in Nat
    BY DEF PromptsInv, PromptsTyping, PromptsRequest, Formed, Busy, Edits
  <2>3. \A p, q \in Prompts :
          /\ Stands(p) => prompt[p].visibility \in Visibilities /\ prompt[p].creator \in Authors
          /\ Stands(p) /\ Stands(q) /\ prompt[p].org \in Orgs
               /\ <<prompt[p].org, prompt[p].slug>> = <<prompt[q].org, prompt[q].slug>> => p = q
    BY DEF PromptsInv, PromptsRow, Owned
  <2> QED BY <2>1, <2>2, <2>3 DEF PromptsTypeOK, PromptsInv, PromptsTyping
<1>3. PromptsSpec => []Owned
  BY <1>1, OwnedHolds, PromptsInvariant, PTL DEF PromptsSpec
<1> QED BY <1>2, <1>3, PromptsInvariant, PTL
=============================================================================
