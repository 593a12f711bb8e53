# Verification of AIOps Hub

TLA+ models of the API of AIOps Hub (`src/apps/api`), model-checked with TLC, and
theorems about them checked with TLAPS. The API is a NestJS process in front of
PostgreSQL. It serves many organizations (tenants); every request runs as an async
handler, and handlers interleave at each `await`. Database calls are single
statements at READ COMMITTED unless they are wrapped in `$transaction`. No explicit row
lock, version column or serializable transaction is used anywhere, so what a handler has
read may be stale by the time it writes. That is the subject of most of this project.

## Inventory

Paths are relative to `src/apps/api/src`.

| Part | State | Operations | Talks to | Hard behaviour |
|---|---|---|---|---|
| Authorization (`common/constants`, `common/authorization`, `common/auth/authorization.service.ts`) | none | role matrix, `hasPermissions`, resource policies | called by guards and services | evaluated on snapshots |
| Guards (`common/auth/*.guard.ts`) | request context | JWT check, membership, permission and role checks | Member rows | the check precedes the handler's own reads |
| Members (`modules/organizations/services/member-management.service.ts`) | Member rows | change role, remove, transfer ownership, leave | policies, event bus | last-owner protection by read, count, write |
| Sessions (`modules/auth`) | RefreshToken rows, cookies | register, login, refresh with rotation and reuse detection, logout, logout everywhere | users, audit rows | overlapping refreshes, crossing and lost answers, sweeps |
| Users (`modules/users`) | User rows | create, look up, last login | sessions | lock between check and use |
| Invitations (`invitations.service.ts`) | Invitation rows | invite (or renew), inspect, accept, revoke, list | members, event bus | accept against revoke and renew, unique indexes |
| Organizations (`organizations.service.ts`) | Organization, settings | create with owner, switch, update profile and settings | members, event bus | slug looked up before it is inserted |
| Event bus and audit log (`common/events`) | none (an rxjs Subject); AuditLog rows | publish, listeners | every service | in memory, after the commit, errors dropped |
| AI provider configurations (`modules/ai/services/ai-provider.service.ts`) | AiProviderConfig rows, a default flag | create, update, delete, validate, set default | OpenAI adapter, conversations | two defaults, no default |
| Prompt library (`prompt.service.ts`) | Prompt, PromptVersion rows | create, update, delete, new version, render | variable engine | next version from a stale latest one |
| Chat (`chat.controller.ts`, `chat-orchestrator.service.ts`, `conversation.service.ts`) | Conversation, Message rows, an async generator | create, stream, delete | memory, provider, event bus | disconnects, provider errors, overlapping streams |
| Memory (`conversation-memory.service.ts`, the memory providers) | ConversationSummary rows | build context, summarise in the background | provider, event bus | summaries computed from stale reads |
| Usage (`usage-event.listener.ts`, `usage-analytics.service.ts`) | AiUsageLog rows | log, aggregate | event bus | bills and stored answers come from different handlers; a summary is two queries without a transaction |
| Pure code (variable engine, SSE line reader of the OpenAI adapter, budget, context builder) | none | functions and a loop over fragments | prompts, chat, memory | cuts in the middle of a line, values that look like templates, boundaries |
| Encryption, HTTP filters and interceptors, throttling, configuration, web application, infrastructure | — | — | — | not modelled, see below |

What makes each part correct:

- Members: an organization always has an active owner, ownership moves only by the
  owner's own transfer, administrators cannot touch owners or each other, the audit
  log tells the truth.
- Sessions: a refresh token is exchanged once, a replay ends all the user's sessions,
  a client loses its session or is accused of a replay only for a cause, a revoked session
  stays revoked and only its user ends it.
- Invitations: a member joins at most once per invitation and with a role that was offered,
  a revoked invitation admits nobody, the status agrees with the member rows.
- Providers: at most one default configuration, and it goes only where somebody takes it
  away.
- Prompts: version numbers are dense, slugs of an organization differ, a prompt is written
  only by those it was open to.
- Organizations: slugs differ, and the trail of their changes is true.
- Chat: a question has one answer at most, what is billed is what was stored, every stream
  ends, costs get on record.
- Memory: no message is lost from the context or summarised twice.
- Usage: a summary's total and its breakdown agree as far as two queries can.
- Stream reader and renderer: the result does not depend on how the network cuts the body,
  nor, where no value looks like part of a template, on the order in which placeholders are
  replaced.

`PROJECT.json` lists every hazard with its line and the property that covers it.

## Modules

| Module | Role |
|---|---|
| `Authorization` | the permission matrix and `MemberPolicy`, as pure operators |
| `Ownership` | abstract: what member management promises, with no requests in sight |
| `Membership` | member management of one organization, request by request |
| `MCMembership` | instances of `Membership` for TLC |
| `MembershipProofs` | theorems about `Membership` |
| `Admission` | abstract: what the invitations of an organization promise |
| `Invitations` | invitations of one organization and the member rows they create, request by request |
| `MCInvitations` | instances of `Invitations` for TLC |
| `InvitationsProofs` | theorems about `Invitations` |
| `Sessions` | refresh-token sessions, request by request |
| `MCSessions` | instances of `Sessions` for TLC |
| `SessionsProofs` | theorems about `Sessions` |
| `Memory` | budget, trimming and choice of context, as pure operators |
| `Dialogue` | abstract: what conversations promise, with no generators or listeners in sight |
| `Chat` | conversations, the streams in them, the usage listener and the background summaries |
| `MCChat` | instances of `Chat` for TLC |
| `ChatProofs` | theorems about `Chat` |
| `Providers` | provider configurations of one organization, statement by statement |
| `ProvidersProofs` | theorems about `Providers` |
| `Prompts` | the prompt library, request by request |
| `PromptsProofs` | theorems about `Prompts` |
| `Organizations` | slugs of organizations and the trail of their changes |
| `Analytics` | the usage summary and the rows it counts |
| `Positions` | choosing from a sequence by position, without recursion |
| `EventStream` | the line reader of the OpenAI adapter's stream |
| `Rendering` | extraction of variables and rendering of a template, character by character |
| `TextsProofs` | theorems about `EventStream` |
| `Workspace` | `Providers`, `Prompts`, `Organizations`, `Analytics`, `EventStream` and `Rendering`, side by side |
| `MCWorkspace` | instances of `Workspace` for TLC |
| `WorkspaceProofs` | theorems about `Organizations`, `Analytics` and `Workspace` |

Names starting as a mapped definition and ending in a qualifier
(`OthersOwnAny`, `AcceptableToAnyone`, `SweptOverwriting`, ...) are not part of any
specification: each is the mapped definition with a plausible programming error, kept
beside it to show that a property notices.

### Membership

A Member row is identified with its user: `unique(userId, organizationId)` holds and
rows are only ever marked with `deletedAt`. `role` and `deleted` are the table.
`req[r]` is the local state of handler `r`: which operation, for whom, and the roles it
has read so far. An operation is

    Start*  ->  ReadActor, ReadTarget (either order: Promise.all)
            ->  Refuse | CountOwners (when an OWNER would go) | straight on
            ->  Write  ->  Publish

and every arrow is an `await` other handlers may run in. `Start*` is the guard chain
of `members.controller.ts`. Two guards read the membership one after the other; since
neither the first read nor the time between them is visible to anything later, both are
taken at the instant of the second. Requests the guards refuse change nothing and are
left out. The event is published in the same tick as the commit is seen, and the listener's
insert is awaited by nobody. The publication itself changes nothing anybody can see, so
`Publish` is the insert landing: at any time after the commit, whatever else commits or is
inserted before it. `auditOwner` and `auditLeft` are what a reader of the audit rows would
conclude. A handler counts as busy until its insert has landed; so where a specification
keeps a transfer, or every request, apart from others, it keeps them apart from the insert
too. `Fail` is a call
that throws, a crash of the process, or an audit insert whose error the listener logs
and drops; `lostEvent` remembers that it came between commit and event. `Join` is the
effect of an accepted invitation, `Init` the creation of the organization.

`SpecAlone` adds the assumption that clients do not overlap a transfer of ownership with
any other request of the organization (`TransferAlone`), its audit insert included. The code
does not enforce it; the run `MembershipRace` shows what happens without it. Two transfers
that overlap are left out by it as well.

### Invitations

An Invitation row is identified with its address: `unique(email, organizationId)` holds
and rows are never deleted, only hidden (`deletedAt`) when they are revoked. The database
compares addresses letter by letter; acceptance compares them in lower case. `Mailbox`
maps an address to its lower-case form, so that two spellings of one mailbox are two
addresses, two possible rows and, since registration stores `User.email` as it was typed
and unique in the same way, two possible users. (Login lowers the address it is given, so
the second of the two acts through the session registration gave it.) A row stores the hash
of the last token only: to present a link is to name its row, and a lost invitation mail is a
link nobody presents.

    StartInvite -> FindPending -> Renew | Create
    StartAccept -> FindMember  -> Mark (a member already) | AcceptTx -> PublishJoin
    StartRevoke -> Revoke -> PublishRevoke

`Create` fails when the unique index has the address, and `AcceptTx` rolls back as a whole
when the user has a member row, a removed member's included. The two events of an
acceptance are published and logged in one go; `auditJoined` stands for both. `Fail` is as
in `Membership`. `Expire` is the clock passing `expiresAt`, `Depart` is `Membership`'s
removal or leave seen from here. Members who were never invited (the owner who created the
organization) are left out: nothing here depends on them. Listing and inspecting change
nothing.

`offers` is history: which role was offered at which address. An acceptance uses the
invitation it has read, so one that overlaps a renewal joins with the role of before;
`RoleWasOffered` says that it is never a role that was not offered at all.

`SpecApart` adds that no two requests decide on one invitation at a time, from the read of an
acceptance or revocation to its write (`Apart`). Acceptances by one user may overlap each other,
and invitations and renewals may overlap everything. The code does not enforce it;
`InvitationsRace` shows what happens without. Only the refinement needs it: `OnlyInvitedJoin`,
`MembersGotAnOfferedRole` and `AuditIsTrue` are theorems about `Spec`, whatever overlaps.
The refinement reads an invitation's status into the sets of `Admission`, where it never
opens again, never admits two, and nobody who left comes back.

### Sessions

A token is a JWT over the session id and the seconds of signing and of expiry, so it *is*
the session, the second it was signed in and its kind: a second signature for one session in
the same second is the same string. Access and refresh tokens have the same secret, payload
and `verify()`, and no claim tells them apart. So a request may present either, and an access
token passes every check of a refresh up to the comparison of hashes. The row's `tokenHash`
is the second of its current refresh token. `reason` is `revokedReason`, with `Live` for a
null `revokedAt`.

A client is a cookie jar. `cookie[c]` is the refresh token in it: `Respond` (after a login or
a refresh) overwrites it, `ClearCookies` (the end of every logout) empties it, whatever it has
by then. A request may come from any client and present any token some client has ever
received (`issued`), since tokens are copied, kept and replayed. Three more variables are
history, and no action's guard looks at them: `spent` are the tokens exchanged for another
one, `overwritten` the sessions where an exchange replaced a token newer than the one it was
given for, `astray` the sessions of which an answer was lost, went to somebody whose jar had
another token than the one exchanged, or was under way together with another.

One action is one database call with the synchronous code around it. Verifying and signing
JWTs touches no shared state and is part of the step of the neighbouring call; the clock may
therefore move between steps but not inside one. A refresh is

    StartRefresh (verify, read row)  ->  ReadUser (user, hash check, sign)
        ->  RaiseAlarm (reuse: revokeAllByUser)
        |   Rotate (updateTokenHash by id)  ->  Respond (audit row, cookies)

and a logout

    StartLogout | StartLogoutAll  ->  RevokeSession | RevokeAll  ->  ClearCookies

where a logout with a token it does not accept goes straight to `ClearCookies`.

`Fail` loses a call or a response at any point. `SetUsable` stands for an operator who
locks or disables accounts in the database: no code does. `register` enters as a
`StartLogin` of a new account. `cleanupExpiredSessions` has no caller and is left out.

### Chat and Memory

`ChatOrchestrator.streamMessage` is an async generator and `ChatController.stream` consumes
it with `for await`. A stream's `pc` says where the generator is: at a yield (`start`,
`token`, `usage`, `done`, `error`), where only the consumer can move it, or between two
yields.

    Open -> Deliver -> StoreQuestion -> BuildContext -> model
    model -> Chunk -> Deliver -> model               (a token)
          -> FinishAnswer -> Deliver -> StoreAnswer | FailAnswer -> DeliverLast
          -> ProviderFails | ProviderAborts -> StorePartial | FailPartial -> DeliverLast

`Deliver` is the consumer writing an event and asking for the next. `HangUp` is a client that
leaves before the answer has ended, and changes nothing but the history variable `left`. The
controller would throw out of its loop once `req.on('close')` has been heard, but on Node 22,
the oldest version `package.json` admits, a request emits `close` when its body has been read,
which the body parser has done before the guards run and the listener is attached. So
`isClosed` stays false, and what is written after the client has left is dropped with its
socket. The branch at `chat.controller.ts:123` is not modelled: nothing leads to it.
`FailEarly`, `FailAnswer` and `FailPartial` are the errors of a database call, be it because
the conversation is gone or because of a `Fault`; a fault may hit after the row was committed.
`Chunk` carries no text: an answer is its length.

The event bus is synchronous, its listeners are async and nobody awaits them, so `bus` holds
events whose insert is under way and `job` the summary an answer may have set off. `LogUsage`
and `DropUsage` are the usage listener, `Trigger`, `StoreSummary` and `LoseSummary` are
`triggerSummarizationIfNeeded` and `summarize`. A nested Prisma `include` is read as one
snapshot. Messages are ordered by `createdAt`, which is taken to agree with the order of
their commits, and are named by their position.

`Dialogue` has none of this: conversations, the thread of what was said in each, and exchanges
that are `silent`, `asked` or `settled`. `Chat` implements it with the messages read as sayings
(question, answer, cut answer, preamble), the places of the generator as phases, `bus` as the
bills owed and `usage` as the ledger. What the catch blocks, the consumer and the listeners do
is then one of a few acts: an exchange is settled once, where it asked, together with its answer
and its bill, except that it may break off unpaid and that a database fault leaves open whether
an answer billed as failed was kept. Contexts and summaries are not part of it.
Nor does a bill leave the ledger, so the run checks `UsageIsKept` with the refinement; it has a
theorem of its own all the same.

`Memory` has the arithmetic: tokens as characters over four, the shares of the window, the
trimming from the oldest message on, the messages after the latest summary. No route sets
`memoryStrategy`: conversations use `SLIDING_WINDOW` unless a row is edited by hand. The
summaries are modelled because the code is there and runs for such rows.

### Providers

`create`, `update` and `setDefault` read outside any transaction and then write in one.
`request[h]` holds the transaction's uncommitted `writes`, each of which locks its row.
`BeginTx` takes the set of rows `updateMany` is going to visit, as of the statement's
snapshot; `UnsetDefault` waits until none of them is locked and skips those that are no
longer default, as READ COMMITTED does; `Write` is the `create` or `update` by id and fails
where the row is gone or the name is taken; `Commit` publishes all of it. `Rollback` stands
for invalid credentials, a deadlock, the transaction's timeout, a conflict, a conversation
that still refers to the row, or a fault. `settled` is history: whether the last transaction
to set a default ran without meeting another one.

### Prompts

A request reads the prompt and decides on what it read (`Reads`), then looks for a slug one
query at a time (`SeekSlug`) or reads the latest version (`ReadLatest`), and then writes by
id. In between other requests may have changed the row or deleted it. A slug is a base and a
suffix. Names of templates, types, descriptions and the text of versions are left out. The
unique indexes `(organizationId, slug)` and `(promptId, version)` are guards of the writes;
rows without an organization never collide in the first. A `SYSTEM` prompt that is given
another visibility keeps no organization and is found by nobody afterwards: `Found` says so
and no property forbids it. `writers` and `shared` are history.

### Organizations, Analytics, EventStream, Rendering

`Organizations` is the slug of an organization: its search at creation, its check and write
at a change, the `SlugChanged` event after it. `trail` is what a reader of the events has
seen; `blurred` marks organizations of which two changes overlapped or an event was lost.
Names and settings go through the same read, write and publish and are left out.

`Analytics` is `getSummary`: a count and a `groupBy` over the same range, awaited one after
the other, while rows are inserted. A day is the resolution of the range.

`EventStream` is `streamCompletion`'s loop: a body, any sequence of fragments of lines and
newlines, arrives in chunks cut anywhere; the rest of an unfinished line waits in `buffer`.
`LinesWithText` says which whole lines yield a text; blank lines, comments, `[DONE]`, data
without text and lines that do not parse are skipped alike. `Init` picks every body of up to
`MaxBody` pieces, its last line ended or not, and each step every possible length of the next
chunk. A text is yielded line by line, and one yielded stands for its line.

`Rendering` is the variable engine. A text is a sequence of characters, and a placeholder is
whatever stretch of it the regular expression matches, so that braces next to a placeholder,
and what a value leaves next to its neighbours, count as they do in the code. `Replaced` is
`String.replace` with the flag `g`, in the text as it has become by then, with the patterns
`$$`, `$&`, `` $` `` and `$'` expanded. Names have one letter, and spaces stand for `\s`.
`RenderedAtOnce` compares with a rendering of all placeholders at once, where no value holds a
brace or a pattern and the template has no braces but those of its placeholders. All three
conditions are needed: with `{y}` for `x`, `{{{x}}} {{y}}` becomes `{{y}} {{y}}` and is
replaced again.

What the code does with loops over a text, splitting it and collecting the variables, both
modules say by positions: the lines are what is between neighbours of the sorted `Ends`, the
variables stand at the `FirstStarts`. `Positions` picks the k-th of a set of numbers by its
rank. Nothing in `EventStream` is recursive, so the provers can follow it for bodies of any
length; `Rendering` puts texts together with `FlattenSeq`, and is model-checked only.

`Workspace` puts these and `Providers` and `Prompts` next to each other. They share no row,
and a step of one changes nothing of the others; `part` picks the one that moves in a
behaviour. So the run explores each alone, and its states are their sum and not their
product. It is a way to check them in one run and models nothing of its own; but for `WorkspaceTyped`,
what is proved is proved of the parts by themselves.

## What is checked

| Run | Specification, bounds | Shows |
|---|---|---|
| `MembershipAlone` | `SpecAlone`, 3 users, 2 handlers, failures | `TypeOK`, `OneOwner`, `AuditNamesOwner`, `AuditTellsDepartures`, `OwnersYieldOnlyThemselves`, and that `Membership` implements `Ownership` |
| `MembershipSerial` | `Spec`, 3 users, 1 handler, 1 or 2 initial owners, failures | `SomeOwner`, `OwnersNeverMultiply`, `HierarchyRespected` |
| `MembershipRace` | `Spec`, 3 users, 2 handlers | `SomeOwner` is violated |
| `InvitationsApart` | `SpecApart`, 3 addresses (2 of one mailbox), 2 of them invited, 2 users, 2 handlers, failures | `TypeOK`, `MembersWereInvited`, `AuditMatchesRows`, `RoleWasOffered`, and that `Invitations` implements `Admission` |
| `InvitationsRace` | `Spec`, 2 addresses of one mailbox, 2 users, 2 handlers | `OnlyPendingIsRevoked` is violated |
| `SessionsConcurrent` | 2 users, 2 sessions, 1 client, 2 handlers, 2 seconds, no failures | `TypeOK`, `RevocationIsFinal`, `EndedByItsUser`, `ReasonIsKept` |
| `SessionsClients` | 1 user, 1 session, 2 clients, 2 handlers, 4 seconds, failures | `LockoutHasCause`, `AlarmHasCause`, `SpentIsDead` |
| `SessionsReplay` | `FairSpec`, 1 user, 2 sessions, 1 client, 2 handlers, 2 seconds, no failures | `ReplayIsPunished` |
| `SessionsRace` | 1 user, 2 sessions, 1 client, 2 handlers | `SingleUse` is violated |
| `ChatConcurrent` | `FairSpec`, 1 conversation, 2 streams, 1 chunk an answer, 1 fault | `TypeOK`, `BilledAsStored`, `AnswersFollowQuestions`, `SummariesPartition`, `ContextHasNoHole`, `StreamsEnd`, `CostsReported`, and that `Chat` implements `Dialogue` |
| `ChatRace` | `Spec`, the same with shorter questions and without faults | `CancellationAborts` is violated |
| `Workspace` | `WorkspaceSpec`, 2 rows, 2 requests and 2 names of each kind, 3 edits, slug changes and log rows, 6 pieces of a body, 4 snippets of a template | `WorkspaceTypeOK`, `DefaultsOnlyByOverlap`, `DefaultGoesOnlyByChoice`, `VersionsContiguous`, `WritersHadAccess`, `SlugTrail`, `SummaryAddsUp`, `TextsInOrder`, `RenderedAtOnce` |

Bounds. Two handlers give every pairwise race, and the properties that fail do so with
two. Three users are an owner, a target and a third party; `OfferedRoles` has `OWNER`,
which the DTO must refuse, `ADMIN` and `MEMBER`, the roles that differ for the policies
of member management. Two initial owners stand for the state two racing transfers leave
behind; only there does `CountOwners` let a handler through. `Life` is two seconds instead
of thirty days and `AccessLife` one instead of fifteen minutes, so that a clock of four
seconds passes both the expiry of a JWT and that of a row, and one of two seconds at least one
refresh in a later second than the login and the expiry of an access token. What
`SessionsClients` is about concerns one session at a time, so it has one, and gives the room
to two clients, a longer clock and failures; sweeps over several sessions are in
`SessionsConcurrent`. In `SessionsReplay` access tokens live for no time: an alarm is
punished in the same way whichever token has raised it, and `SessionsConcurrent` has alarms
raised by them.
For invitations, two registered spellings of one mailbox and one unregistered address of
another cover equal, equal but for case, and different. `TwoRows` lets any two of the three be
invited, since two rows make every case of one mailbox and of two. `OWNER` is offered and must
be refused, `ADMIN` and `MEMBER` are two roles that a renewal can exchange.
Users, sessions and handlers are symmetric, addresses are not; the liveness runs do without symmetry.

In `ChatConcurrent` two streams and their two listeners and jobs give every pairwise race in
a conversation. `Interval` is 2 and there is a system prompt, so that the first answer makes a
summary due and both answers may. Of the window of 8000 tokens 4164 are left for messages; a
question of 9000 characters fits and two of them do not, so that trimming happens. One chunk
is an answer and none is no answer; a second one changes no guard. One database fault may
strike, at any call. In `Workspace`, three edits are a creation and two requests that
overlap on what it created; three slug changes are two that overlap and one after them. Both
titles have the same slug, so that every name collides, and one user is in two
organizations, which tells the prompt's organization from the user's. Two lines have a text,
each of two fragments and one the other turned round, so that a line cut in the middle, glued
to its neighbour or taken twice is another line or none. Six pieces are both of them ended, a
line of noise between two shorter ones, blank lines, or a last line without an end. A template
is put together from up to four of these snippets: a placeholder, another one with spaces in
it, a single brace of either kind, and a letter, which is enough for two placeholders with
braces around one of them; values are nothing, text with a dollar, part of a placeholder, a
whole one, and each pattern. Rows, requests and names are symmetric.

Fairness. Only the two `FairSpec` assume any. In `Sessions` it is weak fairness of the steps an
accepted request takes by itself, since the event loop resumes every handler whose await has
settled. Starting a request, the clock and the operator are not fair, and the run assumes that
no call fails. In `Chat` it is weak fairness of the server's work as a whole: while any stream,
listener or job can move, something of it does, because the event loop runs what is ready, a
database call returns or throws, and `fetch` gives up on a model that has gone silent. That
nobody is starved follows from the work being finite. Clients are not fair: they need not ask,
read on, hang up or delete, and calls may fail.

### Disagreements with the sources

- `MembershipRace`. Last-owner protection counts owners and checks the policy on
  snapshots, then writes by row id. An owner starts a transfer to a member whose leave or
  removal is in flight; both commit; the old owner is demoted and the new one is deleted.
  The comments at `member-management.service.ts:78`, `:135` and `:213` call the opposite a
  business invariant.
- `InvitationsRace`. Revocation checks that the invitation it read is pending and then
  writes `REVOKED` by id. An acceptance that commits in between leaves a revoked
  invitation with a member, and an audit log that says both, although
  `invitations.controller.ts:109` and the error at `invitations.service.ts:184` say that
  only pending invitations can be revoked.
- `SessionsRace`. Two refreshes with one token both compare it with the row before either
  writes, and both get a new token, although `CHANGELOG.md:49` speaks of single-use
  exchanges and `docs/auth-architecture.md:106` says the old token is immediately
  invalidated. One of the two clients then holds a token that is not current, and its next
  refresh is taken for a replay: all sessions of the user end. `SingleUse` is proved for requests
  one at a time; `SpentIsDead`, `AlarmHasCause` and `LockoutHasCause` are about overlapping
  ones and name this among the causes (`overwritten`, `astray`).
- `ChatRace`. The client leaves in the middle of an answer; the controller does not hear of it
  (`chat.controller.ts:115`, see above), the model is read to its end, and the answer is stored
  whole and billed as `SUCCESS`. `docs/ADR/0006-conversation-streaming.md:29` says that the
  stream aborts, the partial message is saved and the status is `CANCELLED`. `ProviderAborts`
  shows when the block that would do so does run: when the provider's call itself is aborted.

More that the models show and no source contradicts: two transactions that set a default and
overlap can leave two (`DefaultsOnlyByOverlap` is about all the others); an answer that cannot
be stored is billed as `FAILED` although the client has read it; an access token presented for
a refresh ends all sessions of its user, though nothing was replayed (`AlarmHasCause`); an
acceptance that overlaps a renewal joins with the older role (`RoleWasOffered`); a logout that
overlaps an alarm overwrites the reason of the revocation (`ReasonIsKept` says that nothing else
does); two transfers that overlap leave two owners; values are looked into when a template
is rendered (`RenderedAtOnce`).

## What is proved

For every set of users, addresses, sessions, handlers, conversations, streams, configurations,
prompts, organizations and requests (users finite for the ownership theorems), every way in
which addresses share mailboxes and users belong to organizations, every life time, clock
bound, window, length of a message and bound on requests:

| Theorem | Statement | Assumes |
|---|---|---|
| `MembershipProofs!TypeCorrect` | `Spec => []TypeOK` | |
| `MembershipProofs!DeparturesAreAudited` | `Spec => []AuditTellsDepartures` | |
| `MembershipProofs!ExactlyOneOwner` | `[]OneOwner` | one initial owner, `SpecAlone` |
| `MembershipProofs!MembershipImplementsOwnership` | `Membership` implements `Ownership` | one initial owner, `SpecAlone` |
| `MembershipProofs!AuditedOwner` | `[]AuditNamesOwner` | one initial owner, `SpecAlone` |
| `MembershipProofs!OwnersYield` | `OwnersYieldOnlyThemselves` | one initial owner, `SpecAlone` |
| `MembershipProofs!SerialOwnerRemains` | `[]SomeOwner` | one request at a time |
| `MembershipProofs!SerialOwnersNeverMultiply` | `OwnersNeverMultiply` | one request at a time |
| `MembershipProofs!SerialHierarchy` | `HierarchyRespected` | one request at a time |
| `InvitationsProofs!TypeCorrect` | `Spec => []TypeOK` | |
| `InvitationsProofs!OnlyInvitedJoin` | `Spec => []MembersWereInvited` | |
| `InvitationsProofs!AuditIsTrue` | `Spec => []AuditMatchesRows` | |
| `InvitationsProofs!MembersGotAnOfferedRole` | `Spec => []RoleWasOffered` | |
| `InvitationsProofs!InvitationsImplementAdmission` | `Invitations` implements `Admission` | `SpecApart` |
| `SessionsProofs!TypeCorrect` | `Spec => []TypeOK` | |
| `SessionsProofs!RevokedForGood` | `Spec => RevocationIsFinal` | |
| `SessionsProofs!OnlyItsUserEndsASession` | `Spec => EndedByItsUser` | |
| `SessionsProofs!LockoutsHaveCauses` | `Spec => []LockoutHasCause` | |
| `SessionsProofs!AlarmsHaveCauses` | `Spec => []AlarmHasCause` | |
| `SessionsProofs!SpentTokensDie` | `Spec => []SpentIsDead` | |
| `SessionsProofs!ReasonsAreKept` | `Spec => ReasonIsKept` | |
| `SessionsProofs!SerialSingleUse` | `SingleUse` | one request at a time |
| `ChatProofs!ChatTyped` | `Spec => []TypeOK` | |
| `ChatProofs!SummariesNeverOverlap` | `Spec => []SummariesPartition` | |
| `ChatProofs!BillsAgreeWithAnswers` | `Spec => []BilledAsStored` | |
| `ChatProofs!OneAnswerPerQuestion` | `Spec => []AnswersFollowQuestions` | |
| `ChatProofs!ContextsAreWhole` | `Spec => []ContextHasNoHole` | |
| `ChatProofs!CostsOutliveConversations` | `Spec => UsageIsKept` | |
| `ChatProofs!ChatImplementsDialogue` | `Chat` implements `Dialogue` | |
| `ProvidersProofs!ProvidersTyped` | `ProvidersSpec => []ProvidersTypeOK` | |
| `ProvidersProofs!OneDefault` | `ProvidersSpec => []DefaultsOnlyByOverlap` | |
| `ProvidersProofs!DefaultStays` | `ProvidersSpec => DefaultGoesOnlyByChoice` | |
| `PromptsProofs!PromptsTypes` | `PromptsSpec => []PromptsTypeOK` | |
| `PromptsProofs!VersionsDense` | `PromptsSpec => []VersionsContiguous` | |
| `PromptsProofs!WritersEntitled` | `PromptsSpec => []WritersHadAccess` | |
| `TextsProofs!TextsArriveInOrder` | `EventStreamSpec => []TextsInOrder` | |
| `WorkspaceProofs!TrailsLeadToSlugs` | `OrganizationsSpec => []SlugTrail` | |
| `WorkspaceProofs!SummariesAddUp` | `AnalyticsSpec => []SummaryAddsUp` | |
| `WorkspaceProofs!WorkspaceTyped` | `WorkspaceSpec => []WorkspaceTypeOK` | |

Why the invariants are stronger than the properties:

- `Typed` (Membership): that a removal marks an existing row is known only from the
  handler's earlier read, so `Handlers` says that a row once seen goes on existing.
- `OwnerInv`: `OneOwner` survives a write only because no handler past its reads is about
  to surprise it. `Settled` says so: who was read as not being the owner still is not, the
  actor of a transfer in flight is the owner, its target is a member, and nobody is past
  `CountOwners`, whose count cannot exceed one. `TransferAlone` is what keeps `Settled`.
- The refinement is proved from `OwnerInv`, write by write: a step that leaves the rows
  alone stutters, a transfer is `Transfer`, a removal or a leave is `Depart` or, of a row
  already marked, a stutter.
- `Typed` (Invitations): a handler that found an invitation knows that its row exists, and
  an accepting one that its user owns the mailbox; neither fact can become false.
  `MembersWereInvited` and `AuditMatchesRows` are inductive with it.
- `OffersMade` (Invitations): what an invitation offers now, and what a handler that is
  accepting has read of it, was offered; offers are never taken back. A member's role is the
  one its handler had read, whatever was renewed meanwhile.
- `ApartInv`: the refinement needs to know that what a handler found pending still is when
  it writes. `Apart` keeps all others from deciding, so it is, or the same user has accepted it
  and has a member row, and the write changes nothing (`HeldOK`).
- `Typed` (Sessions): a presented token was issued and names an existing row, and so does what
  is in a jar (`CookiesIssued`).
- `HandsInv`: `LockoutHasCause` is about the jar; a rotation makes another token current before
  the jar has it. `InHand` therefore follows a session that is not `astray` from its creation to
  its jar: one answer at most is under way, at most one jar holds the session, the jar's token
  is the row's, or the row's is in the answer under way to that jar.
- `ExchangesInv`: hashes do not run ahead of the clock, and in a session without an overlapping
  exchange that `overwritten` records, every refresh token in anybody's hands is the row's, about
  to be, or exchanged before (`CurrentOrDead`), and an exchanged one is older than the row's.
  So a token that mismatches was exchanged, is an access token, or belongs to such a session.
- `SerialInv` (Sessions): a handler that is alone has read the row as it is, so a token that
  passes the comparison of hashes is not a spent one.
- `ProvidersInv`: one default is one default only because a setter that has met no other
  holds them all. `AloneHoldsAll` says so, at its first statement as the rows it is going to
  visit and later as the rows it has written; `WritesMeanIt` says that a setter's writes leave
  one default and that no other transaction makes one; `LocksExclude` that no two hold a row.
  `DefaultGoesOnlyByChoice` follows from it commit by commit.
- `PromptsInv`: the id of a prompt being created is that request's alone (`Fresh`); who
  passed the access check stays entitled whatever becomes of the visibility (`StillEntitled`,
  because the creator never changes and `shared` only grows while the row stands); the number
  read is at most one past the last (`Numbered`), so that a stale one is refused by the index
  and the one that is not refused is the next. Slugs are a second invariant on top, `Owned`.

- `SerialInv` (Membership): a handler that is alone sees the rows as they are, so its count of
  owners is one of now. A write then ends one of several ownerships, or moves one, or none.
- `Formed`, `Staged`, `InContext` (Chat), each on top of the one before. `Formed` has the chain
  of the summaries: their versions are 1 to n, each goes on where the one before stopped, and a
  summary being written starts where the latest stops or has a version that is taken by now.
  `Staged` says which rows a stream can have at which point of its life, so that an answer or a
  bill of a stream that has not concluded cannot exist. `InContext` says what a context in use
  is worth by now: messages are only appended and summaries only added while a conversation
  lives, so what was true of it when it was read stays true. Bills and answers come from
  different handlers; `Verdict` relates them stream by stream. The thirteen steps of a stream
  are of three kinds (`Walks`, `Asks`, `Concludes`), and the proofs are by kind.
- The refinement of `Dialogue` is proved from `Formed` and `Staged`, step by step
  (`StreamInDialogue`, `AsideInDialogue` and their like): a step between a stream's acts leaves
  its phase, the messages and the bills alone and stutters (`Unheard`); one that concludes is
  `Answer`, `CutShort`, `Fail`, `GoWrong` or `BreakOff`, of an exchange that by `QuestionsTell`
  has asked where the conversation stands (`Settling`). A row stored at the end of a
  conversation is a saying at the end of its thread (`SaidFacts`).
- `NamesInv` (Providers), on top of `ProvidersInv`: uniqueness of names is that of committed
  rows, but a commit shows what its transaction wrote, so the invariant is about names written
  and not yet committed: they differ from those of live rows and of other transactions' writes,
  and a row written for another reason keeps its name, because nobody else can touch it.
- `OrganizationsInv`: where no two changes of an organization have overlapped, the one in flight
  has read the slug the trail leads to (`Traced`), and until it publishes the slug is the one it
  wrote. An id being created is that request's alone, and its trail is empty.
- `AnalyticsInv`: rows are only added, so what a range held at the first query it holds at the
  second; a row has one status, so the breakdown adds up to the rows counted by it.
- `StreamInv`: the yielded texts say nothing about what the next chunk will complete, so the
  invariant adds that `buffer` is the unfinished line of what has been read. `SplitJoin` is then
  the step: the lines of a text that goes on are the lines that had ended, followed by those of
  the unfinished line with what came. It follows from where the newlines are (`EndsJoin`), whose
  ranks add up (`JoinNth`), and `TextsJoin` says the same of the texts of lines.

Only model-checked: the liveness properties `ReplayIsPunished`, `StreamsEnd` and `CostsReported`,
which are out of reach of the prover, and `RenderedAtOnce`, since texts that are flattened from
pieces of any length take an induction over data. Every other property of the passing runs is a
theorem.

## Not modelled

- The web application, health checks, credential encryption, DTO validation other than the
  role list and reserved slugs, response formatting, throttling, configuration, containers and
  scripts: no protocol state, or pure I/O.
- The access tokens as the guards of other routes use them: `Membership` and the others take
  who is asking as given. `Sessions` has them where the session protocol meets them.
  `cleanupExpiredSessions` has no caller.
- Estimates of tokens and costs: sums over lengths of texts and floating-point prices. The
  aggregations of usage by day, model and user are one query each.
- The other calls of the OpenAI adapter are one HTTP request each, with no state.
- Names, descriptions and settings of organizations, templates and types of prompts, model
  parameters of configurations: data no guard looks at.
- A request that reads a prompt or configuration for a conversation's creation: the foreign
  keys are checked by the database in the insert.

## What is left

The theorems of one request at a time, for requests that do not overlap although
there are several. A case with both memory strategies in one run.
