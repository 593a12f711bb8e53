------------------------------ MODULE Providers ------------------------------
(***************************************************************************)
(* The AI provider configurations of one organization: AiProviderService   *)
(* over PrismaAiProviderRepository.  A request reads first, outside any    *)
(* transaction, asks the provider whether the credentials are valid, and   *)
(* then writes in a transaction at READ COMMITTED: a statement sees what   *)
(* was committed when it began, waits for rows another transaction has     *)
(* written, and looks again at those it waited for, and at no others.      *)
(***************************************************************************)
EXTENDS Integers, FiniteSets

CONSTANTS
    Configs,        \* row ids; one is never used twice
    Names,          \* unique(organizationId, name)
    NoName,
    Administrators  \* requests in flight

ASSUME NoNameAssumption == NoName \notin Names

VARIABLES
    config,         \* the AiProviderConfig rows
    request,        \* the local state of each request, its transaction included
    settled         \* was the last default set by a transaction that met no
                    \* other one setting a default (history)

providersVars == <<config, request, settled>>

Flags == {"absent", "true", "false"}
NoConfig == [state |-> "none", name |-> NoName, default |-> FALSE]
Gone == [state |-> "gone", name |-> NoName, default |-> FALSE]
Row(name, default) == [state |-> "live", name |-> name, default |-> default]

\* target and what the request's DTO asks of it; the rows updateMany has yet
\* to visit; the transaction's uncommitted writes, each of which locks its row
NoRequest ==
    [pc |-> "idle", target |-> "none", name |-> NoName, flag |-> "absent",
     todo |-> {}, writes |-> <<>>, alone |-> TRUE]

IsLive(k) == config[k].state = "live"
Defaults == {k \in Configs : IsLive(k) /\ config[k].default}
Open(h) == request[h].pc \in {"unset", "write", "commit"}
SetsDefault(h) == request[h].flag = "true"
Setting(h) == Open(h) /\ SetsDefault(h)
Locked(h, k) == \E g \in Administrators \ {h} : k \in DOMAIN request[g].writes
Answered(h) == request' = [request EXCEPT ![h] = NoRequest]

ProvidersInit ==
    /\ config = [k \in Configs |-> NoConfig]
    /\ request = [h \in Administrators |-> NoRequest]
    /\ settled = TRUE

Load(h, pc, k, name, flag) ==
    /\ request[h].pc = "idle"
    /\ request' = [request EXCEPT ![h] =
            [NoRequest EXCEPT !.pc = pc, !.target = k, !.name = name, !.flag = flag]]
    /\ UNCHANGED <<config, settled>>

\* findByName finds none; the row gets a fresh id, isDefault ?? false.
StartCreate(h) ==
    \E k \in Configs, n \in Names, flag \in {"true", "false"} :
        /\ config[k] = NoConfig
        /\ \A g \in Administrators : request[g].target # k
        /\ \A j \in Configs : config[j].name # n
        /\ Load(h, "begin", k, n, flag)

StartUpdate(h) ==
    \E k \in Configs, n \in Names \cup {NoName}, flag \in Flags :
        IsLive(k) /\ Load(h, "begin", k, n, flag)

StartSetDefault(h) ==
    \E k \in Configs : IsLive(k) /\ Load(h, "begin", k, NoName, "true")

StartDelete(h) ==
    \E k \in Configs : IsLive(k) /\ Load(h, "delete", k, NoName, "absent")

-----------------------------------------------------------------------------
\* The transaction begins.  unsetDefault's updateMany, where there is one,
\* takes the rows that are default by now.
BeginTx(h) ==
    /\ request[h].pc = "begin"
    /\ LET met == SetsDefault(h) /\ \E g \in Administrators \ {h} : Setting(g)
       IN request' = [g \in Administrators |->
            IF g = h
            THEN [request[h] EXCEPT
                    !.pc = IF SetsDefault(h) THEN "unset" ELSE "write",
                    !.todo = IF SetsDefault(h) THEN Defaults ELSE {},
                    !.alone = ~met]
            ELSE [request[g] EXCEPT !.alone = @ /\ ~(SetsDefault(h) /\ Setting(g))]]
    /\ UNCHANGED <<config, settled>>

\* It waits for those another transaction holds, and passes over those that
\* are no default any more.
UnsetNothing(k) == config[k]
Unset(k) == [config[k] EXCEPT !.default = FALSE]

UnsetDefault(h) ==
    /\ request[h].pc = "unset"
    /\ \A k \in request[h].todo : ~Locked(h, k)
    /\ request' = [request EXCEPT
            ![h].pc = "write",
            ![h].todo = {},
            ![h].writes = [k \in request[h].todo \cap Defaults |-> Unset(k)]]
    /\ UNCHANGED <<config, settled>>

\* The row as the transaction sees it, its own writes included.
Seen(h, k) == IF k \in DOMAIN request[h].writes THEN request[h].writes[k] ELSE config[k]

\* The fields of the DTO that are given; a new row starts as no default.
UpdatedResetting(h) ==
    LET q == request[h]
        old == Seen(h, q.target)
    IN Row(IF q.name = NoName THEN old.name ELSE q.name, q.flag = "true")
Updated(h) ==
    LET q == request[h]
        old == Seen(h, q.target)
    IN Row(IF q.name = NoName THEN old.name ELSE q.name,
           IF q.flag = "absent" THEN old.default ELSE q.flag = "true")

\* unique(organizationId, name): waits for a transaction that holds or takes
\* the name, fails where a row has it.
NameIsFree(h, name) ==
    \A k \in Configs \ {request[h].target} :
        config[k].name # name /\ \A g \in Administrators \ {h} :
            k \in DOMAIN request[g].writes => request[g].writes[k].name # name

Writable(h) ==
    LET q == request[h] IN
    /\ ~Locked(h, q.target)
    /\ config[q.target].state # "gone"
    /\ NameIsFree(h, Updated(h).name)

\* create, or update by id: fails where the row has been deleted.
Write(h) ==
    /\ request[h].pc = "write"
    /\ Writable(h)
    /\ request' = [request EXCEPT
            ![h].pc = "commit",
            ![h].writes = [k \in {request[h].target} \cup DOMAIN @ |->
                IF k = request[h].target THEN Updated(h) ELSE @[k]]]
    /\ UNCHANGED <<config, settled>>

Commit(h) ==
    /\ request[h].pc = "commit"
    /\ config' = [k \in Configs |-> Seen(h, k)]
    /\ settled' = IF SetsDefault(h) THEN request[h].alone ELSE settled
    /\ Answered(h)

\* Invalid credentials, a row that is gone, a name that is taken, a deadlock,
\* the transaction's timeout, a fault: the request fails and leaves nothing.
Rollback(h) ==
    /\ request[h].pc \in {"begin", "unset", "write", "commit", "delete"}
    /\ Answered(h)
    /\ UNCHANGED <<config, settled>>

\* A statement of its own, which waits for the row; the foreign key of a
\* conversation may forbid it (Rollback).
DeleteConfig(h) ==
    LET k == request[h].target IN
    /\ request[h].pc = "delete"
    /\ IsLive(k)
    /\ ~Locked(h, k)
    /\ config' = [config EXCEPT ![k] = Gone]
    /\ Answered(h)
    /\ UNCHANGED settled

ProvidersStep(h) ==
    \/ StartCreate(h) \/ StartUpdate(h) \/ StartSetDefault(h) \/ StartDelete(h)
    \/ BeginTx(h) \/ UnsetDefault(h) \/ Write(h) \/ Commit(h)
    \/ Rollback(h) \/ DeleteConfig(h)

ProvidersNext == \E h \in Administrators : ProvidersStep(h)

ProvidersSpec == ProvidersInit /\ [][ProvidersNext]_providersVars

-----------------------------------------------------------------------------
Rows == [state : {"none", "live", "gone"}, name : Names \cup {NoName}, default : BOOLEAN]
Requests ==
    [pc : {"idle", "begin", "unset", "write", "commit", "delete"},
     target : Configs \cup {"none"}, name : Names \cup {NoName}, flag : Flags,
     todo : SUBSET Configs, writes : UNION {[ks -> Rows] : ks \in SUBSET Configs},
     alone : BOOLEAN]

\* Rows and requests have their types, and no two rows share a name.
ProvidersTypeOK ==
    /\ config \in [Configs -> Rows]
    /\ \A j, k \in Configs : IsLive(j) /\ IsLive(k) /\ config[j].name = config[k].name => j = k
    /\ request \in [Administrators -> Requests]
    /\ settled \in BOOLEAN

\* An organization has more than one default configuration only as long as
\* the last transaction that set one overlapped another that did: one that
\* runs alone leaves a single default, whatever creations, renames and
\* deletions go on meanwhile.
DefaultsOnlyByOverlap == settled => \A j, k \in Defaults : j = k

\* No failure and no race takes the default away.  Where there is none any
\* more, somebody deleted it or took the flag from it.
DefaultGoesOnlyByChoice ==
    [][Defaults # {} /\ Defaults' = {} =>
        \E h \in Administrators :
            /\ request[h].target \in Defaults
            /\ request[h].pc = "delete" \/ request[h].flag = "false"
            /\ request'[h] = NoRequest]_providersVars
=============================================================================
