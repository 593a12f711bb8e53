------------------------------ MODULE Analytics ------------------------------
(***************************************************************************)
(* The usage summary: UsageAnalyticsService.getSummary over                *)
(* PrismaUsageRepository, two queries over the same rows with no           *)
(* transaction around them, while the usage listener goes on inserting.    *)
(***************************************************************************)
EXTENDS Integers, Sequences, FiniteSets

CONSTANTS
    Readers,        \* summaries being computed
    Ranges,         \* how many of the last days a summary may look at
    MaxLogs         \* bound on the rows

ASSUME BoundsAssumption == MaxLogs \in Nat /\ Ranges \subseteq Nat

VARIABLES
    logs,           \* AiUsageLog rows: status and day of createdAt
    today,
    summary         \* the local state of each reader

analyticsVars == <<logs, today, summary>>

Statuses == {"SUCCESS", "FAILED", "CANCELLED"}
NoCounts == [s \in Statuses |-> 0]
NoSummaryYet == [pc |-> 0, since |-> 0, until |-> 0, requests |-> 0, byStatus |-> NoCounts]

AnalyticsInit ==
    /\ logs = <<>>
    /\ today = 0
    /\ summary = [r \in Readers |-> NoSummaryYet]

\* createLog
InsertLog ==
    /\ Len(logs) < MaxLogs
    /\ \E s \in Statuses : logs' = Append(logs, [status |-> s, day |-> today])
    /\ UNCHANGED <<today, summary>>

NewDay ==
    /\ today < MaxLogs
    /\ today' = today + 1
    /\ UNCHANGED <<logs, summary>>

\* parseRange: computed once, before the queries; no range is all of them.
Spans == {[since |-> 0, until |-> MaxLogs]} \cup {[since |-> today - days, until |-> today] : days \in Ranges}

StartSummary(r) ==
    /\ summary[r].pc \in {0, 3}
    /\ \E span \in Spans :
        summary' = [summary EXCEPT ![r] =
            [NoSummaryYet EXCEPT !.pc = 1, !.since = span.since, !.until = span.until]]
    /\ UNCHANGED <<logs, today>>

\* A row of the last day may be stamped before the summary began and
\* committed after.
Within(r) == {i \in DOMAIN logs : logs[i].day \in summary[r].since .. summary[r].until}

\* The two queries, in the order getSummary awaits them
QueriesByStatusFirst == <<"byStatus", "requests">>
Queries == <<"requests", "byStatus">>

CountRequests(r) ==
    /\ summary[r].pc \in DOMAIN Queries
    /\ Queries[summary[r].pc] = "requests"
    /\ summary' = [summary EXCEPT ![r].pc = @ + 1, ![r].requests = Cardinality(Within(r))]
    /\ UNCHANGED <<logs, today>>

CountByStatus(r) ==
    /\ summary[r].pc \in DOMAIN Queries
    /\ Queries[summary[r].pc] = "byStatus"
    /\ summary' = [summary EXCEPT
            ![r].pc = @ + 1,
            ![r].byStatus = [s \in Statuses |-> Cardinality({i \in Within(r) : logs[i].status = s})]]
    /\ UNCHANGED <<logs, today>>

AnalyticsNext ==
    \/ InsertLog \/ NewDay
    \/ \E r \in Readers : StartSummary(r) \/ CountRequests(r) \/ CountByStatus(r)

AnalyticsSpec == AnalyticsInit /\ [][AnalyticsNext]_analyticsVars

-----------------------------------------------------------------------------
AnalyticsTypeOK ==
    /\ logs \in Seq([status : Statuses, day : 0 .. MaxLogs])
    /\ \A r \in Readers :
        summary[r].pc \in 0 .. 3 /\ summary[r].byStatus \in [Statuses -> 0 .. MaxLogs]

\* Although rows are inserted, and days go by, between its two queries, a
\* summary never tells of more requests than outcomes, nor of more outcomes
\* than there are.
SummaryAddsUp ==
    \A r \in Readers : summary[r].pc = 3 =>
        LET by == summary[r].byStatus
            outcomes == by["SUCCESS"] + by["FAILED"] + by["CANCELLED"]
        IN summary[r].requests <= outcomes /\ outcomes <= Cardinality(Within(r))
=============================================================================
