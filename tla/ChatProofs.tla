----------------------------- MODULE ChatProofs -----------------------------
(***************************************************************************)
(* The proofs of Chat's safety, for every set of conversations and streams *)
(* and every size.  Three invariants, each on top of the one before: what  *)
(* the rows, the streams and the jobs are, with the chain of the summaries *)
(* (Formed); which rows a stream can have at which point of its life       *)
(* (Staged); and what a context in use is worth by now (InContext).  The   *)
(* thirteen steps of a stream are of three kinds, so each proof has three  *)
(* cases for them: a stream Walks, Asks or Concludes.                      *)
(***************************************************************************)
EXTENDS Chat, SequenceTheorems, WellFoundedInduction, TLAPS

Pcs == {"idle", "start", "question", "context", "model", "token", "usage",
        "answer", "partial", "done", "error", "ended"}
Concluded == {"done", "error", "ended"}
Unasked == {"idle", "start", "question"}
Asked == {"context", "model", "token", "usage", "answer", "partial"}

Row == [stream : Streams \cup {NoStream}, role : {"SYSTEM", "USER", "ASSISTANT"},
        finish : {"none", "STOP", "CANCELLED"}, chars : Nat]
SummaryRow == [version : Nat \ {0}, first : Nat \ {0}, last : Nat, empty : BOOLEAN]
Entry == [stream : Streams, status : Outcomes, conv : Conversations \cup {NoConversation}]
ContextRow == [summary : [version : Nat, first : Nat, last : Nat, empty : BOOLEAN],
               from : Nat, to : Nat]
StreamRow == [pc : Pcs, conv : Conversations \cup {NoConversation}, chunks : Counts,
              context : ContextRow \cup {<<>>}]
Writing == [pc : {"writing"}, version : Nat \ {0}, first : Nat \ {0}, last : Nat]
Jobs == {NoJob} \cup {[pc |-> "due"]} \cup Writing

RowsFormed ==
    /\ conversation \in [Conversations -> {"none", "live", "deleted"}]
    /\ messages \in [Conversations -> Seq(Row)]
    /\ summaries \in [Conversations -> SUBSET SummaryRow]
    /\ \A c \in Conversations :
        conversation[c] # "live" => messages[c] = <<>> /\ summaries[c] = {}

LogsFormed == bus \subseteq Entry /\ usage \subseteq Entry

StreamsFormed ==
    /\ stream \in [Streams -> StreamRow]
    /\ \A r \in Streams :
        IF stream[r].pc = "idle" THEN ConvOf(r) = NoConversation
        ELSE ConvOf(r) \in Conversations /\ conversation[ConvOf(r)] # "none"
    /\ left \subseteq Streams
    /\ mishap \subseteq Streams

JobsFormed ==
    /\ job \in [Streams -> Jobs]
    /\ \A r \in Streams : job[r].pc # "none" => stream[r].pc # "idle"

\* The summaries S of a conversation of len messages: their versions are the
\* first n, each goes on where its predecessor stopped, and so every message
\* up to the last that one of them covers is covered by one.
Chain(S, n, len) ==
    /\ \A s \in S : s.version <= n
    /\ \A v \in 1 .. n : \E s \in S : s.version = v
    /\ \A s, t \in S : s.version = t.version => s = t
    /\ \A s \in S : s.first <= s.last /\ s.last <= len
    /\ \A s \in S :
        IF s.version = 1 THEN s.first = 1
        ELSE \E t \in S : t.version = s.version - 1 /\ s.first = t.last + 1
    /\ \A s \in S : \A i \in 1 .. s.last : \E t \in S : t.first <= i /\ i <= t.last

Chained == \A c \in Conversations : \E n \in Nat : Chain(summaries[c], n, Len(messages[c]))

\* A summary being written starts where the latest one stops, or its version
\* has been taken by now.
Follows(j, S, len) ==
    /\ j.first <= j.last /\ j.last <= len
    /\ j.version <= LatestSummary(S).version + 1
    /\ j.version = LatestSummary(S).version + 1 => j.first = LatestSummary(S).last + 1

JobsFollow ==
    \A r \in Streams : job[r].pc = "writing" /\ Live(ConvOf(r)) =>
        Follows(job[r], summaries[ConvOf(r)], Len(messages[ConvOf(r)]))

Formed ==
    /\ RowsFormed
    /\ LogsFormed
    /\ StreamsFormed
    /\ JobsFormed
    /\ Chained
    /\ JobsFollow

\* A stream's rows and outcomes tell where it is: none before its question is
\* stored, its question from then on, its answer and its bill in the end.
RowsTell ==
    \A c \in Conversations : \A i \in DOMAIN messages[c] :
        LET m == messages[c][i] IN
        m.stream # NoStream =>
            /\ ConvOf(m.stream) = c
            /\ stream[m.stream].pc \notin Unasked
            /\ m.role = "ASSISTANT" => stream[m.stream].pc \in Concluded

BillsTell == \A e \in bus \cup usage : stream[e.stream].pc \in Concluded

QuestionIn(ms, r) == \E q \in DOMAIN ms : ms[q].stream = r /\ ms[q].role = "USER"

QuestionsTell ==
    \A r \in Streams :
        stream[r].pc \in Asked /\ Live(ConvOf(r)) => QuestionIn(messages[ConvOf(r)], r)

Staged == RowsTell /\ BillsTell /\ QuestionsTell

\* What ContextHasNoHole says of one context, over the messages it was read
\* from and the summaries by now.
Whole(r, x, read, S) ==
    /\ \E q \in DOMAIN read : read[q].stream = r
    /\ x.summary.last < x.from
    /\ \A i \in 1 .. x.from - 1 :
        \/ \E s \in S : s.first <= i /\ i <= s.last
        \/ ~Fits(read, i, HistoryTokens(Window))

WholeContext(r) ==
    /\ stream[r].context \in ContextRow
    /\ stream[r].context.to <= Len(messages[ConvOf(r)])
    /\ Whole(r, stream[r].context,
             SubSeq(messages[ConvOf(r)], 1, stream[r].context.to),
             summaries[ConvOf(r)])

InContext ==
    \A r \in Streams :
        stream[r].pc \in {"model", "token"} /\ Live(ConvOf(r)) => WholeContext(r)

-----------------------------------------------------------------------------
\* What the memory's operators return.

\* The least of some natural numbers is one of them, and no greater than any.
LEMMA Smallest ==
    ASSUME NEW S \in SUBSET Nat, S # {}
    PROVE  Min(S) \in S /\ \A i \in S : Min(S) <= i
<1>1. PICK m \in S : \A i \in S : ~(<<i, m>> \in OpToRel(<, Nat))
  BY NatLessThanWellFounded, WFMin, Zenon
<1>2. ASSUME NEW i \in S PROVE m <= i
  <2>1. i \in Nat /\ m \in Nat OBVIOUS
  <2>2. ~(i < m) BY <1>1, <2>1, Zenon DEF OpToRel
  <2> QED BY <2>1, <2>2
<1> QED BY <1>2 DEF Min

\* What trimming takes away would not have fitted with what follows it.
LEMMA TrimmedFacts ==
    ASSUME NEW ms \in Seq(Row), NEW first \in Nat, first <= Len(ms) + 1, NEW limit
    PROVE  /\ Trimmed(ms, first, limit) \in Nat
           /\ first <= Trimmed(ms, first, limit)
           /\ Trimmed(ms, first, limit) <= Len(ms) + 1
           /\ \A i \in first .. Trimmed(ms, first, limit) - 1 : ~Fits(ms, i, limit)
<1> DEFINE fitting == {i \in first .. Len(ms) : Fits(ms, i, limit)} \cup {Len(ms) + 1}
<1>1. Len(ms) \in Nat
  OBVIOUS
<1>2. fitting \in SUBSET Nat /\ fitting # {} /\ Len(ms) + 1 \in fitting
  BY <1>1
<1>3. \A i \in fitting : first <= i /\ i <= Len(ms) + 1
  BY <1>1
<1>4. \A i \in first .. Len(ms) : Fits(ms, i, limit) => i \in fitting
  OBVIOUS
<1>5. Trimmed(ms, first, limit) = Min(fitting)
  BY DEF Trimmed
<1> HIDE DEF fitting
<1>6. Min(fitting) \in fitting /\ \A i \in fitting : Min(fitting) <= i
  BY <1>2, Smallest
<1>7. Min(fitting) \in Nat
  BY <1>2, <1>6
<1>8. first <= Min(fitting) /\ Min(fitting) <= Len(ms) + 1
  BY <1>3, <1>6
<1>9. ASSUME NEW i \in first .. Min(fitting) - 1 PROVE ~Fits(ms, i, limit)
  <2>1. i \in first .. Len(ms) /\ ~(Min(fitting) <= i)
    BY <1>1, <1>7, <1>8
  <2> QED BY <2>1, <1>4, <1>6
<1> QED BY <1>5, <1>7, <1>8, <1>9

\* The latest summary of a chain is the one of the highest version.
LEMMA LatestOfChain ==
    ASSUME NEW S \in SUBSET SummaryRow, NEW n \in Nat, NEW len \in Nat, Chain(S, n, len)
    PROVE  /\ LatestSummary(S).version = n
           /\ S = {} \/ LatestSummary(S) \in S
           /\ LatestSummary(S).first \in Nat
           /\ LatestSummary(S).last \in Nat
           /\ LatestSummary(S).last <= len
           /\ LatestSummary(S).empty \in BOOLEAN
           /\ \A i \in 1 .. LatestSummary(S).last : \E t \in S : t.first <= i /\ i <= t.last
<1>1. CASE S = {}
  <2>1. n = 0
    <3>1. n # 0 => n \in 1 .. n OBVIOUS
    <3> QED BY <1>1, <3>1 DEF Chain
  <2>2. LatestSummary(S) = NoSummary
    BY <1>1 DEF LatestSummary
  <2>3. /\ NoSummary.version = 0 /\ NoSummary.first = 1 /\ NoSummary.last = 0
        /\ NoSummary.empty = TRUE
    BY DEF NoSummary
  <2>4. LatestSummary(S).last = 0 /\ LatestSummary(S).version = n
    BY <2>1, <2>2, <2>3
  <2>5. \A i \in 1 .. LatestSummary(S).last : FALSE
    BY <2>4
  <2>6. LatestSummary(S).first \in Nat /\ LatestSummary(S).last \in Nat
    BY <2>2, <2>3
  <2>7. LatestSummary(S).empty \in BOOLEAN
    BY <2>2, <2>3, Zenon
  <2>8. LatestSummary(S).last <= len
    BY <2>4
  <2> QED BY <1>1, <2>4, <2>5, <2>6, <2>7, <2>8, Zenon
<1>2. CASE S # {}
  <2>1. PICK s \in S : TRUE
    BY <1>2
  <2>2. s.version \in Nat \ {0} /\ s.version <= n
    BY <2>1 DEF SummaryRow, Chain
  <2>3. n \in 1 .. n
    BY <2>2
  <2>4. PICK top \in S : top.version = n
    BY <2>3 DEF Chain
  <2>5. \A t \in S : t.version <= top.version
    BY <2>4 DEF Chain
  <2> DEFINE latest == CHOOSE u \in S : \A t \in S : t.version <= u.version
  <2>6. latest \in S /\ \A t \in S : t.version <= latest.version
    BY <2>4, <2>5
  <2>7. LatestSummary(S) = latest
    BY <1>2 DEF LatestSummary
  <2> HIDE DEF latest
  <2>8. latest.version \in Nat /\ latest.version <= n /\ n <= latest.version
    BY <2>4, <2>6 DEF SummaryRow, Chain
  <2>9. latest.version = n
    BY <2>8
  <2>10. latest.first \in Nat /\ latest.last \in Nat /\ latest.empty \in BOOLEAN
    BY <2>6 DEF SummaryRow
  <2>11. /\ latest.last <= len
         /\ \A i \in 1 .. latest.last : \E t \in S : t.first <= i /\ i <= t.last
    BY <2>6 DEF Chain
  <2> QED BY <2>6, <2>7, <2>9, <2>10, <2>11
<1> QED BY <1>1, <1>2

\* A context that was just built is whole, where the stream has its question.
LEMMA ContextFacts ==
    ASSUME NEW S \in SUBSET SummaryRow, NEW n \in Nat, NEW ms \in Seq(Row),
           Chain(S, n, Len(ms)), NEW strategy
    PROVE  LET x == Context(strategy, ms, S, HistoryTokens(Window)) IN
           /\ x \in ContextRow
           /\ x.to = Len(ms)
           /\ x.summary.last < x.from
           /\ \A i \in 1 .. x.from - 1 :
                \/ \E s \in S : s.first <= i /\ i <= s.last
                \/ ~Fits(ms, i, HistoryTokens(Window))
<1> DEFINE limit == HistoryTokens(Window)
           s == IF strategy = "SLIDING_WINDOW" THEN NoSummary ELSE LatestSummary(S)
           shown == IF s.empty THEN NoSummary ELSE s
           from == Trimmed(ms, s.last + 1, limit)
           x == Context(strategy, ms, S, limit)
<1>1. Len(ms) \in Nat
  OBVIOUS
<1>2. /\ s.version \in Nat /\ s.first \in Nat /\ s.last \in Nat /\ s.empty \in BOOLEAN
      /\ s.last <= Len(ms)
      /\ \A i \in 1 .. s.last : \E t \in S : t.first <= i /\ i <= t.last
  <2>1. CASE strategy = "SLIDING_WINDOW"
    BY <1>1, <2>1 DEF NoSummary
  <2>2. CASE strategy # "SLIDING_WINDOW"
    BY <1>1, <2>2, LatestOfChain
  <2> QED BY <2>1, <2>2
<1>3. s \in [version : Nat, first : Nat, last : Nat, empty : BOOLEAN]
  <2>1. NoSummary \in [version : Nat, first : Nat, last : Nat, empty : BOOLEAN]
    BY DEF NoSummary
  <2>2. S = {} => LatestSummary(S) = NoSummary
    BY DEF LatestSummary
  <2>3. LatestSummary(S) \in [version : Nat, first : Nat, last : Nat, empty : BOOLEAN]
    BY <1>1, <2>1, <2>2, LatestOfChain DEF SummaryRow
  <2> QED BY <2>1, <2>3
<1>4. x = [summary |-> shown, from |-> from, to |-> Len(ms)]
  BY DEF Context
<1>5. shown \in [version : Nat, first : Nat, last : Nat, empty : BOOLEAN] /\ shown.last <= s.last
  BY <1>2, <1>3 DEF NoSummary
<1> HIDE DEF s
<1>6. /\ from \in Nat /\ s.last + 1 <= from
      /\ \A i \in s.last + 1 .. from - 1 : ~Fits(ms, i, limit)
  BY <1>1, <1>2, TrimmedFacts
<1> HIDE DEF from, shown, limit
<1>7. ASSUME NEW i \in 1 .. from - 1
      PROVE  (\E t \in S : t.first <= i /\ i <= t.last) \/ ~Fits(ms, i, limit)
  <2>1. i \in 1 .. s.last \/ i \in s.last + 1 .. from - 1
    BY <1>2, <1>6
  <2> QED BY <2>1, <1>2, <1>6
<1>8. x \in ContextRow /\ x.to = Len(ms) /\ x.from = from /\ x.summary = shown
  BY <1>1, <1>4, <1>5, <1>6 DEF ContextRow
<1>9. shown.last < from
  BY <1>2, <1>5, <1>6
<1> QED BY <1>7, <1>8, <1>9 DEF limit

-----------------------------------------------------------------------------
\* The three kinds of a stream's step.

\* Only r moves, and stays in its conversation.
Moves(r) ==
    /\ stream' \in [Streams -> StreamRow]
    /\ \A q \in Streams \ {r} : stream'[q] = stream[q]
    /\ stream[r].pc # "idle" /\ stream'[r].pc # "idle"
    /\ stream'[r].conv = stream[r].conv
    /\ left' \subseteq Streams
    /\ mishap \subseteq mishap' /\ mishap' \subseteq Streams
    /\ UNCHANGED <<conversation, summaries, usage>>

\* It goes on, and leaves no row and no event.
Walks(r) ==
    /\ Moves(r)
    /\ UNCHANGED <<messages, bus, job>>
    /\ stream[r].pc \notin Unasked => stream'[r].pc \notin Unasked
    /\ stream'[r].pc \in Asked => stream[r].pc \in Asked
    /\ stream[r].pc \in Concluded =>
        stream'[r].pc \in Concluded /\ stream'[r].chunks = stream[r].chunks
    /\ stream'[r].pc \in {"model", "token"} =>
        \/ stream[r].pc \in {"model", "token"} /\ stream'[r].context = stream[r].context
        \/ LET c == ConvOf(r) IN
           /\ stream[r].pc = "context"
           /\ stream'[r].context =
                Context(Strategy[c], messages[c], summaries[c], HistoryTokens(Window))

\* It stores its question.
Asks(r) ==
    /\ Moves(r)
    /\ UNCHANGED <<bus, job>>
    /\ stream[r].pc = "question" /\ stream'[r].pc = "context"
    /\ Live(ConvOf(r))
    /\ \E chars \in Questions : Stored(ConvOf(r), Message(r, "USER", "none", chars))

\* What it publishes agrees with what it stores.
Settles(r, outcome) ==
    /\ outcome = "SUCCESS" =>
        Live(ConvOf(r)) /\ Stored(ConvOf(r), Answer(r, "STOP"))
    /\ outcome = "CANCELLED" /\ stream[r].chunks > 0 =>
        Live(ConvOf(r)) /\ Stored(ConvOf(r), Answer(r, "CANCELLED"))
    /\ outcome = "FAILED" /\ r \notin mishap' => UNCHANGED messages

\* It comes to its end: with an answer or without, with a bill or without.
Concludes(r) ==
    /\ Moves(r)
    /\ stream[r].pc \in {"model", "answer", "partial"} /\ stream'[r].pc \in Concluded
    /\ stream'[r].chunks = stream[r].chunks
    /\ \/ UNCHANGED messages
       \/ /\ Live(ConvOf(r)) /\ stream[r].pc # "model"
          /\ \E finish \in {"STOP", "CANCELLED"} : Stored(ConvOf(r), Answer(r, finish))
    /\ \/ UNCHANGED bus
       \/ \E outcome \in Outcomes : Publish(r, outcome) /\ Settles(r, outcome)
    /\ UNCHANGED job \/ job' = [job EXCEPT ![r] = [pc |-> "due"]]

\* A stream goes from one place to another and keeps the rest of its record.
LEMMA Going ==
    ASSUME NEW r \in Streams, NEW pc \in Pcs, stream \in [Streams -> StreamRow], GoTo(r, pc)
    PROVE  /\ stream' \in [Streams -> StreamRow]
           /\ \A q \in Streams \ {r} : stream'[q] = stream[q]
           /\ stream'[r].pc = pc /\ stream'[r].conv = stream[r].conv
           /\ stream'[r].chunks = stream[r].chunks
           /\ stream'[r].context = stream[r].context
BY DEF GoTo, StreamRow

\* And so it does when it gives its context up.
LEMMA Leaving ==
    ASSUME NEW r \in Streams, NEW pc \in Pcs, stream \in [Streams -> StreamRow],
           LeaveModel(r, pc)
    PROVE  /\ stream' \in [Streams -> StreamRow]
           /\ \A q \in Streams \ {r} : stream'[q] = stream[q]
           /\ stream'[r].pc = pc /\ stream'[r].conv = stream[r].conv
           /\ stream'[r].chunks = stream[r].chunks
BY DEF LeaveModel, StreamRow

LEMMA Kinds ==
    ASSUME Formed, NEW r \in Streams, StreamStep(r)
    PROVE  Walks(r) \/ Asks(r) \/ Concludes(r)
<1>1. /\ stream \in [Streams -> StreamRow]
      /\ left \subseteq Streams /\ mishap \subseteq Streams
  BY DEF Formed, StreamsFormed
<1>2. ASSUME Fault(r) PROVE mishap \subseteq mishap' /\ mishap' \subseteq Streams
  BY <1>1, <1>2 DEF Fault
<1> USE DEF Moves, Pcs, Concluded, Unasked, Asked
<1>3. CASE Deliver(r)
  <2>1. PICK pc \in {"question", "model", "answer"} :
          /\ GoTo(r, pc)
          /\ \/ stream[r].pc = "start" /\ pc = "question"
             \/ stream[r].pc = "token" /\ pc = "model"
             \/ stream[r].pc = "usage" /\ pc = "answer"
    BY <1>3 DEF Deliver, Resumed
  <2>2. Walks(r)
    BY <1>1, <1>3, <2>1, Going DEF Deliver, rows, Walks
  <2> QED BY <2>2
<1>4. CASE DeliverLast(r)
  <2>1. Walks(r)
    BY <1>1, <1>4, Going DEF DeliverLast, rows, Walks
  <2> QED BY <2>1
<1>6. CASE StoreQuestion(r)
  <2>1. Asks(r)
    BY <1>1, <1>6, Going DEF StoreQuestion, Asks
  <2> QED BY <2>1
<1>7. CASE BuildContext(r)
  <2> DEFINE c == ConvOf(r)
             x == Context(Strategy[c], messages[c], summaries[c], HistoryTokens(Window))
  <2>1. PICK n \in Nat : Chain(summaries[c], n, Len(messages[c]))
    BY <1>7 DEF BuildContext, Live, Formed, Chained
  <2>2. x \in ContextRow
    BY <1>7, <2>1, ContextFacts DEF BuildContext, Live, Formed, RowsFormed
  <2>3. stream' = [stream EXCEPT ![r].pc = "model", ![r].context = x]
    BY <1>7 DEF BuildContext
  <2> HIDE DEF x
  <2>4. /\ stream' \in [Streams -> StreamRow]
        /\ \A q \in Streams \ {r} : stream'[q] = stream[q]
        /\ stream'[r].pc = "model" /\ stream'[r].conv = stream[r].conv
        /\ stream'[r].context = x
    BY <1>1, <2>2, <2>3 DEF StreamRow
  <2>5. Walks(r)
    BY <1>1, <1>7, <2>4 DEF BuildContext, rows, Walks, x
  <2> QED BY <2>5
<1>8. CASE FailEarly(r)
  <2>1. Walks(r)
    BY <1>1, <1>2, <1>8, Going DEF FailEarly, rows, Walks
  <2> QED BY <2>1
<1>9. CASE Chunk(r)
  <2>1. stream' = [stream EXCEPT ![r].pc = "token", ![r].chunks = stream[r].chunks + 1]
    BY <1>9 DEF Chunk
  <2>2. stream[r].chunks + 1 \in Counts
    BY <1>1, <1>9, SizesAssumption DEF Chunk, StreamRow, Counts
  <2>3. /\ stream' \in [Streams -> StreamRow]
        /\ \A q \in Streams \ {r} : stream'[q] = stream[q]
        /\ stream'[r].pc = "token" /\ stream'[r].conv = stream[r].conv
        /\ stream'[r].context = stream[r].context
    BY <1>1, <2>1, <2>2 DEF StreamRow
  <2>4. Walks(r)
    BY <1>1, <1>9, <2>3 DEF Chunk, rows, Walks
  <2> QED BY <2>4
<1>10. CASE FinishAnswer(r)
  <2>1. Walks(r)
    BY <1>1, <1>10, Going DEF FinishAnswer, rows, Walks
  <2> QED BY <2>1
<1>11. CASE ProviderFails(r)
  <2>1. Concludes(r)
    BY <1>1, <1>11, Leaving DEF ProviderFails, rows, Concludes, Settles, Outcomes
  <2> QED BY <2>1
<1>12. CASE ProviderAborts(r)
  <2>1. CASE LeaveModel(r, "partial") /\ UNCHANGED bus
    <3>1. Walks(r)
      BY <1>1, <1>12, <2>1, Leaving DEF ProviderAborts, rows, Walks
    <3> QED BY <3>1
  <2>2. CASE stream[r].chunks = 0 /\ Publish(r, "CANCELLED") /\ LeaveModel(r, "error")
    <3>1. Concludes(r)
      BY <1>1, <1>12, <2>2, Leaving DEF ProviderAborts, rows, Concludes, Settles, Outcomes
    <3> QED BY <3>1
  <2> QED BY <1>12, <2>1, <2>2 DEF ProviderAborts
<1>13. CASE StoreAnswer(r)
  <2>1. Concludes(r)
    BY <1>1, <1>13, Going DEF StoreAnswer, Concludes, Settles, Outcomes
  <2> QED BY <2>1
<1>14. CASE FailAnswer(r)
  <2>1. GoTo(r, "error") /\ Publish(r, "FAILED")
    BY <1>14 DEF FailAnswer, OutcomeOfLostAnswer, AfterLostAnswer
  <2>2. /\ mishap \subseteq mishap' /\ mishap' \subseteq Streams
        /\ r \notin mishap' => UNCHANGED messages
    BY <1>1, <1>14 DEF FailAnswer, Fault
  <2>3. Concludes(r)
    BY <1>1, <1>14, <2>1, <2>2, Going DEF FailAnswer, Concludes, Settles, Outcomes
  <2> QED BY <2>3
<1>15. CASE StorePartial(r)
  <2>1. Concludes(r)
    BY <1>1, <1>15, Going DEF StorePartial, Concludes, Settles, Outcomes
  <2> QED BY <2>1
<1>16. CASE FailPartial(r)
  <2>1. Concludes(r)
    BY <1>1, <1>2, <1>16, Going DEF FailPartial, Concludes
  <2> QED BY <2>1
<1> QED BY <1>3, <1>4, <1>6, <1>7, <1>8, <1>9, <1>10, <1>11, <1>12, <1>13, <1>14, <1>15,
           <1>16 DEF StreamStep

-----------------------------------------------------------------------------
\* Formed is inductive.

LEMMA ChainGrows ==
    ASSUME NEW S \in SUBSET SummaryRow, NEW n \in Nat, NEW len \in Nat, NEW longer \in Nat,
           len <= longer, Chain(S, n, len)
    PROVE  Chain(S, n, longer)
<1>1. \A s \in S : s.first <= s.last /\ s.last <= longer
  <2> TAKE s \in S
  <2>1. s.first <= s.last /\ s.last <= len /\ s.last \in Nat
    BY DEF Chain, SummaryRow
  <2> QED BY <2>1
<1> QED BY <1>1, Zenon DEF Chain

\* The chain takes a summary that goes on after the latest one.
LEMMA ChainExtends ==
    ASSUME NEW S \in SUBSET SummaryRow, NEW n \in Nat, NEW len \in Nat, Chain(S, n, len),
           NEW s \in SummaryRow, s.version = n + 1, s.first = LatestSummary(S).last + 1,
           s.first <= s.last, s.last <= len
    PROVE  Chain(S \cup {s}, n + 1, len)
<1> DEFINE T == S \cup {s}
           latest == LatestSummary(S)
<1>1. /\ latest.version = n /\ latest.last \in Nat /\ (S = {} \/ latest \in S)
      /\ \A i \in 1 .. latest.last : \E t \in S : t.first <= i /\ i <= t.last
  BY LatestOfChain
<1>2. \A t \in S : t.version \in Nat \ {0} /\ t.version <= n
  BY DEF Chain, SummaryRow
<1>3. \A t \in T : t.version <= n + 1
  BY <1>2
<1>4. ASSUME NEW v \in 1 .. n + 1 PROVE \E t \in T : t.version = v
  <2>1. CASE v = n + 1
    BY <2>1
  <2>2. CASE v # n + 1
    <3>1. v \in 1 .. n
      BY <2>2
    <3> QED BY <3>1 DEF Chain
  <2> QED BY <2>1, <2>2
<1>5. ASSUME NEW t \in T, NEW u \in T, t.version = u.version PROVE t = u
  <2>1. CASE t \in S /\ u \in S
    BY <2>1, <1>5 DEF Chain
  <2>2. CASE t = s \/ u = s
    <3>1. \A w \in S : w.version # s.version
      BY <1>2
    <3> QED BY <2>2, <3>1, <1>5
  <2> QED BY <2>1, <2>2
<1>6. \A t \in T : t.first <= t.last /\ t.last <= len
  BY DEF Chain
<1>7. ASSUME NEW t \in T
      PROVE  IF t.version = 1 THEN t.first = 1
             ELSE \E u \in T : u.version = t.version - 1 /\ t.first = u.last + 1
  <2>1. CASE t \in S
    BY <2>1 DEF Chain
  <2>2. CASE t = s /\ n = 0
    <3>1. S = {}
      BY <1>2, <2>2
    <3>2. latest.last = 0
      BY <3>1 DEF LatestSummary, NoSummary
    <3> QED BY <2>2, <3>2
  <2>3. CASE t = s /\ n # 0
    <3>1. latest \in S
      <4>1. n \in 1 .. n BY <2>3
      <4>2. S # {} BY <4>1 DEF Chain
      <4> QED BY <4>2, LatestOfChain
    <3>2. latest.version = n
      BY LatestOfChain
    <3> QED BY <2>3, <3>1, <3>2
  <2> QED BY <2>1, <2>2, <2>3
<1>8. ASSUME NEW t \in T, NEW i \in 1 .. t.last
      PROVE  \E u \in T : u.first <= i /\ i <= u.last
  <2>1. CASE t \in S
    BY <2>1 DEF Chain
  <2>2. CASE t = s /\ i <= latest.last
    <3>1. i \in 1 .. latest.last
      BY <2>2, LatestOfChain DEF SummaryRow
    <3> QED BY <3>1, LatestOfChain
  <2>3. CASE t = s /\ ~(i <= latest.last)
    <3>1. s.first <= i /\ i <= s.last
      BY <2>3, LatestOfChain DEF SummaryRow
    <3> QED BY <3>1
  <2> QED BY <2>1, <2>2, <2>3
<1> QED BY <1>3, <1>4, <1>5, <1>6, <1>7, <1>8 DEF Chain

\* Storing a message makes its conversation one longer, and changes no other.
LEMMA Storing ==
    ASSUME RowsFormed, NEW c \in Conversations, NEW m \in Row, Stored(c, m)
    PROVE  /\ messages' \in [Conversations -> Seq(Row)]
           /\ messages'[c] = Append(messages[c], m)
           /\ \A d \in Conversations \ {c} : messages'[d] = messages[d]
           /\ \A d \in Conversations :
                Len(messages[d]) \in Nat /\ Len(messages'[d]) \in Nat
                /\ Len(messages[d]) <= Len(messages'[d])
           /\ Len(messages'[c]) = Len(messages[c]) + 1
           /\ messages'[c][Len(messages[c]) + 1] = m
           /\ \A i \in 1 .. Len(messages[c]) : messages'[c][i] = messages[c][i]
<1>1. messages \in [Conversations -> Seq(Row)]
  BY DEF RowsFormed
<1>2. messages[c] \in Seq(Row)
  BY <1>1
<1>3. /\ Append(messages[c], m) \in Seq(Row)
      /\ Len(Append(messages[c], m)) = Len(messages[c]) + 1
      /\ Append(messages[c], m)[Len(messages[c]) + 1] = m
      /\ \A i \in 1 .. Len(messages[c]) : Append(messages[c], m)[i] = messages[c][i]
  BY <1>2
<1>4. /\ messages' \in [Conversations -> Seq(Row)]
      /\ messages'[c] = Append(messages[c], m)
      /\ \A d \in Conversations \ {c} : messages'[d] = messages[d]
  BY <1>1, <1>3 DEF Stored
<1>5. ASSUME NEW d \in Conversations
      PROVE  Len(messages[d]) \in Nat /\ Len(messages'[d]) \in Nat
             /\ Len(messages[d]) <= Len(messages'[d])
  <2>1. messages[d] \in Seq(Row) /\ messages'[d] \in Seq(Row)
    BY <1>1, <1>4
  <2>2. Len(messages[d]) \in Nat /\ Len(messages'[d]) \in Nat
    BY <2>1
  <2> QED BY <1>3, <1>4, <2>2
<1> QED BY <1>3, <1>4, <1>5

LEMMA QuestionIsRow ==
    ASSUME NEW r \in Streams, NEW chars \in Questions
    PROVE  Message(r, "USER", "none", chars) \in Row
BY SizesAssumption DEF Message, Row

LEMMA AnswerIsRow ==
    ASSUME StreamsFormed, NEW r \in Streams, NEW finish \in {"STOP", "CANCELLED"}
    PROVE  Answer(r, finish) \in Row
<1>1. stream[r].chunks \in Nat /\ ChunkChars \in Nat
  BY SizesAssumption DEF StreamsFormed, StreamRow, Counts
<1>2. stream[r].chunks * ChunkChars \in Nat
  BY <1>1
<1> QED BY <1>2 DEF Answer, Message, Row

\* A stream that moves leaves Formed as it was, where messages are only added.
LEMMA FormedWhenMoved ==
    ASSUME Formed, NEW r \in Streams, Moves(r),
           messages' \in [Conversations -> Seq(Row)],
           \A d \in Conversations :
             /\ Len(messages[d]) <= Len(messages'[d])
             /\ conversation[d] # "live" => messages'[d] = messages[d],
           bus' \subseteq Entry,
           UNCHANGED job \/ job' = [job EXCEPT ![r] = [pc |-> "due"]]
    PROVE  Formed'
<1>1. /\ RowsFormed /\ LogsFormed /\ StreamsFormed /\ JobsFormed /\ Chained /\ JobsFollow
      /\ UNCHANGED <<conversation, summaries, usage>>
  BY DEF Formed, Moves
<1>2. RowsFormed'
  BY <1>1 DEF RowsFormed
<1>3. LogsFormed'
  BY <1>1 DEF LogsFormed
<1>4. \A q \in Streams :
        /\ stream'[q].conv = stream[q].conv
        /\ stream[q].pc = "idle" <=> stream'[q].pc = "idle"
  BY DEF Moves
<1>5. StreamsFormed'
  <2>1. stream' \in [Streams -> StreamRow] /\ left' \subseteq Streams /\ mishap' \subseteq Streams
    BY DEF Moves
  <2> QED BY <1>1, <1>4, <2>1 DEF StreamsFormed, ConvOf
<1>6. /\ job' \in [Streams -> Jobs]
      /\ \A q \in Streams : job'[q] = job[q] \/ (q = r /\ job'[q].pc = "due")
  <2>1. [pc |-> "due"] \in Jobs
    BY DEF Jobs
  <2>2. job \in [Streams -> Jobs] /\ [pc |-> "due"].pc = "due"
    BY <1>1 DEF JobsFormed
  <2>3. CASE UNCHANGED job
    BY <2>2, <2>3
  <2>4. CASE job' = [job EXCEPT ![r] = [pc |-> "due"]]
    BY <2>1, <2>2, <2>4
  <2> QED BY <2>3, <2>4
<1>7. JobsFormed'
  BY <1>1, <1>4, <1>6 DEF JobsFormed, Moves
<1>8. \A d \in Conversations : Len(messages[d]) \in Nat /\ Len(messages'[d]) \in Nat
  <2> TAKE d \in Conversations
  <2>1. messages[d] \in Seq(Row) /\ messages'[d] \in Seq(Row)
    BY <1>1 DEF RowsFormed
  <2> QED BY <2>1
<1>9. Chained'
  <2> SUFFICES ASSUME NEW c \in Conversations
               PROVE  \E n \in Nat : Chain(summaries[c], n, Len(messages'[c]))
    BY <1>1 DEF Chained
  <2>1. PICK n \in Nat : Chain(summaries[c], n, Len(messages[c]))
    BY <1>1 DEF Chained
  <2>2. summaries[c] \in SUBSET SummaryRow
    BY <1>1 DEF RowsFormed
  <2> QED BY <1>8, <2>1, <2>2, ChainGrows
<1>10. JobsFollow'
  <2> SUFFICES ASSUME NEW q \in Streams, (job[q].pc = "writing" /\ Live(ConvOf(q)))'
               PROVE  Follows(job[q], summaries[ConvOf(q)], Len(messages[ConvOf(q)]))'
    BY DEF JobsFollow
  <2> DEFINE c == stream[q].conv
  <2>1. ConvOf(q) = c /\ stream'[q].conv = c
    BY <1>4 DEF ConvOf
  <2>2. c \in Conversations /\ conversation[c] = "live" /\ job'[q].pc = "writing"
    BY <1>1, <2>1 DEF Live, ConvOf
  <2>3. job'[q] = job[q]
    BY <1>6, <2>2
  <2>4. Follows(job[q], summaries[c], Len(messages[c]))
    BY <1>1, <2>1, <2>2, <2>3 DEF JobsFollow, Live
  <2>5. job[q].last \in Nat
    BY <1>1, <2>2, <2>3 DEF JobsFormed, Jobs, Writing, NoJob
  <2>6. Len(messages[c]) \in Nat /\ Len(messages'[c]) \in Nat /\ Len(messages[c]) <= Len(messages'[c])
    BY <1>8, <2>2
  <2>7. Follows(job[q], summaries[c], Len(messages'[c]))
    BY <2>4, <2>5, <2>6 DEF Follows
  <2> HIDE DEF c
  <2>8. Follows(job'[q], summaries'[stream'[q].conv], Len(messages'[stream'[q].conv]))
    BY <1>1, <2>1, <2>3, <2>7
  <2> QED BY <2>8 DEF ConvOf
<1> QED BY <1>2, <1>3, <1>5, <1>7, <1>9, <1>10 DEF Formed

LEMMA FormedByStream ==
    ASSUME Formed, NEW r \in Streams, StreamStep(r)
    PROVE  Formed'
<1>1. /\ RowsFormed /\ LogsFormed /\ StreamsFormed
      /\ messages \in [Conversations -> Seq(Row)]
  BY DEF Formed, RowsFormed
<1>2. \A d \in Conversations : Len(messages[d]) <= Len(messages[d])
  <2> TAKE d \in Conversations
  <2>1. Len(messages[d]) \in Nat
    <3>1. messages[d] \in Seq(Row) BY <1>1
    <3> QED BY <3>1
  <2> QED BY <2>1
<1>3. CASE Walks(r)
  <2>1. Moves(r) /\ UNCHANGED <<messages, bus, job>>
    BY <1>3 DEF Walks
  <2> QED BY <1>1, <1>2, <2>1, FormedWhenMoved DEF LogsFormed
<1>4. CASE Asks(r)
  <2>1. /\ Moves(r) /\ UNCHANGED <<bus, job>> /\ Live(ConvOf(r))
        /\ \E chars \in Questions : Stored(ConvOf(r), Message(r, "USER", "none", chars))
    BY <1>4 DEF Asks
  <2>2. PICK m \in Row : Stored(ConvOf(r), m)
    BY <2>1, QuestionIsRow
  <2>3. ConvOf(r) \in Conversations /\ conversation[ConvOf(r)] = "live"
    BY <2>1 DEF Live
  <2>4. \A d \in Conversations :
          /\ Len(messages[d]) <= Len(messages'[d])
          /\ conversation[d] # "live" => messages'[d] = messages[d]
    BY <1>1, <2>2, <2>3, Storing
  <2> QED BY <1>1, <2>1, <2>2, <2>3, <2>4, Storing, FormedWhenMoved DEF LogsFormed
<1>5. CASE Concludes(r)
  <2>1. Moves(r) /\ (UNCHANGED job \/ job' = [job EXCEPT ![r] = [pc |-> "due"]])
    BY <1>5 DEF Concludes
  <2>2. bus' \subseteq Entry
    <3>1. ConvOf(r) \in Conversations
      BY <1>1, <2>1 DEF StreamsFormed, Moves
    <3>2. ASSUME NEW outcome \in Outcomes, Publish(r, outcome) PROVE bus' \subseteq Entry
      BY <1>1, <3>1, <3>2 DEF Publish, LogsFormed, Entry
    <3> QED BY <1>1, <1>5, <3>2 DEF Concludes, LogsFormed
  <2>3. CASE UNCHANGED messages
    BY <1>1, <1>2, <2>1, <2>2, <2>3, FormedWhenMoved
  <2>4. CASE /\ Live(ConvOf(r))
             /\ \E finish \in {"STOP", "CANCELLED"} : Stored(ConvOf(r), Answer(r, finish))
    <3>1. PICK m \in Row : Stored(ConvOf(r), m)
      BY <1>1, <2>4, AnswerIsRow
    <3>2. ConvOf(r) \in Conversations /\ conversation[ConvOf(r)] = "live"
      BY <2>4 DEF Live
    <3>3. \A d \in Conversations :
            /\ Len(messages[d]) <= Len(messages'[d])
            /\ conversation[d] # "live" => messages'[d] = messages[d]
      BY <1>1, <3>1, <3>2, Storing
    <3> QED BY <1>1, <2>1, <2>2, <3>1, <3>2, <3>3, Storing, FormedWhenMoved
  <2> QED BY <1>5, <2>3, <2>4 DEF Concludes
<1> QED BY <1>3, <1>4, <1>5, Kinds

LEMMA SystemMessageIsRows ==
    ASSUME NEW c \in Conversations
    PROVE  SystemMessage(c) \in Seq(Row)
<1>1. CASE SystemPrompt[c] = 0
  BY <1>1 DEF SystemMessage
<1>2. CASE SystemPrompt[c] # 0
  <2>1. Message(NoStream, "SYSTEM", "none", SystemPrompt[c]) \in Row
    BY SizesAssumption DEF Message, Row
  <2> QED BY <1>2, <2>1 DEF SystemMessage
<1> QED BY <1>1, <1>2

\* A conversation that begins or ends has no summaries, and other
\* conversations' rows stay: so the chains hold, and what follows them.
LEMMA FormedWhenRenewed ==
    ASSUME Formed, NEW c \in Conversations, conversation[c] = "none" \/ conversation'[c] # "live",
           RowsFormed', LogsFormed', conversation'[c] # "none", summaries'[c] = {},
           \A d \in Conversations \ {c} :
             /\ conversation'[d] = conversation[d]
             /\ messages'[d] = messages[d]
             /\ summaries'[d] = summaries[d],
           UNCHANGED <<stream, left, job, mishap>>
    PROVE  Formed'
<1>1. RowsFormed /\ StreamsFormed /\ JobsFormed /\ Chained /\ JobsFollow
  BY DEF Formed
<1>2. StreamsFormed'
  BY <1>1 DEF StreamsFormed, ConvOf
<1>3. JobsFormed'
  BY <1>1 DEF JobsFormed
<1>4. Chained'
  <2> SUFFICES ASSUME NEW d \in Conversations
               PROVE  \E n \in Nat : Chain(summaries'[d], n, Len(messages'[d]))
    BY DEF Chained
  <2>1. CASE d = c
    <3>1. Chain({}, 0, Len(messages'[d]))
      BY DEF Chain
    <3> QED BY <2>1, <3>1
  <2>2. CASE d # c
    BY <1>1, <2>2 DEF Chained
  <2> QED BY <2>1, <2>2
<1>5. JobsFollow'
  <2> SUFFICES ASSUME NEW q \in Streams, (job[q].pc = "writing" /\ Live(ConvOf(q)))'
               PROVE  Follows(job[q], summaries[ConvOf(q)], Len(messages[ConvOf(q)]))'
    BY DEF JobsFollow
  <2> DEFINE d == stream[q].conv
  <2>1. d \in Conversations /\ conversation'[d] = "live" /\ job[q].pc = "writing"
    BY DEF Live, ConvOf
  <2>2. conversation[d] # "none"
    BY <1>1, <2>1 DEF JobsFormed, StreamsFormed, ConvOf
  <2>3. d # c
    BY <2>1, <2>2
  <2>4. Follows(job[q], summaries[d], Len(messages[d]))
    BY <1>1, <2>1, <2>3 DEF JobsFollow, Live, ConvOf
  <2> HIDE DEF d
  <2>5. Follows(job'[q], summaries'[d], Len(messages'[d]))
    BY <2>1, <2>3, <2>4
  <2> QED BY <2>5 DEF ConvOf, d
<1> QED BY <1>1, <1>2, <1>3, <1>4, <1>5 DEF Formed

LEMMA FormedByCreate ==
    ASSUME Formed, NEW c \in Conversations, Create(c)
    PROVE  Formed'
<1>1. RowsFormed /\ LogsFormed
  BY DEF Formed
<1>2. /\ conversation[c] = "none" /\ conversation'[c] = "live" /\ summaries'[c] = {}
      /\ \A d \in Conversations \ {c} :
           /\ conversation'[d] = conversation[d]
           /\ messages'[d] = messages[d]
           /\ summaries'[d] = summaries[d]
      /\ UNCHANGED <<stream, left, bus, usage, job, mishap>>
  BY <1>1 DEF Create, RowsFormed
<1>3. RowsFormed'
  <2>1. SystemMessage(c) \in Seq(Row)
    BY SystemMessageIsRows
  <2> QED BY <1>1, <2>1 DEF Create, RowsFormed
<1>4. LogsFormed'
  BY <1>1, <1>2 DEF LogsFormed
<1> QED BY <1>2, <1>3, <1>4, FormedWhenRenewed

\* What a deletion does to the usage rows.
LEMMA Unlinked ==
    ASSUME LogsFormed, NEW c \in Conversations
    PROVE  /\ UsageWithout(c) \subseteq Entry
           /\ \A v \in UsageWithout(c) : \E u \in usage :
                v.stream = u.stream /\ v.status = u.status
           /\ \A u \in usage : \E v \in UsageWithout(c) :
                v.stream = u.stream /\ v.status = u.status
<1> DEFINE unlinked(u) == IF u.conv = c THEN [u EXCEPT !.conv = NoConversation] ELSE u
<1>1. ASSUME NEW u \in usage
      PROVE  /\ unlinked(u) \in Entry
             /\ unlinked(u).stream = u.stream /\ unlinked(u).status = u.status
  <2>1. u \in Entry
    BY DEF LogsFormed
  <2> QED BY <2>1 DEF Entry
<1>2. UsageWithout(c) = {unlinked(u) : u \in usage}
  BY DEF UsageWithout
<1> HIDE DEF unlinked
<1> QED BY <1>1, <1>2

LEMMA FormedByDelete ==
    ASSUME Formed, NEW c \in Conversations, Delete(c)
    PROVE  Formed'
<1>1. RowsFormed /\ LogsFormed
  BY DEF Formed
<1>2. /\ conversation'[c] = "deleted" /\ summaries'[c] = {}
      /\ \A d \in Conversations \ {c} :
           /\ conversation'[d] = conversation[d]
           /\ messages'[d] = messages[d]
           /\ summaries'[d] = summaries[d]
      /\ UNCHANGED <<stream, left, bus, job, mishap>>
  BY <1>1 DEF Delete, RowsFormed
<1>3. RowsFormed'
  BY <1>1 DEF Delete, RowsFormed
<1>4. LogsFormed'
  BY <1>1, Unlinked DEF Delete, LogsFormed
<1> QED BY <1>2, <1>3, <1>4, FormedWhenRenewed

LEMMA FormedByOpen ==
    ASSUME Formed, NEW r \in Streams, Open(r)
    PROVE  Formed'
<1>1. /\ RowsFormed /\ LogsFormed /\ StreamsFormed /\ JobsFormed /\ Chained /\ JobsFollow
      /\ UNCHANGED <<conversation, messages, summaries, usage, left, bus, job, mishap>>
  BY DEF Formed, Open, rows
<1>2. PICK c \in Conversations :
        /\ Live(c)
        /\ stream' = [stream EXCEPT ![r] = [Idle EXCEPT !.pc = "start", !.conv = c]]
  BY DEF Open
<1> DEFINE opened == [Idle EXCEPT !.pc = "start", !.conv = c]
<1>3. opened \in StreamRow
  <2>1. Idle \in StreamRow
    BY SizesAssumption DEF Idle, StreamRow, Pcs, Counts
  <2>2. c \in Conversations
    BY <1>2 DEF Live
  <2> QED BY <2>1, <2>2 DEF StreamRow, Pcs
<1>4. opened.pc = "start" /\ opened.conv = c
  BY DEF Idle
<1> HIDE DEF opened
<1>5. /\ stream' \in [Streams -> StreamRow]
      /\ \A q \in Streams \ {r} : stream'[q] = stream[q]
      /\ stream'[r].pc = "start" /\ stream'[r].conv = c
  BY <1>1, <1>2, <1>3, <1>4 DEF StreamsFormed, opened
<1>6. stream[r].pc = "idle"
  BY DEF Open, Idle
<1>7. StreamsFormed'
  BY <1>1, <1>2, <1>5 DEF StreamsFormed, ConvOf, Live
<1>8. JobsFormed'
  BY <1>1, <1>5 DEF JobsFormed
<1>9. job[r].pc = "none"
  BY <1>1, <1>6 DEF JobsFormed
<1>10. JobsFollow'
  <2> SUFFICES ASSUME NEW q \in Streams, (job[q].pc = "writing" /\ Live(ConvOf(q)))'
               PROVE  Follows(job[q], summaries[ConvOf(q)], Len(messages[ConvOf(q)]))'
    BY DEF JobsFollow
  <2>1. q # r /\ job[q].pc = "writing"
    BY <1>1, <1>9
  <2>2. stream'[q] = stream[q]
    BY <1>5, <2>1
  <2> QED BY <1>1, <2>1, <2>2 DEF JobsFollow, Live, ConvOf
<1>11. RowsFormed' /\ LogsFormed' /\ Chained'
  BY <1>1 DEF RowsFormed, LogsFormed, Chained
<1> QED BY <1>7, <1>8, <1>10, <1>11 DEF Formed

\* Steps that leave the conversations, their streams and the jobs alone.
LEMMA FormedWhenAside ==
    ASSUME Formed, UNCHANGED <<conversation, messages, summaries, stream, job>>,
           bus' \subseteq Entry, usage' \subseteq Entry,
           left' \subseteq Streams, mishap' \subseteq Streams
    PROVE  Formed'
BY DEF Formed, RowsFormed, LogsFormed, StreamsFormed, JobsFormed, Chained, JobsFollow, ConvOf, Live

LEMMA FormedByHangUp ==
    ASSUME Formed, NEW r \in Streams, HangUp(r)
    PROVE  Formed'
<1>1. /\ bus' \subseteq Entry /\ usage' \subseteq Entry
      /\ left' \subseteq Streams /\ mishap' \subseteq Streams
      /\ UNCHANGED <<conversation, messages, summaries, stream, job>>
  BY DEF HangUp, rows, Formed, LogsFormed, StreamsFormed
<1> QED BY <1>1, FormedWhenAside

\* A listener takes an event off the bus, and stores it at most.
LEMMA Listening ==
    ASSUME Formed, NEW r \in Streams, ListenerStep(r)
    PROVE  /\ UNCHANGED <<conversation, messages, summaries, stream, job, left>>
           /\ bus' \cup usage' \subseteq bus \cup usage
           /\ usage \subseteq usage'
           /\ mishap \subseteq mishap' /\ mishap' \subseteq Streams
<1>1. mishap \subseteq Streams
  BY DEF Formed, StreamsFormed
<1>2. CASE LogUsage(r)
  BY <1>1, <1>2 DEF LogUsage
<1>3. CASE DropUsage(r)
  BY <1>1, <1>3 DEF DropUsage, Fault, rows
<1> QED BY <1>2, <1>3 DEF ListenerStep

LEMMA FormedByListener ==
    ASSUME Formed, NEW r \in Streams, ListenerStep(r)
    PROVE  Formed'
<1>1. bus' \subseteq Entry /\ usage' \subseteq Entry
  BY Listening DEF Formed, LogsFormed
<1>2. left' \subseteq Streams
  BY Listening DEF Formed, StreamsFormed
<1> QED BY <1>1, <1>2, Listening, FormedWhenAside

\* A job that begins follows the chain it has just read.
LEMMA FormedByTrigger ==
    ASSUME Formed, NEW r \in Streams, Trigger(r)
    PROVE  Formed'
<1>1. /\ RowsFormed /\ LogsFormed /\ StreamsFormed /\ JobsFormed /\ Chained /\ JobsFollow
      /\ UNCHANGED <<conversation, messages, summaries, usage, stream, left, bus, mishap>>
  BY DEF Formed, Trigger, rows
<1> DEFINE c == ConvOf(r)
           j == [pc |-> "writing", version |-> NextVersion(c),
                 first |-> UnsummarizedFrom(summaries[c]), last |-> Len(messages[c])]
<1>2. Due(c) => j \in Jobs /\ Follows(j, summaries[c], Len(messages[c]))
  <2> SUFFICES ASSUME Due(c) PROVE j \in Jobs /\ Follows(j, summaries[c], Len(messages[c]))
    OBVIOUS
  <2>1. c \in Conversations
    BY DEF Due, Live
  <2>2. PICK n \in Nat : Chain(summaries[c], n, Len(messages[c]))
    BY <1>1, <2>1 DEF Chained
  <2>3. summaries[c] \in SUBSET SummaryRow /\ messages[c] \in Seq(Row)
    BY <1>1, <2>1 DEF RowsFormed
  <2>4. Len(messages[c]) \in Nat
    BY <2>3
  <2>5. LatestSummary(summaries[c]).version \in Nat /\ LatestSummary(summaries[c]).last \in Nat
    BY <2>2, <2>3, <2>4, LatestOfChain
  <2>6. UnsummarizedFrom(summaries[c]) <= Len(messages[c])
    BY <2>4, <2>5, SizesAssumption DEF Due, IntervalReached, UnsummarizedFrom
  <2>7. j \in Writing
    BY <2>4, <2>5 DEF Writing, NextVersion, UnsummarizedFrom
  <2>8. Follows(j, summaries[c], Len(messages[c]))
    BY <2>4, <2>5, <2>6 DEF Follows, NextVersion, UnsummarizedFrom
  <2> QED BY <2>7, <2>8 DEF Jobs
<1>3. PICK k \in Jobs :
        /\ job' = [job EXCEPT ![r] = k]
        /\ k = NoJob \/ (Due(c) /\ k = j)
  <2>1. NoJob \in Jobs
    BY DEF Jobs
  <2>2. job' = [job EXCEPT ![r] = IF Due(c) THEN j ELSE NoJob]
    BY DEF Trigger
  <2> HIDE DEF j
  <2> QED BY <1>2, <2>1, <2>2
<1>4. \A q \in Streams \ {r} : job'[q] = job[q]
  BY <1>1, <1>3 DEF JobsFormed
<1>5. job'[r] = k /\ job' \in [Streams -> Jobs]
  BY <1>1, <1>3 DEF JobsFormed
<1>6. stream[r].pc # "idle"
  BY <1>1 DEF JobsFormed, Trigger
<1>7. JobsFormed'
  BY <1>1, <1>4, <1>5, <1>6 DEF JobsFormed
<1>8. JobsFollow'
  <2> SUFFICES ASSUME NEW q \in Streams, (job[q].pc = "writing" /\ Live(ConvOf(q)))'
               PROVE  Follows(job[q], summaries[ConvOf(q)], Len(messages[ConvOf(q)]))'
    BY DEF JobsFollow
  <2>1. CASE q # r
    BY <1>1, <1>4, <2>1 DEF JobsFollow, Live, ConvOf
  <2>2. CASE q = r
    <3>1. job'[r].pc = "writing"
      BY <2>2
    <3>2. Due(c) /\ k = j
      BY <1>3, <1>5, <3>1 DEF NoJob
    <3>3. Follows(job'[r], summaries[c], Len(messages[c]))
      BY <1>2, <1>5, <3>2
    <3> HIDE DEF j
    <3> QED BY <1>1, <2>2, <3>3 DEF ConvOf
  <2> QED BY <2>1, <2>2
<1>9. RowsFormed' /\ LogsFormed' /\ StreamsFormed' /\ Chained'
  BY <1>1 DEF RowsFormed, LogsFormed, StreamsFormed, Chained, ConvOf
<1> QED BY <1>7, <1>8, <1>9 DEF Formed

LEMMA FormedByStoreSummary ==
    ASSUME Formed, NEW r \in Streams, StoreSummary(r)
    PROVE  Formed'
<1>1. /\ RowsFormed /\ LogsFormed /\ StreamsFormed /\ JobsFormed /\ Chained /\ JobsFollow
      /\ UNCHANGED <<conversation, messages, usage, stream, left, bus, mishap>>
  BY DEF Formed, StoreSummary
<1> DEFINE c == ConvOf(r)
           j == job[r]
           len == Len(messages[c])
           row(empty) == [version |-> j.version, first |-> j.first, last |-> j.last,
                          empty |-> empty]
<1>2. /\ c \in Conversations /\ conversation[c] = "live" /\ j.pc = "writing"
      /\ VersionFree(c, j) /\ job' = [job EXCEPT ![r] = NoJob]
  BY DEF StoreSummary, Live
<1>3. PICK empty \in BOOLEAN :
        summaries' = [summaries EXCEPT ![c] = @ \cup {row(empty)}]
  BY DEF StoreSummary
<1>4. j \in Writing
  BY <1>1, <1>2 DEF JobsFormed, Jobs, NoJob
<1>5. row(empty) \in SummaryRow
  BY <1>4, Zenon DEF Writing, SummaryRow
<1>6. row(empty).version = j.version /\ row(empty).first = j.first /\ row(empty).last = j.last
  OBVIOUS
<1>7. j.version \in Nat \ {0} /\ j.first \in Nat /\ j.last \in Nat
  BY <1>4 DEF Writing
<1>8. PICK n \in Nat : Chain(summaries[c], n, len)
  BY <1>1, <1>2 DEF Chained
<1>9. summaries[c] \in SUBSET SummaryRow /\ len \in Nat
  <2>1. messages[c] \in Seq(Row)
    BY <1>1, <1>2 DEF RowsFormed
  <2>2. Len(messages[c]) \in Nat
    BY <2>1
  <2> QED BY <1>1, <1>2, <2>2 DEF RowsFormed
<1>10. Follows(j, summaries[c], len)
  BY <1>1, <1>2 DEF JobsFollow, Live
<1> HIDE DEF row
<1> DEFINE s == row(empty)
           T == summaries[c] \cup {s}
<1>11. summaries'[c] = T /\ \A d \in Conversations \ {c} : summaries'[d] = summaries[d]
  BY <1>1, <1>2, <1>3 DEF RowsFormed
<1> HIDE DEF c, j, len, s
\* The version is free, and it is no later than the next: so it is the next.
<1>12. j.version = n + 1 /\ j.first = LatestSummary(summaries[c]).last + 1
  <2>1. LatestSummary(summaries[c]).version = n
    BY <1>8, <1>9, LatestOfChain
  <2>2. j.version <= n + 1
    BY <1>10, <2>1 DEF Follows
  <2>3. ~(j.version \in 1 .. n)
    BY <1>2, <1>8 DEF VersionFree, Chain
  <2>4. j.version = n + 1
    BY <1>7, <2>2, <2>3
  <2> QED BY <1>10, <2>1, <2>4 DEF Follows
<1>13. j.first <= j.last /\ j.last <= len
  BY <1>10 DEF Follows
<1>14. Chain(T, n + 1, len)
  BY <1>5, <1>6, <1>8, <1>9, <1>12, <1>13, ChainExtends DEF s
<1>15. T \in SUBSET SummaryRow
  BY <1>5, <1>9 DEF s
<1>16. LatestSummary(T).version = n + 1
  BY <1>9, <1>14, <1>15, LatestOfChain
<1>17. RowsFormed'
  <2>1. summaries' \in [Conversations -> SUBSET SummaryRow]
    BY <1>1, <1>2, <1>3, <1>5 DEF RowsFormed
  <2> QED BY <1>1, <1>2, <1>11, <2>1 DEF RowsFormed
<1>18. Chained'
  <2> SUFFICES ASSUME NEW d \in Conversations
               PROVE  \E m \in Nat : Chain(summaries'[d], m, Len(messages'[d]))
    BY DEF Chained
  <2>1. CASE d = c
    <3>1. n + 1 \in Nat
      OBVIOUS
    <3>2. Chain(summaries'[d], n + 1, Len(messages'[d]))
      BY <1>1, <1>11, <1>14, <2>1 DEF len
    <3> QED BY <3>1, <3>2
  <2>2. CASE d # c
    BY <1>1, <1>11, <2>2 DEF Chained
  <2> QED BY <2>1, <2>2
<1>19. /\ job' \in [Streams -> Jobs] /\ job'[r] = NoJob
       /\ \A q \in Streams \ {r} : job'[q] = job[q]
  <2>1. NoJob \in Jobs
    BY DEF Jobs
  <2> QED BY <1>1, <1>2, <2>1 DEF JobsFormed
<1>20. JobsFormed'
  BY <1>1, <1>19 DEF JobsFormed, NoJob
<1>21. JobsFollow'
  <2> SUFFICES ASSUME NEW q \in Streams, (job[q].pc = "writing" /\ Live(ConvOf(q)))'
               PROVE  Follows(job[q], summaries[ConvOf(q)], Len(messages[ConvOf(q)]))'
    BY DEF JobsFollow
  <2> DEFINE d == stream[q].conv
  <2>1. job'[q] = job[q] /\ job[q].pc = "writing"
    BY <1>19 DEF NoJob
  <2>2. d \in Conversations /\ conversation[d] = "live"
    BY <1>1 DEF Live, ConvOf
  <2>3. Follows(job[q], summaries[d], Len(messages[d]))
    BY <1>1, <2>1, <2>2 DEF JobsFollow, Live, ConvOf
  <2>4. CASE d # c
    BY <1>1, <1>11, <2>1, <2>2, <2>3, <2>4 DEF ConvOf
  <2>5. CASE d = c
    <3>1. job[q].version \in Nat
      BY <1>1, <2>1 DEF JobsFormed, Jobs, Writing, NoJob
    <3>2. LatestSummary(summaries[c]).version = n
      BY <1>8, <1>9, LatestOfChain
    <3>3. job[q].version <= n + 1
      BY <2>3, <2>5, <3>2 DEF Follows
    <3>4. Follows(job[q], T, Len(messages[d]))
      BY <1>16, <2>3, <3>1, <3>3 DEF Follows
    <3> QED BY <1>1, <1>11, <2>1, <2>5, <3>4 DEF ConvOf
  <2> QED BY <2>4, <2>5
<1>22. LogsFormed' /\ StreamsFormed'
  BY <1>1 DEF LogsFormed, StreamsFormed, ConvOf
<1> QED BY <1>17, <1>18, <1>20, <1>21, <1>22 DEF Formed

LEMMA FormedByLoseSummary ==
    ASSUME Formed, NEW r \in Streams, LoseSummary(r)
    PROVE  Formed'
<1>1. /\ RowsFormed /\ LogsFormed /\ StreamsFormed /\ JobsFormed /\ Chained /\ JobsFollow
      /\ UNCHANGED <<conversation, messages, summaries, usage, stream, left, bus, mishap>>
  BY DEF Formed, LoseSummary, rows
<1>2. /\ job' \in [Streams -> Jobs] /\ job'[r] = NoJob
      /\ \A q \in Streams \ {r} : job'[q] = job[q]
  <2>1. NoJob \in Jobs
    BY DEF Jobs
  <2> QED BY <1>1, <2>1 DEF JobsFormed, LoseSummary
<1>3. JobsFormed'
  BY <1>1, <1>2 DEF JobsFormed, NoJob
<1>4. JobsFollow'
  BY <1>1, <1>2 DEF JobsFollow, Live, ConvOf, NoJob
<1>5. RowsFormed' /\ LogsFormed' /\ StreamsFormed' /\ Chained'
  BY <1>1 DEF RowsFormed, LogsFormed, StreamsFormed, Chained, ConvOf
<1> QED BY <1>3, <1>4, <1>5 DEF Formed

LEMMA FormedAtFirst == Init => Formed
<1> SUFFICES ASSUME Init PROVE Formed
  OBVIOUS
<1>1. RowsFormed
  BY DEF Init, RowsFormed
<1>2. LogsFormed
  BY DEF Init, LogsFormed
<1>3. StreamsFormed
  BY SizesAssumption DEF Init, StreamsFormed, StreamRow, Pcs, Counts, Idle, ConvOf
<1>4. JobsFormed
  BY DEF Init, JobsFormed, Jobs, NoJob
<1>5. Chained
  <2> SUFFICES ASSUME NEW c \in Conversations
               PROVE  \E n \in Nat : Chain(summaries[c], n, Len(messages[c]))
    BY DEF Chained
  <2>1. Chain({}, 0, Len(messages[c]))
    BY DEF Chain
  <2> QED BY <2>1 DEF Init
<1>6. JobsFollow
  BY DEF Init, JobsFollow, NoJob
<1> QED BY <1>1, <1>2, <1>3, <1>4, <1>5, <1>6 DEF Formed

LEMMA FormedStep == Formed /\ [Next]_vars => Formed'
<1> SUFFICES ASSUME Formed, [Next]_vars PROVE Formed'
  OBVIOUS
<1>1. ASSUME NEW c \in Conversations, Create(c) PROVE Formed'
  BY <1>1, FormedByCreate
<1>2. ASSUME NEW c \in Conversations, Delete(c) PROVE Formed'
  BY <1>2, FormedByDelete
<1>3. ASSUME NEW r \in Streams, Open(r) PROVE Formed'
  BY <1>3, FormedByOpen
<1>4. ASSUME NEW r \in Streams, HangUp(r) PROVE Formed'
  BY <1>4, FormedByHangUp
<1>5. ASSUME NEW r \in Streams, StreamStep(r) PROVE Formed'
  BY <1>5, FormedByStream
<1>6. ASSUME NEW r \in Streams, ListenerStep(r) PROVE Formed'
  BY <1>6, FormedByListener
<1>7. ASSUME NEW r \in Streams, JobStep(r) PROVE Formed'
  BY <1>7, FormedByTrigger, FormedByStoreSummary, FormedByLoseSummary DEF JobStep
<1>8. CASE UNCHANGED vars
  BY <1>8 DEF vars, rows, Formed, RowsFormed, LogsFormed, StreamsFormed, JobsFormed, Chained,
              JobsFollow, ConvOf, Live
<1> QED BY <1>1, <1>2, <1>3, <1>4, <1>5, <1>6, <1>7, <1>8 DEF Next, ServerStep

THEOREM FormedAlways == Spec => []Formed
BY FormedAtFirst, FormedStep, PTL DEF Spec

\* Every row, event and local of the chat has its type, whatever interleaves.
THEOREM ChatTyped == Spec => []TypeOK
<1>1. Formed => TypeOK
  <2> SUFFICES ASSUME Formed PROVE TypeOK
    OBVIOUS
  <2>1. /\ conversation \in [Conversations -> {"none", "live", "deleted"}]
        /\ left \subseteq Streams /\ mishap \subseteq Streams
    BY DEF Formed, RowsFormed, StreamsFormed
  <2>2. ASSUME NEW c \in Conversations
        PROVE  messages[c] \in Seq(Row) /\ \A s \in summaries[c] : s \in SummaryRow
    BY DEF Formed, RowsFormed
  <2>3. \A e \in bus \cup usage : e \in Entry
    BY DEF Formed, LogsFormed
  <2>4. ASSUME NEW r \in Streams
        PROVE  /\ stream[r].chunks \in Counts
               /\ ConvOf(r) = NoConversation <=> stream[r].pc = "idle"
    BY NoConversationAssumption DEF Formed, StreamsFormed, StreamRow
  <2> QED BY <2>1, <2>2, <2>3, <2>4 DEF TypeOK, Row, SummaryRow, Entry
<1> QED BY <1>1, FormedAlways, PTL

\* The summaries of a conversation cover its messages from the first on, in
\* the order of their versions, without a gap and without an overlap: although
\* each was written in the background, from a snapshot that was stale by the
\* time it was stored, beside others.
THEOREM SummariesNeverOverlap == Spec => []SummariesPartition
<1>1. Formed => SummariesPartition
  <2> SUFFICES ASSUME Formed, NEW c \in Conversations, NEW s \in summaries[c]
               PROVE  /\ s.first <= s.last /\ s.last <= Len(messages[c])
                      /\ \A t \in summaries[c] : s.version = t.version => s = t
                      /\ IF s.version = 1 THEN s.first = 1
                         ELSE \E t \in summaries[c] :
                                t.version = s.version - 1 /\ s.first = t.last + 1
    BY DEF SummariesPartition
  <2>1. PICK n \in Nat : Chain(summaries[c], n, Len(messages[c]))
    BY DEF Formed, Chained
  <2> QED BY <2>1 DEF Chain
<1> QED BY <1>1, FormedAlways, PTL

-----------------------------------------------------------------------------
\* Staged is inductive, on top of Formed.

LEMMA RowsRead ==
    ASSUME Formed, NEW c \in Conversations
    PROVE  /\ messages[c] \in Seq(Row)
           /\ Len(messages[c]) \in Nat
           /\ DOMAIN messages[c] = 1 .. Len(messages[c])
           /\ \A i \in DOMAIN messages[c] : messages[c][i] \in Row
<1>1. messages[c] \in Seq(Row)
  BY DEF Formed, RowsFormed
<1> QED BY <1>1

\* What a stream's new message does to the rows.
LEMMA Added ==
    ASSUME Formed, NEW r \in Streams, Live(ConvOf(r)), NEW m \in Row, Stored(ConvOf(r), m)
    PROVE  /\ \A c \in Conversations : \A i \in DOMAIN messages[c] :
                i \in DOMAIN messages'[c] /\ messages'[c][i] = messages[c][i]
           /\ \A c \in Conversations : \A i \in DOMAIN messages'[c] \ DOMAIN messages[c] :
                /\ c = ConvOf(r) /\ i = Len(messages[c]) + 1
                /\ messages'[c][i] = m
           /\ Len(messages[ConvOf(r)]) + 1 \in DOMAIN messages'[ConvOf(r)]
<1> DEFINE own == ConvOf(r)
<1>1. own \in Conversations /\ RowsFormed
  BY DEF Live, Formed
<1>2. /\ messages' \in [Conversations -> Seq(Row)]
      /\ \A d \in Conversations \ {own} : messages'[d] = messages[d]
      /\ Len(messages'[own]) = Len(messages[own]) + 1
      /\ messages'[own][Len(messages[own]) + 1] = m
      /\ \A i \in 1 .. Len(messages[own]) : messages'[own][i] = messages[own][i]
  BY <1>1, Storing
<1>3. Len(messages[own]) \in Nat /\ DOMAIN messages[own] = 1 .. Len(messages[own])
  BY <1>1, RowsRead
<1>4. DOMAIN messages'[own] = 1 .. Len(messages[own]) + 1
  <2>1. messages'[own] \in Seq(Row)
    BY <1>1, <1>2
  <2> QED BY <1>2, <2>1
<1> HIDE DEF own
<1>5. ASSUME NEW c \in Conversations
      PROVE  /\ \A i \in DOMAIN messages[c] :
                  i \in DOMAIN messages'[c] /\ messages'[c][i] = messages[c][i]
             /\ \A i \in DOMAIN messages'[c] \ DOMAIN messages[c] :
                  c = own /\ i = Len(messages[c]) + 1 /\ messages'[c][i] = m
  <2>1. CASE c = own
    BY <1>2, <1>3, <1>4, <2>1
  <2>2. CASE c # own
    BY <1>2, <2>2
  <2> QED BY <2>1, <2>2
<1>6. Len(messages[own]) + 1 \in DOMAIN messages'[own]
  BY <1>3, <1>4
<1> QED BY <1>5, <1>6 DEF own

\* The same of the three kinds at once: what is new is the stream's own, and
\* there is something new only where it stores its question or concludes.
Adds(r) ==
    /\ \A c \in Conversations : \A i \in DOMAIN messages[c] :
         i \in DOMAIN messages'[c] /\ messages'[c][i] = messages[c][i]
    /\ \A c \in Conversations : \A i \in DOMAIN messages'[c] \ DOMAIN messages[c] :
         /\ c = ConvOf(r) /\ i = Len(messages[c]) + 1
         /\ messages'[c][i].stream = r
         /\ \/ stream[r].pc = "question" /\ messages'[c][i].role = "USER"
            \/ /\ stream[r].pc \in {"answer", "partial"}
               /\ messages'[c][i].role = "ASSISTANT"

\* Asking at "question" or concluding at "answer" leaves the new row last.
LEMMA StreamAdds ==
    ASSUME Formed, NEW r \in Streams, Walks(r) \/ Asks(r) \/ Concludes(r)
    PROVE  Adds(r)
<1>1. CASE UNCHANGED messages
  BY <1>1 DEF Adds
<1>2. CASE Asks(r)
  <2>1. PICK chars \in Questions : Stored(ConvOf(r), Message(r, "USER", "none", chars))
    BY <1>2 DEF Asks
  <2> DEFINE m == Message(r, "USER", "none", chars)
  <2>2. m \in Row /\ m.stream = r /\ m.role = "USER"
    BY QuestionIsRow DEF Message
  <2> HIDE DEF m
  <2>3. Live(ConvOf(r)) /\ stream[r].pc = "question" /\ Stored(ConvOf(r), m)
    BY <1>2, <2>1 DEF Asks, m
  <2> QED BY <2>2, <2>3, Added DEF Adds
<1>3. ASSUME NEW finish \in {"STOP", "CANCELLED"}, Stored(ConvOf(r), Answer(r, finish)),
             Live(ConvOf(r)), stream[r].pc \in {"answer", "partial"}
      PROVE  Adds(r)
  <2> DEFINE m == Answer(r, finish)
  <2>1. m \in Row /\ m.stream = r /\ m.role = "ASSISTANT"
    BY AnswerIsRow DEF Answer, Message, Formed
  <2> HIDE DEF m
  <2>2. Stored(ConvOf(r), m)
    BY <1>3 DEF m
  <2> QED BY <1>3, <2>1, <2>2, Added DEF Adds
<1> QED BY <1>1, <1>2, <1>3 DEF Walks, Concludes

\* Rows tell where their streams are, after a stream's step as before it.
LEMMA RowsTellByStream ==
    ASSUME Formed, RowsTell, NEW r \in Streams, Walks(r) \/ Asks(r) \/ Concludes(r)
    PROVE  RowsTell'
<1>1. Moves(r) /\ Adds(r)
  BY StreamAdds DEF Walks, Asks, Concludes
<1>2. /\ stream[r].pc \notin Unasked => stream'[r].pc \notin Unasked
      /\ stream[r].pc \in Concluded => stream'[r].pc \in Concluded
      /\ stream[r].pc = "question" => stream'[r].pc \notin Unasked \/ UNCHANGED messages
      /\ stream[r].pc \in {"answer", "partial"} =>
            stream'[r].pc \in Concluded \/ UNCHANGED messages
  BY DEF Walks, Asks, Concludes, Unasked, Concluded
<1>3. Concluded \cap Unasked = {}
  BY DEF Unasked, Concluded
<1> SUFFICES ASSUME NEW c \in Conversations, NEW i \in DOMAIN messages'[c],
                    messages'[c][i].stream # NoStream
             PROVE  LET m == messages'[c][i] IN
                    /\ stream'[m.stream].conv = c
                    /\ stream'[m.stream].pc \notin Unasked
                    /\ m.role = "ASSISTANT" => stream'[m.stream].pc \in Concluded
  BY DEF RowsTell, ConvOf
<1>4. CASE i \in DOMAIN messages[c]
  <2> DEFINE m == messages[c][i]
  <2>1. messages'[c][i] = m
    BY <1>1, <1>4 DEF Adds
  <2>2. m \in Row
    BY <1>4, RowsRead
  <2>3. m.stream \in Streams
    BY <2>1, <2>2 DEF Row
  <2>4. /\ stream[m.stream].conv = c
        /\ stream[m.stream].pc \notin Unasked
        /\ m.role = "ASSISTANT" => stream[m.stream].pc \in Concluded
    BY <1>4, <2>1 DEF RowsTell, ConvOf
  <2> HIDE DEF m
  <2>5. CASE m.stream = r
    BY <1>1, <1>2, <2>1, <2>4, <2>5 DEF Moves
  <2>6. CASE m.stream # r
    BY <1>1, <2>1, <2>3, <2>4, <2>6 DEF Moves
  <2> QED BY <2>5, <2>6
<1>5. CASE i \notin DOMAIN messages[c]
  <2>1. /\ c = stream[r].conv
        /\ messages'[c][i].stream = r
        /\ \/ stream[r].pc = "question" /\ messages'[c][i].role = "USER"
           \/ stream[r].pc \in {"answer", "partial"}
    BY <1>1, <1>5 DEF Adds, ConvOf
  <2>2. ~UNCHANGED messages
    BY <1>5
  <2>3. stream'[r].conv = c
    BY <1>1, <2>1 DEF Moves
  <2> QED BY <1>2, <1>3, <2>1, <2>2, <2>3
<1> QED BY <1>4, <1>5

LEMMA BillsTellByStream ==
    ASSUME Formed, BillsTell, NEW r \in Streams, Walks(r) \/ Asks(r) \/ Concludes(r)
    PROVE  BillsTell'
<1>1. Moves(r) /\ UNCHANGED usage
  BY DEF Walks, Asks, Concludes, Moves
<1>2. stream[r].pc \in Concluded => stream'[r].pc \in Concluded
  BY DEF Walks, Asks, Concludes, Concluded
<1>3. \A e \in bus' :
        e \in bus \/ (e.stream = r /\ stream'[r].pc \in Concluded)
  <2>1. CASE UNCHANGED bus
    BY <2>1
  <2>2. ASSUME NEW outcome \in Outcomes, Publish(r, outcome), Concludes(r)
        PROVE  \A e \in bus' : e \in bus \/ (e.stream = r /\ stream'[r].pc \in Concluded)
    BY <2>2 DEF Publish, Concludes
  <2> QED BY <2>1, <2>2 DEF Walks, Asks, Concludes
<1> SUFFICES ASSUME NEW e \in bus' \cup usage' PROVE stream'[e.stream].pc \in Concluded
  BY DEF BillsTell
<1>4. CASE e \in bus \cup usage
  <2>1. e.stream \in Streams /\ stream[e.stream].pc \in Concluded
    BY <1>4 DEF Formed, LogsFormed, Entry, BillsTell
  <2> QED BY <1>1, <1>2, <2>1 DEF Moves
<1>5. CASE e \notin bus \cup usage
  BY <1>1, <1>3, <1>5
<1> QED BY <1>4, <1>5

LEMMA QuestionsTellByStream ==
    ASSUME Formed, QuestionsTell, NEW r \in Streams, Walks(r) \/ Asks(r) \/ Concludes(r)
    PROVE  QuestionsTell'
<1>1. Moves(r) /\ Adds(r)
  BY StreamAdds DEF Walks, Asks, Concludes
<1>2. stream'[r].pc \in Asked => stream[r].pc \in Asked \/ Asks(r)
  BY DEF Walks, Concludes, Asked, Concluded
<1> SUFFICES ASSUME NEW q \in Streams, stream'[q].pc \in Asked,
                    stream'[q].conv \in Conversations,
                    conversation'[stream'[q].conv] = "live"
             PROVE  QuestionIn(messages'[stream'[q].conv], q)
  BY DEF QuestionsTell, ConvOf, Live
<1> DEFINE c == stream[q].conv
<1>3. stream'[q].conv = c /\ Live(c) /\ c \in Conversations
  BY <1>1 DEF Moves, Live
<1>4. CASE stream[q].pc \in Asked
  <2>1. QuestionIn(messages[c], q)
    BY <1>3, <1>4 DEF QuestionsTell, ConvOf
  <2>2. \A i \in DOMAIN messages[c] :
          i \in DOMAIN messages'[c] /\ messages'[c][i] = messages[c][i]
    BY <1>1, <1>3 DEF Adds
  <2>3. QuestionIn(messages'[c], q)
    BY <2>1, <2>2 DEF QuestionIn
  <2> QED BY <1>3, <2>3
<1>5. CASE q = r /\ Asks(r)
  <2>1. PICK chars \in Questions : Stored(ConvOf(r), Message(r, "USER", "none", chars))
    BY <1>5 DEF Asks
  <2> DEFINE m == Message(r, "USER", "none", chars)
             i == Len(messages[ConvOf(r)]) + 1
  <2>2. m \in Row /\ m.stream = r /\ m.role = "USER"
    BY QuestionIsRow DEF Message
  <2> HIDE DEF m
  <2>3. Stored(ConvOf(r), m) /\ Live(ConvOf(r)) /\ ConvOf(r) \in Conversations
    BY <1>5, <2>1 DEF m, Asks, Live
  <2>4. i \in DOMAIN messages'[ConvOf(r)] /\ messages'[ConvOf(r)][i] = m
    <3>1. i \in DOMAIN messages'[ConvOf(r)] /\ i \notin DOMAIN messages[ConvOf(r)]
      BY <2>2, <2>3, Added, RowsRead
    <3> QED BY <2>2, <2>3, <3>1, Added
  <2> HIDE DEF i
  <2>5. QuestionIn(messages'[ConvOf(r)], r)
    BY <2>2, <2>4 DEF QuestionIn
  <2> QED BY <1>3, <1>5, <2>5 DEF ConvOf
<1>6. CASE q # r
  <2>1. stream'[q] = stream[q]
    BY <1>1, <1>6 DEF Moves
  <2> QED BY <1>4, <2>1
<1> QED BY <1>2, <1>4, <1>5, <1>6

LEMMA StagedByStream ==
    ASSUME Formed, Staged, NEW r \in Streams, StreamStep(r)
    PROVE  Staged'
BY Kinds, RowsTellByStream, BillsTellByStream, QuestionsTellByStream DEF Staged

LEMMA StagedByCreate ==
    ASSUME Formed, Staged, NEW c \in Conversations, Create(c)
    PROVE  Staged'
<1>1. /\ conversation[c] = "none"
      /\ messages'[c] = SystemMessage(c)
      /\ \A d \in Conversations \ {c} :
           messages'[d] = messages[d] /\ conversation'[d] = conversation[d]
      /\ UNCHANGED <<stream, bus, usage>>
  BY DEF Create, Formed, RowsFormed
<1>2. RowsTell'
  <2> SUFFICES ASSUME NEW d \in Conversations, NEW i \in DOMAIN messages'[d],
                      messages'[d][i].stream # NoStream
               PROVE  LET m == messages'[d][i] IN
                      /\ stream'[m.stream].conv = d
                      /\ stream'[m.stream].pc \notin Unasked
                      /\ m.role = "ASSISTANT" => stream'[m.stream].pc \in Concluded
    BY DEF RowsTell, ConvOf
  <2>1. d # c
    <3>1. \A k \in DOMAIN SystemMessage(c) : SystemMessage(c)[k].stream = NoStream
      BY DEF SystemMessage, Message
    <3> QED BY <1>1, <3>1
  <2> QED BY <1>1, <2>1 DEF Staged, RowsTell, ConvOf
<1>3. BillsTell'
  BY <1>1 DEF Staged, BillsTell
<1>4. QuestionsTell'
  <2> SUFFICES ASSUME NEW q \in Streams, stream'[q].pc \in Asked,
                      stream'[q].conv \in Conversations,
                      conversation'[stream'[q].conv] = "live"
               PROVE  QuestionIn(messages'[stream'[q].conv], q)
    BY DEF QuestionsTell, ConvOf, Live
  <2>1. stream'[q] = stream[q] /\ stream[q].pc # "idle"
    BY <1>1 DEF Asked
  <2>2. stream[q].conv \in Conversations /\ stream[q].conv # c
    BY <1>1, <2>1 DEF Formed, StreamsFormed, ConvOf
  <2>3. Live(stream[q].conv)
    BY <1>1, <2>1, <2>2 DEF Live
  <2> QED BY <1>1, <2>1, <2>2, <2>3 DEF Staged, QuestionsTell, ConvOf
<1> QED BY <1>2, <1>3, <1>4 DEF Staged

LEMMA StagedByDelete ==
    ASSUME Formed, Staged, NEW c \in Conversations, Delete(c)
    PROVE  Staged'
<1>1. /\ messages'[c] = <<>> /\ conversation'[c] = "deleted"
      /\ \A d \in Conversations \ {c} :
           messages'[d] = messages[d] /\ conversation'[d] = conversation[d]
      /\ UNCHANGED <<stream, bus>>
  BY DEF Delete, Formed, RowsFormed
<1>2. RowsTell'
  <2> SUFFICES ASSUME NEW d \in Conversations, NEW i \in DOMAIN messages'[d],
                      messages'[d][i].stream # NoStream
               PROVE  LET m == messages'[d][i] IN
                      /\ stream'[m.stream].conv = d
                      /\ stream'[m.stream].pc \notin Unasked
                      /\ m.role = "ASSISTANT" => stream'[m.stream].pc \in Concluded
    BY DEF RowsTell, ConvOf
  <2>1. d # c
    BY <1>1
  <2> QED BY <1>1, <2>1 DEF Staged, RowsTell, ConvOf
<1>3. BillsTell'
  <2>1. \A v \in usage' : \E u \in usage : v.stream = u.stream
    BY Unlinked DEF Delete, Formed
  <2> QED BY <1>1, <2>1 DEF Staged, BillsTell
<1>4. QuestionsTell'
  <2> SUFFICES ASSUME NEW q \in Streams, stream'[q].pc \in Asked,
                      stream'[q].conv \in Conversations,
                      conversation'[stream'[q].conv] = "live"
               PROVE  QuestionIn(messages'[stream'[q].conv], q)
    BY DEF QuestionsTell, ConvOf, Live
  <2>1. stream'[q] = stream[q] /\ stream[q].conv \in Conversations /\ stream[q].conv # c
    BY <1>1 DEF Live
  <2>2. Live(stream[q].conv)
    BY <1>1, <2>1 DEF Live
  <2> QED BY <1>1, <2>1, <2>2 DEF Staged, QuestionsTell, ConvOf
<1> QED BY <1>2, <1>3, <1>4 DEF Staged

\* A stream that opens had been idle: no row and no bill is its own.
LEMMA Opening ==
    ASSUME Formed, NEW r \in Streams, Open(r)
    PROVE  /\ stream[r].pc = "idle" /\ stream'[r].pc = "start"
           /\ \A q \in Streams \ {r} : stream'[q] = stream[q]
           /\ UNCHANGED <<conversation, messages, summaries, usage, bus, mishap>>
<1>1. stream \in [Streams -> StreamRow]
  BY DEF Formed, StreamsFormed
<1>2. stream[r].pc = "idle"
  BY DEF Open, Idle
<1>3. PICK c \in Conversations :
        stream' = [stream EXCEPT ![r] = [Idle EXCEPT !.pc = "start", !.conv = c]]
  BY DEF Open
<1>4. [Idle EXCEPT !.pc = "start", !.conv = c].pc = "start"
  BY DEF Idle
<1>5. stream'[r].pc = "start" /\ \A q \in Streams \ {r} : stream'[q] = stream[q]
  BY <1>1, <1>3, <1>4
<1> QED BY <1>2, <1>5 DEF Open, rows

LEMMA StagedByOpen ==
    ASSUME Formed, Staged, NEW r \in Streams, Open(r)
    PROVE  Staged'
<1>1. /\ stream[r].pc = "idle" /\ stream'[r].pc = "start"
      /\ \A q \in Streams \ {r} : stream'[q] = stream[q]
      /\ UNCHANGED <<conversation, messages, summaries, usage, bus, mishap>>
  BY Opening
<1>2. RowsTell'
  <2> SUFFICES ASSUME NEW c \in Conversations, NEW i \in DOMAIN messages[c],
                      messages[c][i].stream # NoStream
               PROVE  LET m == messages[c][i] IN
                      /\ stream'[m.stream].conv = c
                      /\ stream'[m.stream].pc \notin Unasked
                      /\ m.role = "ASSISTANT" => stream'[m.stream].pc \in Concluded
    BY <1>1 DEF RowsTell, ConvOf
  <2> DEFINE m == messages[c][i]
  <2>1. m.stream \in Streams
    BY RowsRead DEF Row
  <2>2. /\ stream[m.stream].conv = c
        /\ stream[m.stream].pc \notin Unasked
        /\ m.role = "ASSISTANT" => stream[m.stream].pc \in Concluded
    BY DEF Staged, RowsTell, ConvOf
  <2>3. m.stream # r
    BY <1>1, <2>2 DEF Unasked
  <2>4. stream'[m.stream] = stream[m.stream]
    BY <1>1, <2>1, <2>3
  <2> QED BY <2>2, <2>4
<1>3. BillsTell'
  <2> SUFFICES ASSUME NEW e \in bus \cup usage PROVE stream'[e.stream].pc \in Concluded
    BY <1>1 DEF BillsTell
  <2>1. e.stream \in Streams /\ stream[e.stream].pc \in Concluded
    BY DEF Formed, LogsFormed, Entry, Staged, BillsTell
  <2> QED BY <1>1, <2>1 DEF Concluded
<1>4. QuestionsTell'
  <2> SUFFICES ASSUME NEW q \in Streams, stream'[q].pc \in Asked,
                      stream'[q].conv \in Conversations,
                      conversation'[stream'[q].conv] = "live"
               PROVE  QuestionIn(messages'[stream'[q].conv], q)
    BY DEF QuestionsTell, ConvOf, Live
  <2>1. q # r
    BY <1>1 DEF Asked
  <2>2. stream'[q] = stream[q]
    BY <1>1, <2>1
  <2> QED BY <1>1, <2>2 DEF Staged, QuestionsTell, ConvOf, Live
<1> QED BY <1>2, <1>3, <1>4 DEF Staged

\* Hanging up, listening and summarising leave the messages and the streams
\* alone, and bill nothing.
Aside ==
    /\ UNCHANGED <<conversation, messages, stream>>
    /\ bus' \cup usage' \subseteq bus \cup usage
    /\ mishap \subseteq mishap'

LEMMA Asides ==
    ASSUME Formed, NEW r \in Streams, HangUp(r) \/ ListenerStep(r) \/ JobStep(r)
    PROVE  Aside
<1>1. CASE HangUp(r)
  BY <1>1 DEF HangUp, rows, Aside
<1>2. CASE ListenerStep(r)
  BY <1>2, Listening DEF Aside
<1>3. CASE JobStep(r)
  BY <1>3 DEF JobStep, Trigger, StoreSummary, LoseSummary, rows, Aside
<1> QED BY <1>1, <1>2, <1>3

LEMMA StagedByAside ==
    ASSUME Staged, Aside
    PROVE  Staged'
BY DEF Aside, Staged, RowsTell, BillsTell, QuestionsTell, ConvOf, Live

LEMMA StagedAtFirst == Init => Staged
BY DEF Init, Staged, RowsTell, BillsTell, QuestionsTell, Idle, Asked

LEMMA StagedStep == Formed /\ Staged /\ [Next]_vars => Staged'
<1> SUFFICES ASSUME Formed, Staged, [Next]_vars PROVE Staged'
  OBVIOUS
<1>1. ASSUME NEW c \in Conversations, Create(c) PROVE Staged'
  BY <1>1, StagedByCreate
<1>2. ASSUME NEW c \in Conversations, Delete(c) PROVE Staged'
  BY <1>2, StagedByDelete
<1>3. ASSUME NEW r \in Streams, Open(r) PROVE Staged'
  BY <1>3, StagedByOpen
<1>4. ASSUME NEW r \in Streams, StreamStep(r) PROVE Staged'
  BY <1>4, StagedByStream
<1>5. ASSUME NEW r \in Streams, HangUp(r) \/ ListenerStep(r) \/ JobStep(r) PROVE Staged'
  BY <1>5, Asides, StagedByAside
<1>6. CASE UNCHANGED vars
  BY <1>6, StagedByAside DEF vars, rows, Aside
<1> QED BY <1>1, <1>2, <1>3, <1>4, <1>5, <1>6 DEF Next, ServerStep

LEMMA StagedAlways == Spec => []Staged
BY FormedAlways, StagedAtFirst, StagedStep, PTL DEF Spec

-----------------------------------------------------------------------------
\* What one stream is billed and has stored: BilledAsStored and
\* AnswersFollowQuestions, stream by stream.

StoredAs(r, finish) ==
    \E i \in AnswersOf(r) : messages[ConvOf(r)][i] = Answer(r, finish)

Verdict(r, status) ==
    Live(ConvOf(r)) =>
        /\ status = "SUCCESS" => StoredAs(r, "STOP")
        /\ status = "CANCELLED" /\ stream[r].chunks > 0 => StoredAs(r, "CANCELLED")
        /\ status = "FAILED" /\ r \notin mishap => AnswersOf(r) = {}

OneOutcome ==
    \A e, f \in bus \cup usage : f.stream = e.stream => f.status = e.status

Verdicts == \A e \in bus \cup usage : Verdict(e.stream, e.status)

LEMMA BilledByStream == OneOutcome /\ Verdicts <=> BilledAsStored
BY DEF OneOutcome, Verdicts, Verdict, StoredAs, BilledAsStored

Answered(r) ==
    \A i \in AnswersOf(r) :
        /\ AnswersOf(r) = {i}
        /\ \E q \in 1 .. i :
             messages[ConvOf(r)][q].stream = r /\ messages[ConvOf(r)][q].role = "USER"

\* A step that is not the stream's own leaves the rows of the stream alone.
SameRows(r) ==
    LET c == stream[r].conv IN
    /\ stream'[r].conv = c /\ c \in Conversations
    /\ \A i \in DOMAIN messages[c] : messages[c][i].stream = r =>
         i \in DOMAIN messages'[c] /\ messages'[c][i] = messages[c][i]
    /\ \A i \in DOMAIN messages'[c] : messages'[c][i].stream = r =>
         i \in DOMAIN messages[c] /\ messages'[c][i] = messages[c][i]

LEMMA AnswersKept ==
    ASSUME NEW r \in Streams, SameRows(r)
    PROVE  /\ AnswersOf(r)' = AnswersOf(r)
           /\ \A i \in AnswersOf(r) : messages'[stream'[r].conv][i] = messages[stream[r].conv][i]
BY DEF SameRows, AnswersOf, ConvOf

LEMMA VerdictKept ==
    ASSUME NEW r \in Streams, NEW status, SameRows(r), Verdict(r, status),
           stream'[r].chunks = stream[r].chunks, mishap \subseteq mishap',
           conversation'[stream[r].conv] = "live" => conversation[stream[r].conv] = "live"
    PROVE  Verdict(r, status)'
<1> DEFINE c == stream[r].conv
<1>1. stream'[r].conv = c /\ c \in Conversations
  BY DEF SameRows
<1>2. /\ AnswersOf(r)' = AnswersOf(r)
      /\ \A i \in AnswersOf(r) : messages'[c][i] = messages[c][i]
  BY <1>1, AnswersKept
<1>3. \A finish : StoredAs(r, finish) => StoredAs(r, finish)'
  BY <1>1, <1>2 DEF StoredAs, Answer, Message, ConvOf
<1> SUFFICES ASSUME conversation'[c] = "live"
             PROVE  /\ status = "SUCCESS" => StoredAs(r, "STOP")'
                    /\ status = "CANCELLED" /\ stream'[r].chunks > 0 =>
                          StoredAs(r, "CANCELLED")'
                    /\ status = "FAILED" /\ r \notin mishap' => AnswersOf(r)' = {}
  BY <1>1 DEF Verdict, Live, ConvOf
<1>4. Live(ConvOf(r))
  BY <1>1 DEF Live, ConvOf
<1> QED BY <1>2, <1>3, <1>4 DEF Verdict

LEMMA AnsweredKept ==
    ASSUME Formed, NEW r \in Streams, SameRows(r), Answered(r)
    PROVE  Answered(r)'
<1> DEFINE c == stream[r].conv
<1>1. stream'[r].conv = c /\ c \in Conversations
  BY DEF SameRows
<1>2. AnswersOf(r)' = AnswersOf(r)
  BY AnswersKept
<1> SUFFICES ASSUME NEW i \in AnswersOf(r)
             PROVE  /\ AnswersOf(r) = {i}
                    /\ \E q \in 1 .. i :
                         messages'[c][q].stream = r /\ messages'[c][q].role = "USER"
  BY <1>1, <1>2 DEF Answered, ConvOf
<1>3. i \in DOMAIN messages[c]
  BY DEF AnswersOf, ConvOf
<1>4. PICK q \in 1 .. i : messages[c][q].stream = r /\ messages[c][q].role = "USER"
  BY DEF Answered, ConvOf
<1>5. q \in DOMAIN messages[c]
  BY <1>1, <1>3, <1>4, RowsRead
<1>6. messages'[c][q] = messages[c][q]
  BY <1>4, <1>5 DEF SameRows
<1> QED BY <1>4, <1>6 DEF Answered

\* A stream that has not concluded has no answer and no bill.
LEMMA NoneYet ==
    ASSUME Staged, NEW r \in Streams, stream[r].pc \notin Concluded
    PROVE  /\ \A c \in Conversations : \A i \in DOMAIN messages[c] :
                messages[c][i].stream = r => messages[c][i].role # "ASSISTANT"
           /\ \A e \in bus \cup usage : e.stream # r
BY NoStreamAssumption DEF Staged, RowsTell, BillsTell

LEMMA RowsOfOthers ==
    ASSUME Formed, NEW r \in Streams, Moves(r), Adds(r),
           NEW q \in Streams, stream[q].pc # "idle", q # r \/ UNCHANGED messages
    PROVE  SameRows(q)
<1> DEFINE c == stream[q].conv
<1>1. c \in Conversations
  BY DEF Formed, StreamsFormed, ConvOf
<1>2. stream'[q].conv = c
  BY DEF Moves
<1> HIDE DEF c
<1>3. CASE UNCHANGED messages
  BY <1>1, <1>2, <1>3 DEF SameRows, c
<1>4. CASE q # r
  BY <1>1, <1>2, <1>4 DEF SameRows, Adds, c
<1> QED BY <1>3, <1>4

\* The same for the steps that are no stream's, where the stream's
\* conversation is not the one that begins or ends.
LEMMA RowsOfAll ==
    ASSUME Formed, NEW q \in Streams, stream[q].pc # "idle", stream'[q] = stream[q],
           messages'[stream[q].conv] = messages[stream[q].conv]
    PROVE  SameRows(q)
BY DEF Formed, StreamsFormed, ConvOf, SameRows

\* The row a stream stores last, with the rows it had.
LEMMA Last ==
    ASSUME Formed, NEW r \in Streams, Moves(r), Live(ConvOf(r)),
           NEW m \in Row, m.stream = r, m.role = "ASSISTANT", Stored(ConvOf(r), m),
           AnswersOf(r) = {}
    PROVE  LET i == Len(messages[ConvOf(r)]) + 1 IN
           /\ AnswersOf(r)' = {i}
           /\ messages'[stream'[r].conv][i] = m
<1> DEFINE c == stream[r].conv
           i == Len(messages[c]) + 1
<1>1. stream'[r].conv = c /\ ConvOf(r) = c /\ c \in Conversations
  BY DEF Moves, ConvOf, Live
<1>2. Len(messages[c]) \in Nat /\ DOMAIN messages[c] = 1 .. Len(messages[c])
  BY <1>1, RowsRead
<1>3. i \in DOMAIN messages'[c] /\ i \notin DOMAIN messages[c]
  BY <1>1, <1>2, Added
<1>4. messages'[c][i] = m
  BY <1>1, <1>3, Added
<1> HIDE DEF i
<1>5. ASSUME NEW k \in DOMAIN messages'[c], k # i
      PROVE  k \in DOMAIN messages[c] /\ messages'[c][k] = messages[c][k]
  BY <1>1, <1>5, Added DEF i
<1>6. \A k \in DOMAIN messages[c] : ~(messages[c][k].stream = r /\ messages[c][k].role = "ASSISTANT")
  BY <1>1 DEF AnswersOf
<1>7. {k \in DOMAIN messages'[c] :
         messages'[c][k].stream = r /\ messages'[c][k].role = "ASSISTANT"} = {i}
  BY <1>3, <1>4, <1>5, <1>6
<1>8. AnswersOf(r)' = {i}
  BY <1>1, <1>7 DEF AnswersOf, ConvOf
<1> QED BY <1>1, <1>4, <1>8 DEF i

\* The verdict on a stream that has just concluded.
LEMMA Settled ==
    ASSUME Formed, Staged, NEW r \in Streams, Concludes(r), NEW status \in Outcomes,
           Settles(r, status)
    PROVE  Verdict(r, status)'
<1>1. /\ Moves(r) /\ stream'[r].conv = stream[r].conv
      /\ stream'[r].chunks = stream[r].chunks
      /\ stream[r].pc \notin Concluded /\ stream[r].pc # "idle"
  BY DEF Concludes, Moves, Concluded
<1>2. ConvOf(r) \in Conversations
  BY <1>1 DEF Formed, StreamsFormed
<1>3. AnswersOf(r) = {}
  BY <1>1, <1>2, NoneYet DEF AnswersOf
<1>4. ASSUME NEW finish \in {"STOP", "CANCELLED"}, Live(ConvOf(r)),
             Stored(ConvOf(r), Answer(r, finish))
      PROVE  StoredAs(r, finish)'
  <2> DEFINE m == Answer(r, finish)
             i == Len(messages[ConvOf(r)]) + 1
  <2>1. m \in Row /\ m.stream = r /\ m.role = "ASSISTANT"
    BY AnswerIsRow DEF Answer, Message, Formed
  <2>2. Stored(ConvOf(r), m)
    BY <1>4
  <2>3. Answer(r, finish)' = m
    BY <1>1 DEF Answer, Message
  <2> HIDE DEF m
  <2>4. AnswersOf(r)' = {i} /\ messages'[stream'[r].conv][i] = m
    BY <1>1, <1>3, <1>4, <2>1, <2>2, Last
  <2> QED BY <2>3, <2>4 DEF StoredAs, ConvOf
<1>5. UNCHANGED messages => AnswersOf(r)' = {}
  BY <1>1, <1>3 DEF AnswersOf, ConvOf
<1> QED BY <1>1, <1>4, <1>5 DEF Settles, Verdict

LEMMA BilledByStreamStep ==
    ASSUME Formed, Staged, OneOutcome, Verdicts, NEW r \in Streams, StreamStep(r)
    PROVE  OneOutcome' /\ Verdicts'
<1>1. Walks(r) \/ Asks(r) \/ Concludes(r)
  BY Kinds
<1>2. Moves(r) /\ Adds(r)
  BY <1>1, StreamAdds DEF Walks, Asks, Concludes
<1>3. UNCHANGED <<conversation, usage>> /\ mishap \subseteq mishap'
  BY <1>2 DEF Moves
<1>4. ASSUME NEW e \in bus \cup usage PROVE Verdict(e.stream, e.status)'
  <2> DEFINE q == e.stream
  <2>1. q \in Streams /\ stream[q].pc \in Concluded
    BY DEF Formed, LogsFormed, Entry, Staged, BillsTell
  <2>2. stream[q].pc # "idle"
    BY <2>1 DEF Concluded
  <2>3. q = r => Walks(r)
    BY <1>1, <2>1 DEF Asks, Concludes, Concluded
  <2>4. stream'[q].chunks = stream[q].chunks
    BY <1>2, <2>1, <2>3 DEF Walks, Moves
  <2>5. SameRows(q)
    BY <1>2, <2>1, <2>2, <2>3, RowsOfOthers DEF Walks
  <2>6. Verdict(q, e.status)
    BY DEF Verdicts
  <2> HIDE DEF q
  <2> QED BY <1>3, <2>1, <2>4, <2>5, <2>6, VerdictKept DEF q
<1>5. CASE UNCHANGED bus
  <2>1. OneOutcome'
    BY <1>3, <1>5 DEF OneOutcome
  <2> QED BY <1>3, <1>4, <1>5, <2>1 DEF Verdicts
<1>6. ASSUME NEW status \in Outcomes, Publish(r, status), Settles(r, status), Concludes(r)
      PROVE  OneOutcome' /\ Verdicts'
  <2> DEFINE new == [stream |-> r, status |-> status, conv |-> ConvOf(r)]
  <2>1. bus' = bus \cup {new} /\ new.stream = r /\ new.status = status
    BY <1>6 DEF Publish
  <2> HIDE DEF new
  <2>2. \A e \in bus \cup usage : e.stream # r
    BY <1>6 DEF Staged, BillsTell, Concludes, Concluded
  <2>3. OneOutcome'
    BY <1>3, <2>1, <2>2 DEF OneOutcome
  <2>4. Verdict(r, status)'
    BY <1>6, Settled
  <2>5. Verdicts'
    BY <1>3, <1>4, <2>1, <2>4 DEF Verdicts
  <2> QED BY <2>3, <2>5
<1> QED BY <1>1, <1>5, <1>6 DEF Walks, Asks, Concludes

\* What the steps of nobody's do to the streams that are open.
Undisturbed ==
    /\ \A v \in bus' \cup usage' : \E u \in bus \cup usage :
         v.stream = u.stream /\ v.status = u.status
    /\ \A q \in Streams : stream[q].pc # "idle" =>
         /\ stream'[q] = stream[q]
         /\ ConvOf(q) \in Conversations /\ conversation'[ConvOf(q)] = "live" =>
              SameRows(q) /\ Live(ConvOf(q))
    /\ mishap \subseteq mishap'

\* So no bill is new by them, and each agrees as it did.
LEMMA BilledByOthers ==
    ASSUME Formed, Staged, OneOutcome, Verdicts, Undisturbed
    PROVE  OneOutcome' /\ Verdicts'
<1>1. OneOutcome'
  BY DEF OneOutcome, Undisturbed
<1>2. ASSUME NEW v \in bus' \cup usage' PROVE Verdict(v.stream, v.status)'
  <2>1. PICK u \in bus \cup usage : v.stream = u.stream /\ v.status = u.status
    BY DEF Undisturbed
  <2> DEFINE q == u.stream
  <2>2. q \in Streams /\ stream[q].pc \in Concluded
    BY DEF Formed, LogsFormed, Entry, Staged, BillsTell
  <2>3. stream'[q] = stream[q] /\ stream[q].pc # "idle"
    BY <2>2 DEF Concluded, Undisturbed
  <2>4. Verdict(q, u.status)
    BY DEF Verdicts
  <2> HIDE DEF q
  <2>5. CASE ConvOf(q) \in Conversations /\ conversation'[ConvOf(q)] = "live"
    <3>1. SameRows(q) /\ conversation[stream[q].conv] = "live"
      BY <2>2, <2>3, <2>5 DEF Live, ConvOf, Undisturbed
    <3>2. Verdict(q, u.status)'
      BY <2>2, <2>3, <2>4, <3>1, VerdictKept DEF Undisturbed
    <3> QED BY <2>1, <3>2 DEF q
  <2>6. CASE ~(ConvOf(q) \in Conversations /\ conversation'[ConvOf(q)] = "live")
    <3>1. Verdict(q, u.status)'
      BY <2>3, <2>6 DEF Verdict, Live, ConvOf
    <3> QED BY <2>1, <3>1 DEF q
  <2> QED BY <2>5, <2>6
<1> QED BY <1>1, <1>2 DEF Verdicts

LEMMA OthersUndisturbed ==
    ASSUME Formed,
           \/ \E c \in Conversations : Create(c) \/ Delete(c)
           \/ \E r \in Streams : Open(r) \/ HangUp(r) \/ ListenerStep(r) \/ JobStep(r)
           \/ UNCHANGED vars
    PROVE  Undisturbed
<1>1. ASSUME NEW c \in Conversations, Create(c) PROVE Undisturbed
  <2>1. /\ conversation[c] = "none"
        /\ \A d \in Conversations \ {c} :
             messages'[d] = messages[d] /\ conversation'[d] = conversation[d]
        /\ UNCHANGED <<stream, bus, usage, mishap>>
    BY <1>1 DEF Create, Formed, RowsFormed
  <2>2. \A q \in Streams : stream[q].pc # "idle" =>
          ConvOf(q) \in Conversations \ {c}
    BY <2>1 DEF Formed, StreamsFormed
  <2> QED BY <2>1, <2>2, RowsOfAll DEF Undisturbed, Live, ConvOf
<1>2. ASSUME NEW c \in Conversations, Delete(c) PROVE Undisturbed
  <2>1. /\ conversation'[c] = "deleted"
        /\ \A d \in Conversations \ {c} :
             messages'[d] = messages[d] /\ conversation'[d] = conversation[d]
        /\ UNCHANGED <<stream, bus, mishap>>
    BY <1>2 DEF Delete, Formed, RowsFormed
  <2>2. \A v \in bus' \cup usage' : \E u \in bus \cup usage :
          v.stream = u.stream /\ v.status = u.status
    BY <1>2, <2>1, Unlinked DEF Delete, Formed
  <2> QED BY <2>1, <2>2, RowsOfAll DEF Undisturbed, Live, ConvOf
<1>3. ASSUME NEW r \in Streams, Open(r) PROVE Undisturbed
  <2>1. /\ stream[r].pc = "idle"
        /\ \A q \in Streams \ {r} : stream'[q] = stream[q]
        /\ UNCHANGED <<conversation, messages, usage, bus, mishap>>
    BY <1>3, Opening
  <2> QED BY <2>1, RowsOfAll DEF Undisturbed, Live, ConvOf
<1>4. ASSUME Aside PROVE Undisturbed
  <2>1. \A v \in bus' \cup usage' : \E u \in bus \cup usage :
          v.stream = u.stream /\ v.status = u.status
    BY <1>4 DEF Aside
  <2> QED BY <1>4, <2>1, RowsOfAll DEF Aside, Undisturbed, Live, ConvOf
<1>5. ASSUME UNCHANGED vars PROVE Aside
  BY <1>5 DEF vars, rows, Aside
<1> QED BY <1>1, <1>2, <1>3, <1>4, <1>5, Asides

LEMMA BilledStep == Formed /\ Staged /\ BilledAsStored /\ [Next]_vars => BilledAsStored'
<1> SUFFICES ASSUME Formed, Staged, BilledAsStored, [Next]_vars PROVE BilledAsStored'
  OBVIOUS
<1>1. OneOutcome /\ Verdicts
  BY BilledByStream
<1>2. ASSUME NEW r \in Streams, StreamStep(r) PROVE OneOutcome' /\ Verdicts'
  BY <1>1, <1>2, BilledByStreamStep
<1>3. ASSUME Undisturbed PROVE OneOutcome' /\ Verdicts'
  BY <1>1, <1>3, BilledByOthers
<1>4. OneOutcome' /\ Verdicts'
  BY <1>2, <1>3, OthersUndisturbed DEF Next, ServerStep
<1>5. (OneOutcome /\ Verdicts <=> BilledAsStored)'
  BY BilledByStream, PTL
<1> QED BY <1>4, <1>5

\* What a stream bills agrees with what it stored, however listeners,
\* deletions, faults and other streams interleave with it: one outcome at
\* most, SUCCESS with the answer, CANCELLED with the text that had arrived,
\* FAILED with none unless the database lost its acknowledgement.
THEOREM BillsAgreeWithAnswers == Spec => []BilledAsStored
<1>1. Init => BilledAsStored
  BY DEF Init, BilledAsStored
<1> QED BY <1>1, FormedAlways, StagedAlways, BilledStep, PTL DEF Spec

-----------------------------------------------------------------------------
LEMMA AnsweredByStreamStep ==
    ASSUME Formed, Staged, NEW r \in Streams, StreamStep(r), Answered(r)
    PROVE  Answered(r)'
<1>1. Walks(r) \/ Asks(r) \/ Concludes(r)
  BY Kinds
<1>2. Moves(r) /\ stream[r].pc # "idle" /\ ConvOf(r) \in Conversations
  BY <1>1 DEF Walks, Asks, Concludes, Moves, Formed, StreamsFormed
<1>3. CASE UNCHANGED messages
  <2>1. SameRows(r)
    BY <1>1, <1>2, <1>3, StreamAdds, RowsOfOthers
  <2> QED BY <2>1, AnsweredKept
<1>4. CASE Asks(r)
  <2>1. stream[r].pc = "question" /\ Adds(r)
    BY <1>4, StreamAdds DEF Asks
  <2>2. \A i \in DOMAIN messages[ConvOf(r)] : messages[ConvOf(r)][i].stream = r =>
          messages[ConvOf(r)][i].role # "ASSISTANT"
    BY <1>2, <2>1, NoneYet DEF Concluded
  <2>3. \A i \in DOMAIN messages'[ConvOf(r)] : messages'[ConvOf(r)][i].stream = r =>
          messages'[ConvOf(r)][i].role # "ASSISTANT"
    BY <1>2, <2>1, <2>2 DEF Adds
  <2>4. AnswersOf(r)' = {}
    BY <1>2, <2>3 DEF AnswersOf, ConvOf, Moves
  <2> QED BY <2>4 DEF Answered
<1>5. ASSUME Concludes(r), NEW finish \in {"STOP", "CANCELLED"}, Live(ConvOf(r)),
             stream[r].pc \in Asked, Stored(ConvOf(r), Answer(r, finish))
      PROVE  Answered(r)'
  <2> DEFINE m == Answer(r, finish)
             c == ConvOf(r)
             i == Len(messages[c]) + 1
  <2>1. m \in Row /\ m.stream = r /\ m.role = "ASSISTANT"
    BY AnswerIsRow DEF Answer, Message, Formed
  <2> HIDE DEF m
  <2>2. Stored(c, m)
    BY <1>5 DEF m
  <2>3. AnswersOf(r) = {}
    BY <1>2, <1>5, NoneYet DEF AnswersOf, Asked, Concluded
  <2>4. AnswersOf(r)' = {i}
    BY <1>2, <1>5, <2>1, <2>2, <2>3, Last
  <2>5. PICK q \in DOMAIN messages[c] : messages[c][q].stream = r /\ messages[c][q].role = "USER"
    BY <1>5 DEF Staged, QuestionsTell, QuestionIn
  <2>6. q \in 1 .. i
    BY <1>2, <2>5, RowsRead
  <2>7. messages'[c][q] = messages[c][q]
    BY <1>2, <1>5, <2>1, <2>2, <2>5, Added
  <2>8. stream'[r].conv = c
    BY <1>2 DEF Moves, ConvOf
  <2> HIDE DEF c, i
  <2> QED BY <2>4, <2>5, <2>6, <2>7, <2>8 DEF Answered, ConvOf
<1>6. stream[r].pc \in {"model", "answer", "partial"} => stream[r].pc \in Asked
  BY DEF Asked
<1> QED BY <1>1, <1>3, <1>4, <1>5, <1>6 DEF Walks, Concludes

LEMMA AnsweredStep ==
    Formed /\ Staged /\ AnswersFollowQuestions /\ [Next]_vars => AnswersFollowQuestions'
<1> SUFFICES ASSUME Formed, Staged, AnswersFollowQuestions, [Next]_vars,
                    NEW q \in Streams, stream'[q].pc # "idle"
             PROVE  Answered(q)'
  BY DEF AnswersFollowQuestions, Answered
<1>1. stream[q].pc # "idle" => Answered(q)
  BY DEF AnswersFollowQuestions, Answered
<1>2. ASSUME NEW r \in Streams, StreamStep(r) PROVE Answered(q)'
  <2>1. (Walks(r) \/ Asks(r) \/ Concludes(r)) /\ Moves(r) /\ Adds(r)
    BY <1>2, Kinds, StreamAdds DEF Walks, Asks, Concludes
  <2>2. stream[q].pc # "idle"
    BY <2>1 DEF Moves
  <2>3. CASE q = r
    BY <1>1, <1>2, <2>2, <2>3, AnsweredByStreamStep
  <2>4. CASE q # r
    <3>1. SameRows(q)
      BY <2>1, <2>2, <2>4, RowsOfOthers
    <3> QED BY <1>1, <2>2, <3>1, AnsweredKept
  <2> QED BY <2>3, <2>4
<1>3. ASSUME stream[q].pc # "idle", Undisturbed PROVE Answered(q)'
  <2>1. ConvOf(q) \in Conversations /\ stream'[q] = stream[q]
    BY <1>3 DEF Formed, StreamsFormed, Undisturbed
  <2>2. CASE conversation'[ConvOf(q)] = "live"
    <3>1. SameRows(q)
      BY <1>3, <2>1, <2>2 DEF Undisturbed
    <3> QED BY <1>1, <1>3, <3>1, AnsweredKept
  <2>3. CASE conversation'[ConvOf(q)] # "live"
    <3>1. RowsFormed'
      BY FormedStep DEF Formed
    <3>2. messages'[stream'[q].conv] = <<>>
      BY <2>1, <2>3, <3>1 DEF RowsFormed, ConvOf
    <3>3. AnswersOf(q)' = {}
      BY <3>2 DEF AnswersOf, ConvOf
    <3> QED BY <3>3 DEF Answered
  <2> QED BY <2>2, <2>3
<1>4. CASE stream[q].pc = "idle" /\ ~(\E r \in Streams : StreamStep(r))
  <2>1. PICK r \in Streams : Open(r)
    <3>1. ~UNCHANGED stream
      BY <1>4
    <3> QED BY <1>4, <3>1, Asides DEF Next, ServerStep, Create, Delete, Aside, vars, rows
  <2>2. UNCHANGED messages
    BY <2>1, Opening
  <2>3. \A c \in Conversations : \A i \in DOMAIN messages[c] : messages[c][i].stream # q
    BY <1>4, NoStreamAssumption DEF Staged, RowsTell, Unasked
  <2>4. stream'[q].conv \in Conversations
    BY <2>1, FormedByOpen DEF Formed, StreamsFormed, ConvOf
  <2>5. AnswersOf(q)' = {}
    BY <2>2, <2>3, <2>4 DEF AnswersOf, ConvOf
  <2> QED BY <2>5 DEF Answered
<1> QED BY <1>2, <1>3, <1>4, OthersUndisturbed DEF Next, ServerStep

\* A question is answered at most once, and after it was asked.
THEOREM OneAnswerPerQuestion == Spec => []AnswersFollowQuestions
<1>1. Init => AnswersFollowQuestions
  BY DEF Init, AnswersFollowQuestions, Idle
<1> QED BY <1>1, FormedAlways, StagedAlways, AnsweredStep, PTL DEF Spec

-----------------------------------------------------------------------------
\* InContext is inductive, on top of Formed and Staged.

LEMMA PrefixKept ==
    ASSUME NEW ms \in Seq(Row), NEW longer \in Seq(Row), NEW to \in Nat, to <= Len(ms),
           \A i \in DOMAIN ms : i \in DOMAIN longer /\ longer[i] = ms[i]
    PROVE  SubSeq(longer, 1, to) = SubSeq(ms, 1, to)
<1>1. Len(ms) \in Nat /\ DOMAIN ms = 1 .. Len(ms)
  OBVIOUS
<1>2. \A i \in 1 .. to : ms[i] \in Row /\ longer[i] \in Row /\ longer[i] = ms[i]
  BY <1>1
<1>3. /\ SubSeq(ms, 1, to) \in Seq(Row) /\ SubSeq(longer, 1, to) \in Seq(Row)
      /\ Len(SubSeq(ms, 1, to)) = to /\ Len(SubSeq(longer, 1, to)) = to
  BY <1>2, SubSeqProperties
<1>4. ASSUME NEW i \in 1 .. to PROVE SubSeq(longer, 1, to)[i] = SubSeq(ms, 1, to)[i]
  <2>1. SubSeq(ms, 1, to)[i] = ms[1 + i - 1] /\ SubSeq(longer, 1, to)[i] = longer[1 + i - 1]
    BY <1>2, SubSeqProperties
  <2>2. 1 + i - 1 = i
    OBVIOUS
  <2> QED BY <1>2, <2>1, <2>2
<1> QED BY <1>3, <1>4, SeqEqual

LEMMA ContextKept ==
    ASSUME Formed, Formed', NEW r \in Streams, Live(ConvOf(r)), WholeContext(r),
           stream'[r].conv = stream[r].conv, stream'[r].context = stream[r].context,
           LET c == ConvOf(r) IN
             /\ \A i \in DOMAIN messages[c] :
                  i \in DOMAIN messages'[c] /\ messages'[c][i] = messages[c][i]
             /\ summaries[c] \subseteq summaries'[c]
    PROVE  WholeContext(r)'
<1> DEFINE c == stream[r].conv
           x == stream[r].context
           read == SubSeq(messages[c], 1, x.to)
<1>1. ConvOf(r) = c /\ c \in Conversations
  BY DEF ConvOf, Live
<1>2. messages[c] \in Seq(Row) /\ messages'[c] \in Seq(Row)
  BY <1>1 DEF Formed, RowsFormed
<1>3. x.to \in Nat /\ x.to <= Len(messages[c]) /\ x \in ContextRow /\ Whole(r, x, read, summaries[c])
  BY <1>1 DEF WholeContext, ContextRow
<1>4. SubSeq(messages'[c], 1, x.to) = read
  BY <1>1, <1>2, <1>3, PrefixKept
<1>5. x.to <= Len(messages'[c])
  <2>1. DOMAIN messages[c] = 1 .. Len(messages[c]) /\ DOMAIN messages'[c] = 1 .. Len(messages'[c])
        /\ Len(messages[c]) \in Nat /\ Len(messages'[c]) \in Nat
    BY <1>2
  <2>2. CASE x.to = 0
    BY <2>1, <2>2
  <2>3. CASE x.to # 0
    <3>1. x.to \in DOMAIN messages[c]
      BY <1>3, <2>1, <2>3
    <3> QED BY <1>1, <2>1, <3>1
  <2> QED BY <2>2, <2>3
<1>6. summaries[c] \subseteq summaries'[c]
  BY <1>1
<1> HIDE DEF c, x, read
<1>7. Whole(r, x, read, summaries'[c])
  BY <1>3, <1>6 DEF Whole
<1>8. stream'[r].conv = c /\ stream'[r].context = x
  BY DEF c, x
<1> QED BY <1>3, <1>4, <1>5, <1>7, <1>8 DEF WholeContext, ConvOf

\* A context that was just built.
LEMMA ContextBuilt ==
    ASSUME Formed, Staged, NEW r \in Streams, Live(ConvOf(r)), stream[r].pc = "context",
           stream'[r].conv = stream[r].conv,
           LET c == ConvOf(r) IN
             /\ stream'[r].context =
                  Context(Strategy[c], messages[c], summaries[c], HistoryTokens(Window))
             /\ messages'[c] = messages[c] /\ summaries'[c] = summaries[c]
    PROVE  WholeContext(r)'
<1> DEFINE c == ConvOf(r)
           ms == messages[c]
           S == summaries[c]
           x == Context(Strategy[c], ms, S, HistoryTokens(Window))
<1>1. c \in Conversations
  BY DEF Live
<1>2. ms \in Seq(Row) /\ S \in SUBSET SummaryRow
  BY <1>1 DEF Formed, RowsFormed
<1>3. PICK n \in Nat : Chain(S, n, Len(ms))
  BY <1>1 DEF Formed, Chained
<1>4. /\ x \in ContextRow
      /\ x.to = Len(ms)
      /\ x.summary.last < x.from
      /\ \A i \in 1 .. x.from - 1 :
           \/ \E s \in S : s.first <= i /\ i <= s.last
           \/ ~Fits(ms, i, HistoryTokens(Window))
  BY <1>2, <1>3, ContextFacts
<1>5. SubSeq(ms, 1, Len(ms)) = ms
  BY <1>2, SubSeqFull
<1>6. QuestionIn(ms, r)
  BY DEF Staged, QuestionsTell, Asked
<1>7. Len(ms) \in Nat
  BY <1>2
<1>8. stream'[r].conv = c /\ stream'[r].context = x /\ messages'[c] = ms /\ summaries'[c] = S
  BY DEF ConvOf
<1> HIDE DEF c, ms, S, x
<1>9. Whole(r, x, ms, S)
  BY <1>4, <1>6 DEF Whole, QuestionIn
<1>10. x.to <= Len(ms)
  BY <1>4, <1>7
<1> QED BY <1>4, <1>5, <1>8, <1>9, <1>10 DEF WholeContext, ConvOf

LEMMA InContextStep == Formed /\ Staged /\ InContext /\ [Next]_vars => InContext'
<1> SUFFICES ASSUME Formed, Staged, InContext, [Next]_vars,
                    NEW q \in Streams, stream'[q].pc \in {"model", "token"},
                    Live(ConvOf(q))'
             PROVE  WholeContext(q)'
  BY DEF InContext
<1> DEFINE c == stream[q].conv
<1>1. Formed'
  BY FormedStep
<1>2. stream[q].pc \in {"model", "token"} /\ Live(ConvOf(q)) => WholeContext(q)
  BY DEF InContext
<1>3. ASSUME NEW r \in Streams, StreamStep(r) PROVE WholeContext(q)'
  <2>1. (Walks(r) \/ Asks(r) \/ Concludes(r)) /\ Moves(r) /\ Adds(r)
    BY <1>3, Kinds, StreamAdds DEF Walks, Asks, Concludes
  <2>2. stream'[q].conv = c /\ ConvOf(q) = c
    BY <2>1 DEF Moves, ConvOf
  <2>3. Live(ConvOf(q)) /\ c \in Conversations
    BY <2>1, <2>2 DEF Live, ConvOf, Moves
  <2>4. /\ \A i \in DOMAIN messages[c] :
             i \in DOMAIN messages'[c] /\ messages'[c][i] = messages[c][i]
        /\ summaries'[c] = summaries[c]
    BY <2>1, <2>3 DEF Adds, Moves
  <2>5. CASE stream[q].pc \in {"model", "token"} /\ stream'[q].context = stream[q].context
    BY <1>1, <1>2, <2>2, <2>3, <2>4, <2>5, ContextKept
  <2>6. CASE q # r
    <3>1. stream'[q] = stream[q]
      BY <2>1, <2>6 DEF Moves
    <3> QED BY <2>5, <3>1
  <2>7. CASE q = r
    <3>1. Walks(r)
      BY <2>1, <2>7 DEF Asks, Concludes, Concluded
    <3>2. CASE /\ stream[q].pc = "context"
               /\ stream'[q].context =
                    Context(Strategy[c], messages[c], summaries[c], HistoryTokens(Window))
      BY <2>2, <2>3, <2>4, <2>7, <3>1, <3>2, ContextBuilt DEF Walks
    <3> QED BY <2>2, <2>5, <2>7, <3>1, <3>2 DEF Walks
  <2> QED BY <2>6, <2>7
<1>4. ASSUME stream'[q] = stream[q], messages'[c] = messages[c],
             conversation'[c] = conversation[c], summaries[c] \subseteq summaries'[c]
      PROVE  WholeContext(q)'
  <2>1. Live(ConvOf(q)) /\ ConvOf(q) = c
    BY <1>4 DEF Live, ConvOf
  <2> QED BY <1>1, <1>2, <1>4, <2>1, ContextKept
<1>5. ASSUME NEW d \in Conversations, Create(d) \/ Delete(d) PROVE WholeContext(q)'
  <2>1. /\ stream'[q] = stream[q]
        /\ \A b \in Conversations \ {d} :
             /\ conversation'[b] = conversation[b]
             /\ messages'[b] = messages[b]
             /\ summaries'[b] = summaries[b]
    BY <1>5 DEF Create, Delete, Formed, RowsFormed
  <2>2. c \in Conversations /\ conversation'[c] = "live" /\ conversation[c] # "none"
    BY <2>1 DEF Live, ConvOf, Formed, StreamsFormed
  <2>3. c # d
    BY <1>5, <2>2 DEF Create, Delete, Formed, RowsFormed
  <2> QED BY <1>4, <2>1, <2>2, <2>3
<1>6. ASSUME NEW r \in Streams, Open(r) PROVE WholeContext(q)'
  <2>1. /\ stream'[r].pc = "start"
        /\ \A p \in Streams \ {r} : stream'[p] = stream[p]
        /\ UNCHANGED <<conversation, messages, summaries>>
    BY <1>6, Opening
  <2> QED BY <1>4, <2>1
<1>7. ASSUME NEW r \in Streams, HangUp(r) \/ ListenerStep(r) \/ JobStep(r)
      PROVE  WholeContext(q)'
  <2>1. UNCHANGED <<conversation, messages, stream>>
    BY <1>7, Asides DEF Aside
  <2>2. c \in Conversations
    BY <2>1 DEF Live, ConvOf
  <2>3. CASE UNCHANGED summaries
    BY <1>4, <2>1, <2>3
  <2>4. CASE StoreSummary(r)
    <3>1. summaries[c] \subseteq summaries'[c]
      BY <2>2, <2>4 DEF StoreSummary, Formed, RowsFormed
    <3> QED BY <1>4, <2>1, <3>1
  <2> QED BY <1>7, <2>3, <2>4, Listening DEF HangUp, JobStep, Trigger, LoseSummary, rows
<1>8. CASE UNCHANGED vars
  BY <1>4, <1>8 DEF vars, rows
<1> QED BY <1>3, <1>5, <1>6, <1>7, <1>8 DEF Next, ServerStep

\* What a model is given has no hole: a message before the history has been
\* summarised, or did not fit; none is in both; and the question is there.
THEOREM ContextsAreWhole == Spec => []ContextHasNoHole
<1>1. Init => InContext
  BY DEF Init, InContext, Idle
<1>2. InContext => ContextHasNoHole
  BY DEF InContext, WholeContext, Whole, ContextHasNoHole
<1> QED BY <1>1, <1>2, FormedAlways, StagedAlways, InContextStep, PTL DEF Spec

-----------------------------------------------------------------------------
\* A usage row is kept whatever happens to its conversation: it loses nothing
\* but the reference.
THEOREM CostsOutliveConversations == Spec => UsageIsKept
<1> DEFINE Kept == \A u \in usage : \E v \in usage' : v.stream = u.stream /\ v.status = u.status
<1>1. ASSUME Formed, [Next]_vars PROVE Kept
  <2>1. ASSUME NEW c \in Conversations, Delete(c) PROVE Kept
    BY <1>1, <2>1, Unlinked DEF Delete, Formed
  <2>2. ASSUME NEW r \in Streams, ListenerStep(r) PROVE usage \subseteq usage'
    BY <1>1, <2>2, Listening
  <2>3. ASSUME NEW r \in Streams, StreamStep(r) PROVE UNCHANGED usage
    BY <1>1, <2>3, Kinds DEF Walks, Asks, Concludes, Moves
  <2>4. ASSUME NEW r \in Streams, Open(r) \/ HangUp(r) \/ JobStep(r) PROVE UNCHANGED usage
    BY <2>4 DEF Open, HangUp, JobStep, Trigger, StoreSummary, LoseSummary, rows
  <2>5. ASSUME NEW c \in Conversations, Create(c) PROVE UNCHANGED usage
    BY <2>5 DEF Create
  <2>6. usage \subseteq usage' => Kept
    OBVIOUS
  <2>7. CASE UNCHANGED vars
    BY <2>6, <2>7 DEF vars, rows
  <2> HIDE DEF Kept
  <2> QED BY <1>1, <2>1, <2>2, <2>3, <2>4, <2>5, <2>6, <2>7 DEF Next, ServerStep
<1>2. Formed /\ [Next]_vars => [Kept]_vars
  BY <1>1
<1> HIDE DEF Kept
<1>3. Spec => [][Kept]_vars
  BY <1>2, FormedAlways, PTL DEF Spec
<1> QED BY <1>3 DEF Kept, UsageIsKept

-----------------------------------------------------------------------------
(* Chat implements Dialogue.                                               *)

\* What is said in the messages ms.
Said(ms) == [i \in DOMAIN ms |-> [of |-> ms[i].stream, says |-> Says(ms[i])]]
Words == [of : Streams \cup {NoStream},
          says : {"question", "preamble", "answer", "cut"}]

LEMMA SaidFacts ==
    ASSUME NEW ms \in Seq(Row), NEW m \in Row
    PROVE  Said(Append(ms, m)) = Append(Said(ms), [of |-> m.stream, says |-> Says(m)])
<1> DEFINE more == Append(ms, m)
           n == Len(ms)
           w(x) == [of |-> x.stream, says |-> Says(x)]
           longer == Said(more)
           extended == Append(Said(ms), w(m))
<1>1. /\ more \in Seq(Row) /\ Len(more) = n + 1 /\ n \in Nat
      /\ \A i \in 1 .. n : more[i] = ms[i]
      /\ more[n + 1] = m
      /\ DOMAIN more = 1 .. n + 1 /\ DOMAIN ms = 1 .. n
  OBVIOUS
<1>2. \A x \in Row : w(x) \in Words
  BY DEF Says, Row, Words
<1>3. Said(ms) = [i \in 1 .. n |-> w(ms[i])] /\ longer = [i \in 1 .. n + 1 |-> w(more[i])]
  BY <1>1 DEF Said
<1>4. \A i \in 1 .. n : ms[i] \in Row
  BY ElementOfSeq
<1> HIDE DEF w, more, n
<1>5. Said(ms) \in [1 .. n -> Words]
  BY <1>2, <1>3, <1>4
<1>6. Said(ms) \in Seq(Words) /\ Len(Said(ms)) = n
  BY <1>1, <1>5
<1>7. w(m) \in Words
  BY <1>2
<1>8. /\ extended \in Seq(Words) /\ Len(extended) = n + 1
      /\ \A i \in 1 .. n : extended[i] = Said(ms)[i]
      /\ extended[n + 1] = w(m)
  BY <1>6, <1>7, AppendProperties
<1>9. longer \in [1 .. n + 1 -> Words]
  <2>1. \A i \in 1 .. n + 1 : more[i] \in Row
    BY <1>1, ElementOfSeq
  <2> QED BY <1>2, <1>3, <2>1
<1>10. longer \in Seq(Words) /\ Len(longer) = n + 1
  BY <1>1, <1>9
<1> HIDE DEF longer, extended
<1>11. ASSUME NEW i \in 1 .. n + 1 PROVE longer[i] = extended[i]
  <2>1. CASE i \in 1 .. n
    BY <1>1, <1>3, <1>8, <2>1
  <2>2. CASE i = n + 1
    BY <1>1, <1>3, <1>8, <2>2
  <2> QED BY <1>1, <2>1, <2>2
<1>12. longer = extended
  BY <1>8, <1>10, <1>11, SeqEqual
<1> QED BY <1>12 DEF longer, extended, w, more

LEMMA SaidAtFirst ==
    /\ Said(<<>>) = <<>>
    /\ \A m \in Row : Said(<<m>>) = <<[of |-> m.stream, says |-> Says(m)]>>
<1>1. Said(<<>>) = <<>>
  BY DEF Said
<1>2. ASSUME NEW m \in Row PROVE Said(<<m>>) = <<[of |-> m.stream, says |-> Says(m)]>>
  <2>1. <<>> \in Seq(Row) /\ Append(<<>>, m) = <<m>>
    OBVIOUS
  <2>2. Said(Append(<<>>, m)) = Append(Said(<<>>), [of |-> m.stream, says |-> Says(m)])
    BY <2>1, SaidFacts
  <2> DEFINE w == [of |-> m.stream, says |-> Says(m)]
  <2>3. Append(<<>>, w) = <<w>>
    OBVIOUS
  <2> QED BY <1>1, <2>1, <2>2, <2>3
<1> QED BY <1>1, <1>2

LEMMA ThreadIsSaid ==
    /\ Thread = [c \in Conversations |-> Said(messages[c])]
    /\ Thread' = [c \in Conversations |-> Said(messages'[c])]
BY DEF Thread, Said, Says

\* A stored message is a saying in the stream's conversation.
LEMMA Speaking ==
    ASSUME RowsFormed, NEW c \in Conversations, NEW m \in Row, Stored(c, m)
    PROVE  Thread' = [Thread EXCEPT ![c] =
                        Append(@, [of |-> m.stream, says |-> Says(m)])]
<1>1. messages[c] \in Seq(Row)
  BY DEF RowsFormed
<1>2. /\ messages'[c] = Append(messages[c], m)
      /\ \A d \in Conversations \ {c} : messages'[d] = messages[d]
  BY Storing
<1>3. Said(messages'[c]) = Append(Said(messages[c]), [of |-> m.stream, says |-> Says(m)])
  BY <1>1, <1>2, SaidFacts
<1> QED BY <1>2, <1>3, ThreadIsSaid

\* Where a stream is in the dialogue.
PhaseOf(pc) ==
    IF pc \in Unasked THEN "silent"
    ELSE IF pc \in Concluded THEN "settled" ELSE "asked"

LEMMA PhaseIs ==
    /\ Phase = [r \in Streams |-> PhaseOf(stream[r].pc)]
    /\ Phase' = [r \in Streams |-> PhaseOf(stream'[r].pc)]
BY DEF Phase, PhaseOf, Unasked, Concluded

LEMMA Phasing ==
    ASSUME NEW r \in Streams, Moves(r)
    PROVE  /\ Place' = Place /\ Place[r] = ConvOf(r)
           /\ Phase' = [Phase EXCEPT ![r] = PhaseOf(stream'[r].pc)]
           /\ Phase[r] = PhaseOf(stream[r].pc)
           /\ PhaseOf(stream'[r].pc) = PhaseOf(stream[r].pc) => Phase' = Phase
<1>1. /\ \A q \in Streams \ {r} : stream'[q] = stream[q]
      /\ stream'[r].conv = stream[r].conv
  BY DEF Moves
<1>2. \A q \in Streams : stream'[q].conv = stream[q].conv
  BY <1>1
<1>3. Place' = Place /\ Place[r] = ConvOf(r)
  BY <1>2 DEF Place, ConvOf
<1>4. \A q \in Streams \ {r} : PhaseOf(stream'[q].pc) = PhaseOf(stream[q].pc)
  BY <1>1
<1> QED BY <1>3, <1>4, PhaseIs

\* A step that changes nothing the dialogue tells of.
LEMMA Unheard ==
    ASSUME NEW r \in Streams, Moves(r),
           PhaseOf(stream'[r].pc) = PhaseOf(stream[r].pc), UNCHANGED <<messages, bus, mishap>>
    PROVE  UNCHANGED Abstract!vars
<1>1. Thread' = Thread
  BY ThreadIsSaid
<1>2. UNCHANGED <<conversation, usage>>
  BY DEF Moves
<1> QED BY <1>1, <1>2, Phasing DEF Abstract!vars

\* A stream that has asked comes to its end.
LEMMA Settling ==
    ASSUME Formed, Staged, NEW r \in Streams, Moves(r),
           stream[r].pc \in Asked, stream'[r].pc \in Concluded
    PROVE  /\ Abstract!Settles(r)
           /\ Place[r] = ConvOf(r)
           /\ Abstract!Live(Place[r]) <=> Live(ConvOf(r))
           /\ \A outcome : Publish(r, outcome) => Abstract!Bill(r, outcome)
           /\ \A finish \in {"STOP", "CANCELLED"} :
                Live(ConvOf(r)) /\ Stored(ConvOf(r), Answer(r, finish))
                    => Abstract!Says(r, IF finish = "STOP" THEN "answer" ELSE "cut")
<1> DEFINE c == ConvOf(r)
<1>1. Phase' = [Phase EXCEPT ![r] = "settled"] /\ Phase[r] = "asked" /\ Place' = Place
      /\ Place[r] = c
  BY Phasing DEF PhaseOf, Asked, Unasked, Concluded
<1>2. Abstract!Live(Place[r]) <=> Live(c)
  BY <1>1 DEF Abstract!Live, Live
<1>3. ASSUME Live(c) PROVE Abstract!HasAsked(r)
  <2>1. PICK q \in DOMAIN messages[c] : messages[c][q].stream = r /\ messages[c][q].role = "USER"
    BY <1>3 DEF Staged, QuestionsTell, QuestionIn
  <2>2. c \in Conversations
    BY <1>3 DEF Live
  <2>3. Thread[c] = Said(messages[c])
    BY <2>2, ThreadIsSaid
  <2>4. q \in DOMAIN Thread[c] /\ Thread[c][q] = [of |-> r, says |-> "question"]
    <3> DEFINE ms == messages[c]
    <3>1. q \in DOMAIN ms /\ ms[q].stream = r /\ ms[q].role = "USER"
      BY <2>1
    <3> HIDE DEF ms
    <3>3. Says(ms[q]) = "question"
      BY <3>1 DEF Says
    <3>2. q \in DOMAIN Said(ms) /\ Said(ms)[q] = [of |-> r, says |-> "question"]
      BY <3>1, <3>3 DEF Said
    <3> QED BY <2>3, <3>2 DEF ms
  <2> QED BY <1>1, <2>4 DEF Abstract!HasAsked
<1>4. Abstract!Settles(r)
  BY <1>1, <1>2, <1>3 DEF Abstract!Settles, Moves
<1>5. ASSUME NEW outcome, Publish(r, outcome) PROVE Abstract!Bill(r, outcome)
  BY <1>1, <1>5 DEF Publish, Abstract!Bill
<1>6. ASSUME NEW finish \in {"STOP", "CANCELLED"}, Live(c), Stored(c, Answer(r, finish))
      PROVE  Abstract!Says(r, IF finish = "STOP" THEN "answer" ELSE "cut")
  <2> DEFINE m == Answer(r, finish)
  <2>1. m \in Row /\ c \in Conversations /\ RowsFormed
    BY <1>6, AnswerIsRow DEF Formed, Live
  <2>2. m.stream = r /\ Says(m) = IF finish = "STOP" THEN "answer" ELSE "cut"
    BY <1>6 DEF Answer, Message, Says
  <2> HIDE DEF m
  <2>3. Stored(c, m)
    BY <1>6 DEF m
  <2>4. Thread' = [Thread EXCEPT ![c] = Append(@, [of |-> m.stream, says |-> Says(m)])]
    BY <2>1, <2>3, Speaking
  <2> QED BY <1>1, <2>2, <2>4 DEF Abstract!Says
<1> QED BY <1>1, <1>2, <1>4, <1>5, <1>6

\* What a stream does is one act of its exchange, or goes unheard.
LEMMA StreamInDialogue ==
    ASSUME Formed, Staged, NEW r \in Streams, StreamStep(r)
    PROVE  [Abstract!Next]_(Abstract!vars)
<1>1. Walks(r) \/ Asks(r) \/ Concludes(r)
  BY Kinds
<1>2. Moves(r) /\ stream \in [Streams -> StreamRow]
  BY <1>1 DEF Walks, Asks, Concludes, Formed, StreamsFormed
<1> DEFINE c == ConvOf(r)
<1>3. /\ Place' = Place /\ Place[r] = c /\ Phase[r] = PhaseOf(stream[r].pc)
      /\ Phase' = [Phase EXCEPT ![r] = PhaseOf(stream'[r].pc)]
      /\ UNCHANGED <<conversation, usage>>
  BY <1>2, Phasing DEF Moves
<1>4. ASSUME NEW pc \in Pcs, GoTo(r, pc) PROVE stream'[r].pc = pc
  BY <1>2, <1>4, Going
<1>5. ASSUME NEW pc \in Pcs, LeaveModel(r, pc) PROVE stream'[r].pc = pc
  BY <1>2, <1>5, Leaving
<1> USE DEF Pcs, Unasked, Asked, Concluded
\* Between its acts
<1>6. ASSUME UNCHANGED <<messages, bus, mishap>>,
             PhaseOf(stream'[r].pc) = PhaseOf(stream[r].pc)
      PROVE  UNCHANGED Abstract!vars
  BY <1>2, <1>6, Unheard
<1>7. CASE Deliver(r)
  <2>1. PICK pc \in {"question", "model", "answer"} :
          /\ GoTo(r, pc)
          /\ \/ stream[r].pc = "start" /\ pc = "question"
             \/ stream[r].pc = "token" /\ pc = "model"
             \/ stream[r].pc = "usage" /\ pc = "answer"
    BY <1>7 DEF Deliver, Resumed
  <2>2. PhaseOf(stream'[r].pc) = PhaseOf(stream[r].pc)
    BY <1>4, <2>1 DEF PhaseOf
  <2> QED BY <1>6, <1>7, <2>2 DEF Deliver, rows
<1>8. CASE DeliverLast(r)
  <2>1. PhaseOf(stream'[r].pc) = PhaseOf(stream[r].pc)
    BY <1>4, <1>8 DEF DeliverLast, PhaseOf
  <2> QED BY <1>6, <1>8, <2>1 DEF DeliverLast, rows
<1>9. CASE BuildContext(r)
  <2>1. stream'[r].pc = "model"
    BY <1>2, <1>9 DEF BuildContext, StreamRow
  <2>2. PhaseOf(stream'[r].pc) = PhaseOf(stream[r].pc)
    BY <1>9, <2>1 DEF BuildContext, PhaseOf
  <2> QED BY <1>6, <1>9, <2>2 DEF BuildContext, rows
<1>10. CASE Chunk(r)
  <2>1. stream'[r].pc = "token"
    BY <1>2, <1>10 DEF Chunk, StreamRow
  <2>2. PhaseOf(stream'[r].pc) = PhaseOf(stream[r].pc)
    BY <1>10, <2>1 DEF Chunk, PhaseOf
  <2> QED BY <1>6, <1>10, <2>2 DEF Chunk, rows
<1>11. CASE FinishAnswer(r)
  <2>1. PhaseOf(stream'[r].pc) = PhaseOf(stream[r].pc)
    BY <1>4, <1>11 DEF FinishAnswer, PhaseOf
  <2> QED BY <1>6, <1>11, <2>1 DEF FinishAnswer, rows
\* It breaks off
<1>12. ASSUME PhaseOf(stream[r].pc) # "settled", PhaseOf(stream'[r].pc) = "settled",
              UNCHANGED <<messages, bus>>, UNCHANGED mishap \/ Fault(r)
       PROVE  Abstract!BreakOff(r)
  <2>1. Thread' = Thread
    BY <1>12, ThreadIsSaid
  <2>2. Place[r] # Abstract!Nowhere
    BY <1>2, <1>3, NoConversationAssumption
       DEF Moves, Formed, StreamsFormed, Abstract!Nowhere, NoConversation
  <2> QED BY <1>3, <1>12, <2>1, <2>2 DEF Abstract!BreakOff, Abstract!Unlucky, Fault
<1>14. CASE FailEarly(r)
  <2>1. PhaseOf(stream'[r].pc) = "settled" /\ PhaseOf(stream[r].pc) # "settled"
    BY <1>4, <1>14 DEF FailEarly, PhaseOf
  <2>2. Abstract!BreakOff(r)
    BY <1>12, <1>14, <2>1 DEF FailEarly, rows
  <2> QED BY <2>2 DEF Abstract!Next
\* It asks
<1>15. CASE StoreQuestion(r)
  <2>1. PICK chars \in Questions : Stored(c, Message(r, "USER", "none", chars))
    BY <1>15 DEF StoreQuestion
  <2> DEFINE m == Message(r, "USER", "none", chars)
  <2>2. m \in Row /\ m.stream = r /\ Says(m) = "question"
    BY QuestionIsRow DEF Message, Says
  <2>3. RowsFormed /\ Live(c) /\ c \in Conversations
    BY <1>15 DEF Formed, StoreQuestion, Live
  <2>4. Stored(c, m)
    BY <2>1
  <2> HIDE DEF m
  <2>5. Thread' = [Thread EXCEPT ![c] = Append(@, [of |-> r, says |-> "question"])]
    BY <2>2, <2>3, <2>4, Speaking
  <2>6. Phase[r] = "silent" /\ Phase' = [Phase EXCEPT ![r] = "asked"]
    BY <1>3, <1>4, <1>15 DEF StoreQuestion, PhaseOf
  <2>7. Abstract!Ask(r)
    BY <1>3, <1>15, <2>3, <2>5, <2>6
       DEF Abstract!Ask, Abstract!Live, Abstract!Says, Live, StoreQuestion
  <2> QED BY <2>7 DEF Abstract!Next
\* It is settled
<1>16. ASSUME stream[r].pc \in Asked, stream'[r].pc \in Concluded
       PROVE  /\ Abstract!Settles(r)
              /\ Abstract!Live(Place[r]) <=> Live(c)
              /\ \A outcome : Publish(r, outcome) => Abstract!Bill(r, outcome)
              /\ Live(c) /\ Stored(c, Answer(r, "STOP")) => Abstract!Says(r, "answer")
              /\ Live(c) /\ Stored(c, Answer(r, "CANCELLED")) => Abstract!Says(r, "cut")
  BY <1>2, <1>16, Settling
<1>17. UNCHANGED messages => UNCHANGED Thread
  BY ThreadIsSaid
<1>18. CASE ProviderFails(r)
  <2>1. stream[r].pc \in Asked /\ stream'[r].pc \in Concluded
    BY <1>5, <1>18 DEF ProviderFails
  <2>2. Abstract!Fail(r)
    BY <1>16, <1>17, <1>18, <2>1 DEF ProviderFails, rows, Abstract!Fail
  <2> QED BY <2>2 DEF Abstract!Next
<1>19. CASE ProviderAborts(r)
  <2>1. CASE LeaveModel(r, "partial") /\ UNCHANGED bus
    <3>1. PhaseOf(stream'[r].pc) = PhaseOf(stream[r].pc)
      BY <1>5, <1>19, <2>1 DEF ProviderAborts, PhaseOf
    <3> QED BY <1>6, <1>19, <2>1, <3>1 DEF ProviderAborts, rows
  <2>2. CASE Publish(r, "CANCELLED") /\ LeaveModel(r, "error")
    <3>1. stream[r].pc \in Asked /\ stream'[r].pc \in Concluded
      BY <1>5, <1>19, <2>2 DEF ProviderAborts
    <3>2. Abstract!CutShort(r)
      BY <1>16, <1>17, <1>19, <2>2, <3>1 DEF ProviderAborts, rows, Abstract!CutShort
    <3> QED BY <3>2 DEF Abstract!Next
  <2> QED BY <1>19, <2>1, <2>2 DEF ProviderAborts
<1>20. CASE StoreAnswer(r)
  <2>1. stream[r].pc \in Asked /\ stream'[r].pc \in Concluded
    BY <1>4, <1>20 DEF StoreAnswer
  <2>2. Abstract!Answer(r)
    BY <1>16, <1>20, <2>1 DEF StoreAnswer, Abstract!Answer
  <2> QED BY <2>2 DEF Abstract!Next
<1>21. CASE StorePartial(r)
  <2>1. stream[r].pc \in Asked /\ stream'[r].pc \in Concluded
    BY <1>4, <1>21 DEF StorePartial
  <2>2. Abstract!CutShort(r)
    BY <1>16, <1>21, <2>1 DEF StorePartial, Abstract!CutShort
  <2> QED BY <2>2 DEF Abstract!Next
<1>22. CASE FailAnswer(r)
  <2>1. GoTo(r, "error") /\ Publish(r, "FAILED") /\ stream[r].pc = "answer"
    BY <1>22 DEF FailAnswer, OutcomeOfLostAnswer, AfterLostAnswer
  <2>2. stream[r].pc \in Asked /\ stream'[r].pc \in Concluded
    BY <1>4, <2>1
  <2>3. CASE UNCHANGED <<messages, mishap>>
    <3>1. Abstract!Fail(r)
      BY <1>16, <1>17, <2>1, <2>2, <2>3 DEF Abstract!Fail
    <3> QED BY <3>1 DEF Abstract!Next
  <2>4. CASE Fault(r) /\ (UNCHANGED messages \/ (Live(c) /\ Stored(c, Answer(r, "STOP"))))
    <3>1. Abstract!GoWrong(r)
      BY <1>16, <1>17, <2>1, <2>2, <2>4 DEF Fault, Abstract!GoWrong, Abstract!Unlucky
    <3> QED BY <3>1 DEF Abstract!Next
  <2> QED BY <1>22, <2>3, <2>4 DEF FailAnswer
<1>23. CASE FailPartial(r)
  <2>1. GoTo(r, "ended") /\ stream[r].pc = "partial" /\ UNCHANGED bus
    BY <1>23 DEF FailPartial
  <2>2. stream[r].pc \in Asked /\ stream'[r].pc \in Concluded
        /\ PhaseOf(stream[r].pc) # "settled" /\ PhaseOf(stream'[r].pc) = "settled"
    BY <1>4, <2>1 DEF PhaseOf
  <2>3. CASE UNCHANGED <<messages, mishap>>
    <3>1. Abstract!BreakOff(r)
      BY <1>12, <2>1, <2>2, <2>3
    <3> QED BY <3>1 DEF Abstract!Next
  <2>4. CASE Fault(r) /\ (UNCHANGED messages \/ (Live(c) /\ Stored(c, Answer(r, "CANCELLED"))))
    <3>1. Abstract!GoWrong(r)
      BY <1>16, <1>17, <2>1, <2>2, <2>4 DEF Fault, Abstract!GoWrong, Abstract!Unlucky
    <3> QED BY <3>1 DEF Abstract!Next
  <2> QED BY <1>23, <2>3, <2>4 DEF FailPartial
<1> QED BY <1>7, <1>8, <1>9, <1>10, <1>11, <1>14, <1>15, <1>18, <1>19, <1>20, <1>21,
           <1>22, <1>23 DEF StreamStep

\* Opening a stream enters its exchange.
LEMMA OpenInDialogue ==
    ASSUME Formed, NEW r \in Streams, Open(r)
    PROVE  Abstract!Next
<1>1. /\ stream[r].pc = "idle" /\ stream'[r].pc = "start"
      /\ \A q \in Streams \ {r} : stream'[q] = stream[q]
      /\ UNCHANGED <<conversation, messages, usage, bus, mishap>>
  BY Opening
<1>2. PICK c \in Conversations : Live(c) /\ stream'[r].conv = c
  <2>1. PICK c \in Conversations :
          Live(c) /\ stream' = [stream EXCEPT ![r] = [Idle EXCEPT !.pc = "start", !.conv = c]]
    BY DEF Open
  <2>2. [Idle EXCEPT !.pc = "start", !.conv = c].conv = c
    BY DEF Idle
  <2>3. r \in DOMAIN stream
    BY DEF Formed, StreamsFormed
  <2> QED BY <2>1, <2>2, <2>3
<1>3. Place[r] = Abstract!Nowhere /\ Place' = [Place EXCEPT ![r] = c]
  <2>1. ConvOf(r) = NoConversation
    BY <1>1 DEF Formed, StreamsFormed
  <2> QED BY <1>1, <1>2, <2>1 DEF Place, ConvOf, Abstract!Nowhere, NoConversation
<1>4. Phase[r] = "silent" /\ Phase' = Phase
  <2>1. \A q \in Streams : PhaseOf(stream'[q].pc) = PhaseOf(stream[q].pc)
    BY <1>1 DEF PhaseOf, Unasked
  <2> QED BY <1>1, <2>1, PhaseIs DEF PhaseOf, Unasked
<1>5. Thread' = Thread
  BY <1>1, ThreadIsSaid
<1>6. Abstract!Enter(r, c)
  BY <1>1, <1>2, <1>3, <1>4, <1>5 DEF Abstract!Enter, Abstract!Live, Live
<1> QED BY <1>6 DEF Abstract!Next

\* Streams that stay where they are keep their places and phases.
LEMMA Standing ==
    ASSUME UNCHANGED stream
    PROVE  UNCHANGED <<Place, Phase>>
BY PhaseIs DEF Place, ConvOf

\* A conversation begins with its system message, if it has one.
LEMMA CreateInDialogue ==
    ASSUME Formed, NEW c \in Conversations, Create(c)
    PROVE  Abstract!Begin(c)
<1>1. /\ conversation[c] = "none"
      /\ conversation' = [conversation EXCEPT ![c] = "live"]
      /\ messages'[c] = SystemMessage(c)
      /\ \A d \in Conversations \ {c} : messages'[d] = messages[d]
      /\ UNCHANGED <<usage, stream, bus, mishap>>
  BY DEF Create, Formed, RowsFormed
<1>2. Said(SystemMessage(c)) \in {<<>>, <<[of |-> NoStream, says |-> "preamble"]>>}
  <2>1. CASE SystemPrompt[c] = 0
    BY <2>1, SaidAtFirst DEF SystemMessage
  <2>2. CASE SystemPrompt[c] # 0
    <3> DEFINE m == Message(NoStream, "SYSTEM", "none", SystemPrompt[c])
    <3>1. m \in Row /\ m.stream = NoStream /\ m.role = "SYSTEM"
      BY SizesAssumption DEF Message, Row
    <3>2. SystemMessage(c) = <<m>>
      BY <2>2 DEF SystemMessage
    <3> HIDE DEF m
    <3>3. Says(m) = "preamble"
      BY <3>1 DEF Says
    <3>4. Said(<<m>>) = <<[of |-> NoStream, says |-> "preamble"]>>
      BY <3>1, <3>3, SaidAtFirst
    <3> QED BY <3>2, <3>4
  <2> QED BY <2>1, <2>2
<1>3. Thread' = [Thread EXCEPT ![c] = Said(SystemMessage(c))]
  BY <1>1, ThreadIsSaid
<1> QED BY <1>1, <1>2, <1>3, Standing DEF Abstract!Begin, Abstract!Nobody, NoStream

\* A deletion takes the thread, and the references of its recorded bills.
LEMMA DeleteInDialogue ==
    ASSUME Formed, NEW c \in Conversations, Delete(c)
    PROVE  Abstract!Remove(c)
<1>1. /\ messages'[c] = <<>>
      /\ \A d \in Conversations \ {c} : messages'[d] = messages[d]
  BY DEF Delete, Formed, RowsFormed
<1>2. Thread' = [Thread EXCEPT ![c] = <<>>]
  BY <1>1, ThreadIsSaid, SaidAtFirst
<1>3. UNCHANGED <<Place, Phase>>
  BY Standing DEF Delete
<1>4. usage' = {IF b.conv = c THEN [b EXCEPT !.conv = Abstract!Nowhere] ELSE b : b \in usage}
  BY DEF Delete, UsageWithout, Abstract!Nowhere, NoConversation
<1> QED BY <1>2, <1>3, <1>4 DEF Delete, Abstract!Remove, Abstract!Live, Live

\* The listener records a bill or loses it; nobody hears of the others.
LEMMA AsideInDialogue ==
    ASSUME Formed, NEW r \in Streams, HangUp(r) \/ ListenerStep(r) \/ JobStep(r)
    PROVE  [Abstract!Next]_(Abstract!vars)
<1>1. UNCHANGED <<conversation, Thread, Place, Phase>>
  BY Asides, Standing, ThreadIsSaid DEF Aside
<1>2. CASE HangUp(r)
  BY <1>1, <1>2 DEF HangUp, rows, Abstract!vars
<1>3. CASE JobStep(r)
  BY <1>1, <1>3 DEF JobStep, Trigger, StoreSummary, LoseSummary, rows, Abstract!vars
<1>4. CASE LogUsage(r)
  <2>1. PICK e \in bus : /\ e.stream = r /\ bus' = bus \ {e} /\ Live(e.conv)
                         /\ \A u \in usage : u.stream # r
                         /\ usage' = usage \cup {e} /\ UNCHANGED mishap
    BY <1>4 DEF LogUsage
  <2>2. Abstract!Record(e)
    BY <1>1, <2>1 DEF Abstract!Record, Abstract!Live, Live
  <2> QED BY <2>2 DEF Abstract!Next
<1>5. CASE DropUsage(r)
  <2>1. PICK e \in bus : /\ e.stream = r /\ bus' = bus \ {e} /\ UNCHANGED usage
                         /\ (~Live(e.conv) /\ UNCHANGED mishap) \/ Fault(r)
    BY <1>5 DEF DropUsage, rows
  <2>2. Abstract!Lose(e)
    BY <1>1, <2>1 DEF Abstract!Lose, Abstract!Live, Abstract!Unlucky, Live, Fault
  <2> QED BY <2>2 DEF Abstract!Next
<1> QED BY <1>2, <1>3, <1>4, <1>5 DEF ListenerStep

LEMMA DialogueAtFirst == Init => Abstract!Init
<1> SUFFICES ASSUME Init PROVE Abstract!Init
  OBVIOUS
<1>1. Thread = [c \in Conversations |-> <<>>]
  BY ThreadIsSaid, SaidAtFirst DEF Init
<1>2. Place = [r \in Streams |-> Abstract!Nowhere]
  BY DEF Init, Place, ConvOf, Idle, Abstract!Nowhere, NoConversation
<1>3. Phase = [r \in Streams |-> "silent"]
  BY PhaseIs DEF Init, PhaseOf, Unasked, Idle
<1> QED BY <1>1, <1>2, <1>3 DEF Init, Abstract!Init

LEMMA DialogueStep == Formed /\ Staged /\ [Next]_vars => [Abstract!Next]_(Abstract!vars)
<1> SUFFICES ASSUME Formed, Staged, [Next]_vars PROVE [Abstract!Next]_(Abstract!vars)
  OBVIOUS
<1>1. ASSUME NEW c \in Conversations, Create(c) PROVE [Abstract!Next]_(Abstract!vars)
  BY <1>1, CreateInDialogue DEF Abstract!Next
<1>2. ASSUME NEW c \in Conversations, Delete(c) PROVE [Abstract!Next]_(Abstract!vars)
  BY <1>2, DeleteInDialogue DEF Abstract!Next
<1>3. ASSUME NEW r \in Streams, Open(r) PROVE [Abstract!Next]_(Abstract!vars)
  BY <1>3, OpenInDialogue
<1>4. ASSUME NEW r \in Streams, StreamStep(r) PROVE [Abstract!Next]_(Abstract!vars)
  BY <1>4, StreamInDialogue
<1>5. ASSUME NEW r \in Streams, HangUp(r) \/ ListenerStep(r) \/ JobStep(r)
      PROVE  [Abstract!Next]_(Abstract!vars)
  BY <1>5, AsideInDialogue
<1>6. CASE UNCHANGED vars
  BY <1>6, ThreadIsSaid, Standing DEF vars, rows, Abstract!vars
<1> QED BY <1>1, <1>2, <1>3, <1>4, <1>5, <1>6 DEF Next, ServerStep

\* For any conversations, streams, sizes, strategies and faults, what the
\* generators, listeners and deletions do to the rows is a dialogue: an
\* exchange is settled once, with its answer and its bill, where it asked.
THEOREM ChatImplementsDialogue == Spec => ImplementsDialogue
BY FormedAlways, StagedAlways, DialogueAtFirst, DialogueStep, PTL
   DEF Spec, ImplementsDialogue, Abstract!Spec

=============================================================================
