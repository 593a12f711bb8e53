-------------------------------- MODULE Chat --------------------------------
(***************************************************************************)
(* Conversations and the streams that answer in them.  ChatOrchestrator's  *)
(* streamMessage is a generator and ChatController.stream its consumer: a  *)
(* step of a stream is one awaited call of the generator, or the consumer  *)
(* taking what was yielded.  What the generator publishes is handled by    *)
(* two listeners nobody waits for: one stores the usage, one may start a   *)
(* background summary.  Streams of one conversation interleave, with each  *)
(* other, with the listeners, and with the deletion of the conversation.   *)
(*                                                                         *)
(* One database query is one step, with the messages and summaries it      *)
(* includes.  No route sets memoryStrategy, which is SLIDING_WINDOW unless *)
(* the row is edited by hand: Strategy says what the rows hold.            *)
(***************************************************************************)
EXTENDS Memory

CONSTANTS
    Conversations,
    Streams,        \* one POST :id/stream each, named by its requestId
    Strategy,       \* memoryStrategy of each conversation
    SystemPrompt,   \* length of each conversation's system prompt, 0 for none
    Interval,       \* summaryInterval
    Window,         \* maxContextTokens, or the model's limit
    Questions,      \* lengths of the messages clients send
    ChunkChars,     \* length of a chunk of the model's answer
    MaxChunks,      \* bound on the chunks of an answer
    Faults          \* bound on the streams that meet a database fault

ASSUME StrategyAssumption ==
    Strategy \in [Conversations -> {"SLIDING_WINDOW", "SUMMARY", "HYBRID"}]
ASSUME SizesAssumption ==
    /\ SystemPrompt \in [Conversations -> Nat]
    /\ Interval \in Nat \ {0}
    /\ Window \in Nat
    /\ Questions \subseteq Nat \ {0}
    /\ ChunkChars \in Nat \ {0}
    /\ MaxChunks \in Nat
ASSUME FaultsAssumption == Faults \in Nat

VARIABLES
    conversation,   \* is there a row: "none", "live" or "deleted"
    messages,       \* the messages of each conversation, oldest first
    summaries,      \* its ConversationSummary rows
    usage,          \* AiUsageLog rows
    stream,         \* the local state of each stream
    left,           \* streams whose client left before the answer (history)
    bus,            \* AiUsageLoggedEvents whose insert is still running
    job,            \* the summarisation each stream's end set off
    mishap          \* streams that met a database fault (history)

rows == <<conversation, messages, summaries, usage>>
vars == <<rows, stream, left, bus, job, mishap>>

NoStream == "none"
ASSUME NoStreamAssumption == NoStream \notin Streams
NoConversation == "none"
ASSUME NoConversationAssumption == NoConversation \notin Conversations

Outcomes == {"SUCCESS", "CANCELLED", "FAILED"}

Idle == [pc |-> "idle", conv |-> NoConversation, chunks |-> 0, context |-> <<>>]
NoJob == [pc |-> "none"]

Live(c) == c \in Conversations /\ conversation[c] = "live"
ConvOf(r) == stream[r].conv
GoTo(r, pc) == stream' = [stream EXCEPT ![r].pc = pc]
LeaveModel(r, pc) == stream' = [stream EXCEPT ![r].pc = pc, ![r].context = <<>>]
Fault(r) == Cardinality(mishap) < Faults /\ mishap' = mishap \cup {r}

Message(r, role, finish, chars) ==
    [stream |-> r, role |-> role, finish |-> finish, chars |-> chars]
Answer(r, finish) == Message(r, "ASSISTANT", finish, stream[r].chunks * ChunkChars)
Stored(c, m) == messages' = [messages EXCEPT ![c] = Append(@, m)]

-----------------------------------------------------------------------------
Init ==
    /\ conversation = [c \in Conversations |-> "none"]
    /\ messages = [c \in Conversations |-> <<>>]
    /\ summaries = [c \in Conversations |-> {}]
    /\ usage = {}
    /\ stream = [r \in Streams |-> Idle]
    /\ left = {}
    /\ bus = {}
    /\ job = [r \in Streams |-> NoJob]
    /\ mishap = {}

SystemMessage(c) ==
    IF SystemPrompt[c] = 0 THEN <<>>
    ELSE <<Message(NoStream, "SYSTEM", "none", SystemPrompt[c])>>

\* ConversationService.create: the row and, with a system prompt, its message.
Create(c) ==
    /\ conversation[c] = "none"
    /\ conversation' = [conversation EXCEPT ![c] = "live"]
    /\ messages' = [messages EXCEPT ![c] = SystemMessage(c)]
    /\ UNCHANGED <<summaries, usage, stream, left, bus, job, mishap>>

\* ConversationService.delete: messages and summaries cascade, usage rows
\* lose the reference.
UsageWithoutCascaded(c) == {u \in usage : u.conv # c}
UsageWithout(c) == {IF u.conv = c THEN [u EXCEPT !.conv = NoConversation] ELSE u : u \in usage}

Delete(c) ==
    /\ Live(c)
    /\ conversation' = [conversation EXCEPT ![c] = "deleted"]
    /\ messages' = [messages EXCEPT ![c] = <<>>]
    /\ summaries' = [summaries EXCEPT ![c] = {}]
    /\ usage' = UsageWithout(c)
    /\ UNCHANGED <<stream, left, bus, job, mishap>>

-----------------------------------------------------------------------------
\* streamMessage up to its first yield: the conversation is there, and the
\* prompt version, where one is asked for, renders to the question.
Open(r) ==
    /\ stream[r] = Idle
    /\ \E c \in Conversations :
        /\ Live(c)
        /\ stream' = [stream EXCEPT ![r] = [Idle EXCEPT !.pc = "start", !.conv = c]]
    /\ UNCHANGED <<rows, left, bus, job, mishap>>

\* The client hangs up.  Nothing of the server's takes note: 'close' is the
\* request's, which on Node 22 has emitted it once its body was read, before
\* the controller listens for it, so isClosed stays false and what is written
\* from here on is dropped with the socket.
Answering == {"start", "question", "context", "model", "token"}

HangUp(r) ==
    /\ stream[r].pc \in Answering
    /\ r \notin left
    /\ left' = left \cup {r}
    /\ UNCHANGED <<rows, stream, bus, job, mishap>>

\* The consumer writes what was yielded and asks for more.
Resumed(pc) ==
    CASE pc = "start" -> "question"
      [] pc = "token" -> "model"
      [] pc = "usage" -> "answer"

Deliver(r) ==
    /\ stream[r].pc \in {"start", "token", "usage"}
    /\ GoTo(r, Resumed(stream[r].pc))
    /\ UNCHANGED <<rows, left, bus, job, mishap>>

\* The last event is written, or not if the client is gone.
DeliverLast(r) ==
    /\ stream[r].pc \in {"done", "error"}
    /\ GoTo(r, "ended")
    /\ UNCHANGED <<rows, left, bus, job, mishap>>

\* The user message is stored before anything is asked of the model.
StoreQuestion(r) ==
    /\ stream[r].pc = "question"
    /\ Live(ConvOf(r))
    /\ \E chars \in Questions : Stored(ConvOf(r), Message(r, "USER", "none", chars))
    /\ GoTo(r, "context")
    /\ UNCHANGED <<conversation, summaries, usage, left, bus, job, mishap>>

\* buildContext reads the conversation again.
BuildContext(r) ==
    LET c == ConvOf(r) IN
    /\ stream[r].pc = "context"
    /\ Live(c)
    /\ stream' = [stream EXCEPT
            ![r].pc = "model",
            ![r].context = Context(Strategy[c], messages[c], summaries[c], HistoryTokens(Window))]
    /\ UNCHANGED <<rows, left, bus, job, mishap>>

\* (A failure nobody looks for)
FailEarlyOnFault(r) ==
    /\ stream[r].pc \in {"question", "context"}
    /\ Fault(r)
    /\ GoTo(r, "ended")
    /\ UNCHANGED <<rows, left, bus, job>>

\* Either step fails where the conversation is gone, or the database: the
\* error leaves the generator, and the controller writes SERVER_ERROR.
FailEarly(r) ==
    /\ stream[r].pc \in {"question", "context"}
    /\ \/ ~Live(ConvOf(r)) /\ UNCHANGED mishap
       \/ Fault(r)
    /\ GoTo(r, "ended")
    /\ UNCHANGED <<rows, left, bus, job>>

-----------------------------------------------------------------------------
Publish(r, outcome) == bus' = bus \cup {[stream |-> r, status |-> outcome, conv |-> ConvOf(r)]}

Chunk(r) ==
    /\ stream[r].pc = "model"
    /\ stream[r].chunks < MaxChunks
    /\ stream' = [stream EXCEPT ![r].pc = "token", ![r].chunks = @ + 1]
    /\ UNCHANGED <<rows, left, bus, job, mishap>>

\* The model has answered, be it with nothing at all: usage is estimated.
FinishAnswer(r) ==
    /\ stream[r].pc = "model"
    /\ GoTo(r, "usage")
    /\ UNCHANGED <<rows, left, bus, job, mishap>>

\* The catch block for a provider's failure
ProviderFailsQuietly(r) ==
    /\ stream[r].pc = "model"
    /\ LeaveModel(r, "error")
    /\ UNCHANGED <<rows, left, bus, job, mishap>>
ProviderFails(r) ==
    /\ stream[r].pc = "model"
    /\ Publish(r, "FAILED")
    /\ LeaveModel(r, "error")
    /\ UNCHANGED <<rows, left, job, mishap>>

\* The catch block for an error that says "aborted": text is stored first.
ProviderAborts(r) ==
    /\ stream[r].pc = "model"
    /\ \/ /\ stream[r].chunks > 0
          /\ LeaveModel(r, "partial")
          /\ UNCHANGED bus
       \/ /\ stream[r].chunks = 0
          /\ Publish(r, "CANCELLED")
          /\ LeaveModel(r, "error")
    /\ UNCHANGED <<rows, left, job, mishap>>

\* The answer is stored, then both events are published.
StoreAnswer(r) ==
    /\ stream[r].pc = "answer"
    /\ Live(ConvOf(r))
    /\ Stored(ConvOf(r), Answer(r, "STOP"))
    /\ Publish(r, "SUCCESS")
    /\ job' = [job EXCEPT ![r] = [pc |-> "due"]]
    /\ GoTo(r, "done")
    /\ UNCHANGED <<conversation, summaries, usage, left, mishap>>

\* Storing it fails, and the catch block takes that for a provider's failure.
\* A fault may also strike after the row was committed.
OutcomeOfLostAnswerEager(r) == "SUCCESS"
OutcomeOfLostAnswer(r) == "FAILED"

AfterLostAnswerPartial(r) == "partial"
AfterLostAnswer(r) == "error"

FailAnswer(r) ==
    /\ stream[r].pc = "answer"
    /\ \/ ~Live(ConvOf(r)) /\ UNCHANGED <<messages, mishap>>
       \/ Fault(r) /\ UNCHANGED messages
       \/ Fault(r) /\ Live(ConvOf(r)) /\ Stored(ConvOf(r), Answer(r, "STOP"))
    /\ Publish(r, OutcomeOfLostAnswer(r))
    /\ GoTo(r, AfterLostAnswer(r))
    /\ UNCHANGED <<conversation, summaries, usage, left, job>>

StorePartial(r) ==
    /\ stream[r].pc = "partial"
    /\ Live(ConvOf(r))
    /\ Stored(ConvOf(r), Answer(r, "CANCELLED"))
    /\ Publish(r, "CANCELLED")
    /\ GoTo(r, "error")
    /\ UNCHANGED <<conversation, summaries, usage, left, job, mishap>>

\* A failure inside the catch block leaves the generator: no usage.
FailPartial(r) ==
    /\ stream[r].pc = "partial"
    /\ \/ ~Live(ConvOf(r)) /\ UNCHANGED <<messages, mishap>>
       \/ Fault(r) /\ UNCHANGED messages
       \/ Fault(r) /\ Live(ConvOf(r)) /\ Stored(ConvOf(r), Answer(r, "CANCELLED"))
    /\ GoTo(r, "ended")
    /\ UNCHANGED <<conversation, summaries, usage, left, bus, job>>

-----------------------------------------------------------------------------
\* UsageEventListener: requestId is unique, the conversation must be there.
LogUsage(r) ==
    \E e \in bus :
        /\ e.stream = r
        /\ bus' = bus \ {e}
        /\ Live(e.conv)
        /\ \A u \in usage : u.stream # r
        /\ usage' = usage \cup {e}
        /\ UNCHANGED <<conversation, messages, summaries, stream, left, job, mishap>>

\* An insert that fails is forgotten.
DropUsage(r) ==
    \E e \in bus :
        /\ e.stream = r
        /\ bus' = bus \ {e}
        /\ \/ ~Live(e.conv) /\ UNCHANGED mishap
           \/ Fault(r)
        /\ UNCHANGED <<rows, stream, left, job>>

\* triggerSummarizationIfNeeded reads the conversation as it is by now, and
\* summarize keeps that snapshot while the model writes the summary.
Due(c) ==
    /\ Live(c)
    /\ Strategy[c] # "SLIDING_WINDOW"
    /\ IntervalReached(messages[c], summaries[c], Interval)

NextVersionLatest(c) == LatestSummary(summaries[c]).version
NextVersion(c) == LatestSummary(summaries[c]).version + 1

Trigger(r) ==
    LET c == ConvOf(r) IN
    /\ job[r].pc = "due"
    /\ job' = [job EXCEPT ![r] =
            IF Due(c)
            THEN [pc |-> "writing", version |-> NextVersion(c),
                  first |-> UnsummarizedFrom(summaries[c]), last |-> Len(messages[c])]
            ELSE NoJob]
    /\ UNCHANGED <<rows, stream, left, bus, mishap>>

\* conversationSummary.create: unique(conversationId, version).
VersionFreeAnyway(c, j) == TRUE
VersionFree(c, j) == \A s \in summaries[c] : s.version # j.version

StoreSummary(r) ==
    LET c == ConvOf(r)
        j == job[r]
    IN
    /\ j.pc = "writing"
    /\ Live(c)
    /\ VersionFree(c, j)
    /\ \E empty \in BOOLEAN :
        summaries' = [summaries EXCEPT ![c] = @ \cup
            {[version |-> j.version, first |-> j.first, last |-> j.last, empty |-> empty]}]
    /\ job' = [job EXCEPT ![r] = NoJob]
    /\ UNCHANGED <<conversation, messages, usage, stream, left, bus, mishap>>

\* The model or the insert fails: logged, and tried again at the next answer.
LoseSummary(r) ==
    /\ job[r].pc = "writing"
    /\ job' = [job EXCEPT ![r] = NoJob]
    /\ UNCHANGED <<rows, stream, left, bus, mishap>>

-----------------------------------------------------------------------------
StreamStep(r) ==
    \/ Deliver(r) \/ DeliverLast(r)
    \/ StoreQuestion(r) \/ BuildContext(r) \/ FailEarly(r)
    \/ Chunk(r) \/ FinishAnswer(r) \/ ProviderFails(r) \/ ProviderAborts(r)
    \/ StoreAnswer(r) \/ FailAnswer(r) \/ StorePartial(r) \/ FailPartial(r)

ListenerStep(r) == LogUsage(r) \/ DropUsage(r)
JobStep(r) == Trigger(r) \/ StoreSummary(r) \/ LoseSummary(r)

ServerStep(r) == StreamStep(r) \/ ListenerStep(r) \/ JobStep(r)

Next ==
    \/ \E c \in Conversations : Create(c) \/ Delete(c)
    \/ \E r \in Streams : Open(r) \/ HangUp(r) \/ ServerStep(r)

Spec == Init /\ [][Next]_vars

\* Nothing makes a client ask, hang up or delete.  The event loop runs what is
\* ready, a database call returns, and fetch gives up on a silent model after
\* its body timeout: while a stream has work left, some of it gets done.
FairSpec == Spec /\ WF_vars(\E r \in Streams : ServerStep(r))

-----------------------------------------------------------------------------
Counts == 0 .. MaxChunks

\* Every variable has its type: the code's rows, and the handlers' locals.
TypeOK ==
    /\ conversation \in [Conversations -> {"none", "live", "deleted"}]
    /\ \A c \in Conversations :
        /\ messages[c] \in Seq([stream : Streams \cup {NoStream},
                                role : {"SYSTEM", "USER", "ASSISTANT"},
                                finish : {"none", "STOP", "CANCELLED"}, chars : Nat])
        /\ \A s \in summaries[c] :
            s \in [version : Nat \ {0}, first : Nat \ {0}, last : Nat, empty : BOOLEAN]
    /\ \A e \in bus \cup usage :
        e \in [stream : Streams, status : Outcomes, conv : Conversations \cup {NoConversation}]
    /\ \A r \in Streams :
        /\ stream[r].chunks \in Counts
        /\ ConvOf(r) = NoConversation <=> stream[r].pc = "idle"
    /\ left \subseteq Streams
    /\ mishap \subseteq Streams

AnswersOf(r) ==
    LET ms == messages[ConvOf(r)]
    IN {i \in DOMAIN ms : ms[i].stream = r /\ ms[i].role = "ASSISTANT"}

\* What a stream bills agrees with what it stored, although the row of the
\* one comes from a listener and the other from the generator: at most one
\* outcome, SUCCESS with the whole answer, CANCELLED with the text that had
\* arrived, FAILED with none unless the database lost its acknowledgement.
BilledAsStored ==
    \A e \in bus \cup usage :
        LET r == e.stream
            stored(finish) ==
                \E i \in AnswersOf(r) : messages[ConvOf(r)][i] = Answer(r, finish)
        IN
        /\ \A f \in bus \cup usage : f.stream = r => f.status = e.status
        /\ Live(ConvOf(r)) =>
            /\ e.status = "SUCCESS" => stored("STOP")
            /\ e.status = "CANCELLED" /\ stream[r].chunks > 0 => stored("CANCELLED")
            /\ e.status = "FAILED" /\ r \notin mishap => AnswersOf(r) = {}

\* However streams interleave in a conversation, a question is answered at
\* most once, and its answer comes after it.
AnswersFollowQuestions ==
    \A r \in Streams : stream[r].pc # "idle" =>
        \A i \in AnswersOf(r) :
            /\ AnswersOf(r) = {i}
            /\ \E q \in 1 .. i :
                messages[ConvOf(r)][q].stream = r /\ messages[ConvOf(r)][q].role = "USER"

\* Summaries are written in the background from snapshots that may be stale
\* by then; still, in the order of their versions they cover the messages
\* from the first on, without a gap and without an overlap.
SummariesPartition ==
    \A c \in Conversations : \A s \in summaries[c] :
        /\ s.first <= s.last /\ s.last <= Len(messages[c])
        /\ \A t \in summaries[c] : s.version = t.version => s = t
        /\ IF s.version = 1 THEN s.first = 1
           ELSE \E t \in summaries[c] : t.version = s.version - 1 /\ s.first = t.last + 1

\* What a model is given: a message of the conversation as it was read is in
\* the history, or has been summarised, or would not have fitted with what
\* follows it; and none is in the history and in the summary.  So a stream's
\* own question is missing only where another stream's summary took it, or
\* where it is too long.
ContextHasNoHole ==
    \A r \in Streams :
        LET c == ConvOf(r)
            x == stream[r].context
            read == SubSeq(messages[c], 1, x.to)
        IN
        stream[r].pc \in {"model", "token"} /\ Live(c) =>
            /\ \E q \in DOMAIN read : read[q].stream = r
            /\ x.summary.last < x.from
            /\ \A i \in 1 .. x.from - 1 :
                \/ \E s \in summaries[c] : s.first <= i /\ i <= s.last
                \/ ~Fits(read, i, HistoryTokens(Window))

\* Costs outlive the conversation: a usage row is never removed, and loses
\* nothing but its reference (onDelete: SetNull).
UsageIsKept ==
    [][\A u \in usage : \E v \in usage' : v.stream = u.stream /\ v.status = u.status]_vars

\* A stream that was opened ends, whatever the model, the database, the
\* client or a deletion does.
StreamsEnd ==
    \A r \in Streams : stream[r].pc # "idle" ~> stream[r].pc = "ended"

\* Once a model works for a client, the cost is on record in the end, be the
\* client still there or not, unless the conversation is deleted or the
\* database fails.
CostsReported ==
    \A r \in Streams :
        stream[r].pc = "model" ~>
            \/ \E u \in usage : u.stream = r
            \/ ~Live(ConvOf(r)) \/ r \in mishap

\* "Client-triggered cancellations ... result in the stream aborting, partial
\* messages being saved up to the cancellation point" (ADR 0006): a stream
\* whose client left in the middle of the answer does not store it whole and
\* bill it as a success.
CancellationAborts ==
    \A r \in left :
        /\ \A i \in AnswersOf(r) : messages[ConvOf(r)][i].finish # "STOP"
        /\ \A e \in bus \cup usage : e.stream = r => e.status # "SUCCESS"

\* The abstract promise, read off the rows and the places of the streams.
Says(m) ==
    CASE m.role = "USER" -> "question"
      [] m.role = "SYSTEM" -> "preamble"
      [] m.role = "ASSISTANT" -> IF m.finish = "STOP" THEN "answer" ELSE "cut"
Thread ==
    [c \in Conversations |->
        [i \in DOMAIN messages[c] |->
            [of |-> messages[c][i].stream, says |-> Says(messages[c][i])]]]
Place == [r \in Streams |-> ConvOf(r)]
Phase ==
    [r \in Streams |->
        CASE stream[r].pc \in {"idle", "start", "question"} -> "silent"
          [] stream[r].pc \in {"done", "error", "ended"} -> "settled"
          [] OTHER -> "asked"]
Abstract == INSTANCE Dialogue WITH
    Exchanges <- Streams,
    living <- conversation,
    thread <- Thread,
    place <- Place,
    phase <- Phase,
    owed <- bus,
    ledger <- usage

\* However the generators, their clients, the listeners and deletions
\* interleave, a conversation is a dialogue: an exchange is settled once, in
\* one step with its answer and its bill, where it asked.
ImplementsDialogue == Abstract!Spec
=============================================================================
