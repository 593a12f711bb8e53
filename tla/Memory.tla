------------------------------- MODULE Memory -------------------------------
(***************************************************************************)
(* The conversation memory's pure part: how much of a conversation goes to *)
(* the model.  Messages are a sequence in the order of createdAt; they are *)
(* only ever appended, and deleted with their conversation, so a message   *)
(* id is its position.  Contents are their length.                         *)
(***************************************************************************)
EXTENDS Integers, Sequences, FiniteSets, FiniteSetsExt

\* Math.ceil(chars / 4)
Tokens(chars) == (chars + 3) \div 4

\* Math.ceil(n * percent / 100)
Percent(n, percent) == (n * percent + 99) \div 100

\* MemoryBudget.maxHistoryTokens: of a window, less 5% and the completion's
\* share, what is left to the messages.  A small window leaves less than none.
ReservedCompletion == 2048
HistoryTokens(window) ==
    LET available == window - Percent(window, 5) - ReservedCompletion
    IN available - Percent(available, 25)

Chars(messages, first) ==
    MapThenSumSet(LAMBDA i : messages[i].chars, first .. Len(messages))

\* The messages from first on are within the limit.
Fits(messages, first, limit) == Tokens(Chars(messages, first)) <= limit

\* trimToBudget: the oldest messages go until the rest fits, or nothing is left.
TrimmedNewestFirst(messages, first, limit) ==
    Max({i \in first .. Len(messages) : Fits(messages, i, limit)}
          \cup {Len(messages) + 1})
Trimmed(messages, first, limit) ==
    Min({i \in first .. Len(messages) : Fits(messages, i, limit)}
          \cup {Len(messages) + 1})

\* getLatestSummary; nothing is summarised where there is none.
NoSummary == [version |-> 0, first |-> 1, last |-> 0, empty |-> TRUE]
LatestSummary(summaries) ==
    IF summaries = {} THEN NoSummary
    ELSE CHOOSE s \in summaries : \A t \in summaries : t.version <= s.version

\* The first message the latest summary does not cover.
UnsummarizedFrom(summaries) == LatestSummary(summaries).last + 1

\* shouldSummarize
IntervalReached(messages, summaries, interval) ==
    Len(messages) - UnsummarizedFrom(summaries) + 1 >= interval

\* SummaryMemoryProvider.buildContext and SlidingWindowMemoryProvider's: the
\* messages from .. to, after the text of a summary that is not empty.
Context(strategy, messages, summaries, limit) ==
    LET s == IF strategy = "SLIDING_WINDOW" THEN NoSummary ELSE LatestSummary(summaries)
    IN [summary |-> IF s.empty THEN NoSummary ELSE s,
        from |-> Trimmed(messages, s.last + 1, limit),
        to |-> Len(messages)]
=============================================================================
