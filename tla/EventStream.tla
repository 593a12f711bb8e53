----------------------------- MODULE EventStream -----------------------------
(***************************************************************************)
(* The reader of OpenAI's answer: OpenAiProvider.streamCompletion.  The    *)
(* body arrives in chunks cut anywhere; the reader keeps the last, still   *)
(* unfinished line, and yields the text of every other line that has one.  *)
(* A body is any sequence of fragments of lines and newlines; which whole  *)
(* lines have a text is given.                                             *)
(***************************************************************************)
EXTENDS Positions

CONSTANTS
    Fragments,
    Newline,
    LinesWithText,  \* "data: " and JSON whose delta has content
    MaxBody         \* bound on the length of a body

ASSUME NewlineAssumption == Newline \notin Fragments
ASSUME LinesAssumption == LinesWithText \subseteq Seq(Fragments)
ASSUME MaxBodyAssumption == MaxBody \in Nat

VARIABLES
    body,           \* what is sent
    received,       \* how much of it has been read
    buffer,         \* the line being received
    lines,          \* lines of the last chunk, to be looked at
    yielded,        \* lines whose text has been yielded
    reader          \* "reading", "done" or "failed"

eventStreamVars == <<body, received, buffer, lines, yielded, reader>>

Bodies == UNION {[1 .. n -> Fragments \cup {Newline}] : n \in 0 .. MaxBody}

EventStreamInit ==
    /\ body \in Bodies
    /\ received = 0
    /\ buffer = <<>>
    /\ lines = <<>>
    /\ yielded = <<>>
    /\ reader = "reading"

\* split('\n'): what is between two newlines, or a newline and an end.
Ends(text) == {0, Len(text) + 1} \cup {i \in DOMAIN text : text[i] = Newline}
Split(text) ==
    [k \in 1 .. Cardinality(Ends(text)) - 1 |->
        SubSeq(text, Nth(Ends(text), k) + 1, Nth(Ends(text), k + 1) - 1)]

\* lines.pop(), kept for the next chunk
RestLost(parts) == <<>>
Rest(parts) == parts[Len(parts)]
Whole(parts) == SubSeq(parts, 1, Len(parts) - 1)

ReadChunk ==
    /\ reader = "reading"
    /\ lines = <<>>
    /\ \E n \in received + 1 .. Len(body) :
        LET parts == Split(buffer \o SubSeq(body, received + 1, n)) IN
        /\ received' = n
        /\ buffer' = Rest(parts)
        /\ lines' = Whole(parts)
    /\ UNCHANGED <<body, yielded, reader>>

\* A line that does not parse is ignored.
TakeLine ==
    /\ reader = "reading"
    /\ lines # <<>>
    /\ yielded' = IF Head(lines) \in LinesWithText THEN Append(yielded, Head(lines)) ELSE yielded
    /\ lines' = Tail(lines)
    /\ UNCHANGED <<body, received, buffer, reader>>

\* At the end of the body the buffer is dropped.
EndOfBody ==
    /\ reader = "reading"
    /\ lines = <<>>
    /\ received = Len(body)
    /\ reader' = "done"
    /\ UNCHANGED <<body, received, buffer, lines, yielded>>

\* The connection breaks, or the consumer returns at a yield.
Break ==
    /\ reader = "reading"
    /\ reader' = "failed"
    /\ UNCHANGED <<body, received, buffer, lines, yielded>>

EventStreamNext == ReadChunk \/ TakeLine \/ EndOfBody \/ Break

EventStreamSpec == EventStreamInit /\ [][EventStreamNext]_eventStreamVars

-----------------------------------------------------------------------------
TextsOf(parts) == Selected(parts, {i \in DOMAIN parts : parts[i] \in LinesWithText})

\* Wherever the chunks are cut, the texts are yielded once, whole and in
\* order: those of the lines that had ended in what was read, and no other
\* (so the text of a last line that does not end is lost).
TextsInOrder ==
    yielded \o TextsOf(lines) = TextsOf(Whole(Split(SubSeq(body, 1, received))))
=============================================================================
