------------------------------ MODULE Dialogue ------------------------------
(***************************************************************************)
(* What conversations promise, with no generator, listener or client in    *)
(* sight.  An exchange takes place in one conversation: it asks once and   *)
(* is settled once, in one step that puts the answer on the thread and the *)
(* bill with those to be recorded; an answer follows its question in the   *)
(* same thread.  Threads only grow until their conversation is removed.  A *)
(* bill is recorded as it was made out, and outlives the conversation.     *)
(***************************************************************************)
EXTENDS Sequences

CONSTANTS
    Conversations,
    Exchanges

VARIABLES
    living,     \* conversations: "none", "live" or "deleted"
    thread,     \* what was said in each, and in which exchange
    place,      \* the conversation an exchange takes place in
    phase,      \* "silent", "asked" or "settled"
    owed,       \* bills to be recorded
    ledger,     \* bills recorded
    mishap      \* exchanges the database has failed

vars == <<living, thread, place, phase, owed, ledger, mishap>>

Nowhere == "none"
Nobody == "none"

Init ==
    /\ living = [c \in Conversations |-> "none"]
    /\ thread = [c \in Conversations |-> <<>>]
    /\ place = [e \in Exchanges |-> Nowhere]
    /\ phase = [e \in Exchanges |-> "silent"]
    /\ owed = {}
    /\ ledger = {}
    /\ mishap = {}

Live(c) == c \in Conversations /\ living[c] = "live"

Begin(c) ==
    /\ living[c] = "none"
    /\ living' = [living EXCEPT ![c] = "live"]
    /\ \E preamble \in {<<>>, <<[of |-> Nobody, says |-> "preamble"]>>} :
        thread' = [thread EXCEPT ![c] = preamble]
    /\ UNCHANGED <<place, phase, owed, ledger, mishap>>

Remove(c) ==
    /\ Live(c)
    /\ living' = [living EXCEPT ![c] = "deleted"]
    /\ thread' = [thread EXCEPT ![c] = <<>>]
    /\ ledger' = {IF b.conv = c THEN [b EXCEPT !.conv = Nowhere] ELSE b : b \in ledger}
    /\ UNCHANGED <<place, phase, owed, mishap>>

Enter(e, c) ==
    /\ place[e] = Nowhere
    /\ phase[e] = "silent"
    /\ Live(c)
    /\ place' = [place EXCEPT ![e] = c]
    /\ UNCHANGED <<living, thread, phase, owed, ledger, mishap>>

Says(e, words) ==
    thread' = [thread EXCEPT ![place[e]] = Append(@, [of |-> e, says |-> words])]
HasAsked(e) ==
    \E i \in DOMAIN thread[place[e]] : thread[place[e]][i] = [of |-> e, says |-> "question"]
Unlucky(e) == mishap' = mishap \cup {e}

Ask(e) ==
    /\ phase[e] = "silent"
    /\ Live(place[e])
    /\ Says(e, "question")
    /\ phase' = [phase EXCEPT ![e] = "asked"]
    /\ UNCHANGED <<living, place, owed, ledger, mishap>>

\* An exchange ends, once.  Who has asked can be told where the thread stands.
Settles(e) ==
    /\ phase[e] = "asked"
    /\ Live(place[e]) => HasAsked(e)
    /\ phase' = [phase EXCEPT ![e] = "settled"]
    /\ UNCHANGED <<living, place, ledger>>
Bill(e, status) == owed' = owed \cup {[stream |-> e, status |-> status, conv |-> place[e]]}

Answer(e) ==
    /\ Settles(e)
    /\ Live(place[e]) /\ Says(e, "answer")
    /\ Bill(e, "SUCCESS")
    /\ UNCHANGED mishap

\* What had been said by then is kept, if it was anything.
CutShort(e) ==
    /\ Settles(e)
    /\ \/ Live(place[e]) /\ Says(e, "cut")
       \/ UNCHANGED thread
    /\ Bill(e, "CANCELLED")
    /\ UNCHANGED mishap

Fail(e) ==
    /\ Settles(e)
    /\ Bill(e, "FAILED")
    /\ UNCHANGED <<thread, mishap>>

\* The database fails: whether it kept the answer is not known, nor is it
\* billed as one.
GoWrong(e) ==
    /\ Settles(e)
    /\ Unlucky(e)
    /\ \/ UNCHANGED thread
       \/ Live(place[e]) /\ \E words \in {"answer", "cut"} : Says(e, words)
    /\ Bill(e, "FAILED") \/ UNCHANGED owed

\* An exchange breaks off, before its question or after, and nobody pays.
BreakOff(e) ==
    /\ phase[e] # "settled"
    /\ place[e] # Nowhere
    /\ phase' = [phase EXCEPT ![e] = "settled"]
    /\ UNCHANGED mishap \/ Unlucky(e)
    /\ UNCHANGED <<living, thread, place, owed, ledger>>

Record(b) ==
    /\ b \in owed
    /\ Live(b.conv)
    /\ \A other \in ledger : other.stream # b.stream
    /\ owed' = owed \ {b}
    /\ ledger' = ledger \cup {b}
    /\ UNCHANGED <<living, thread, place, phase, mishap>>

\* A bill is lost with its conversation, or by the database.
Lose(b) ==
    /\ b \in owed
    /\ owed' = owed \ {b}
    /\ \/ ~Live(b.conv) /\ UNCHANGED mishap
       \/ Unlucky(b.stream)
    /\ UNCHANGED <<living, thread, place, phase, ledger>>

Next ==
    \/ \E c \in Conversations : Begin(c) \/ Remove(c)
    \/ \E e \in Exchanges :
        \/ \E c \in Conversations : Enter(e, c)
        \/ Ask(e) \/ Answer(e) \/ CutShort(e) \/ Fail(e) \/ GoWrong(e) \/ BreakOff(e)
    \/ \E b \in owed : Record(b) \/ Lose(b)

Spec == Init /\ [][Next]_vars
=============================================================================
