------------------------------- MODULE MCChat -------------------------------
(* Model-checking instances of Chat: one conversation that summarises every *)
(* second message, in the default window of 8000 tokens, 4164 of which are  *)
(* for messages.  A question of 9000 characters fits, two of them do not.   *)
EXTENDS Chat, TLC

CONSTANTS c1, r1, r2

Summarising == [c \in Conversations |-> "SUMMARY"]
Prompted == [c \in Conversations |-> 40]

=============================================================================
