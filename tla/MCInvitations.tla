---------------------------- MODULE MCInvitations ----------------------------
(* Model-checking instances of Invitations: two spellings of one mailbox,   *)
(* both registered, and one address nobody has registered.                  *)
EXTENDS Invitations, TLC

CONSTANTS bob, Bob, ann, r1, r2

\* bob and Bob are one mailbox.
MailboxOf == [a \in Addresses |-> IF a = Bob THEN bob ELSE a]

\* A bound: at most two of three addresses, any two, are ever invited.
TwoRows == \E a \in Addresses : status[a] = NoRow

Symmetry == Permutations(Requests)
=============================================================================
