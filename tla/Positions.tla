------------------------------ MODULE Positions ------------------------------
(***************************************************************************)
(* Choosing from a sequence by position.  What the community modules do    *)
(* with SelectSeq and folds is said here without recursion, so that it can *)
(* be reasoned about.                                                      *)
(***************************************************************************)
EXTENDS Integers, Sequences, FiniteSets

\* How many of the numbers S are up to i, and the k-th of them.
Rank(S, i) == Cardinality({j \in S : j <= i})
Nth(S, k) == CHOOSE i \in S : Rank(S, i) = k

\* The elements of a sequence at the positions S, in order.
Selected(seq, S) == [k \in 1 .. Cardinality(S) |-> seq[Nth(S, k)]]
=============================================================================
