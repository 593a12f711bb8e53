---------------------------- MODULE MCMembership -----------------------------
(* Model-checking instances of Membership: three users, one or two handlers. *)
EXTENDS Membership, TLC

CONSTANTS u1, u2, u3, r1, r2

\* Users and handlers are only compared, so both are symmetric.
Symmetry == Permutations(Users) \cup Permutations(Requests)
=============================================================================
