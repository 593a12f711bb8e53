----------------------------- MODULE MCSessions ------------------------------
(* Model-checking instances of Sessions. *)
EXTENDS Sessions, TLC

CONSTANTS u1, u2, s1, s2, c1, c2, r1, r2

Symmetry ==
    Permutations(Users) \cup Permutations(SessionIds) \cup Permutations(Clients)
        \cup Permutations(Requests)
=============================================================================
