------------------------------ MODULE Ownership ------------------------------
(***************************************************************************)
(* What membership management promises of one organization, with no        *)
(* requests, reads or row formats in sight: there is one owner, the owner  *)
(* is a member, ownership moves only to another member, the owner never    *)
(* departs, and who departed never returns.                                *)
(***************************************************************************)
CONSTANT Users

VARIABLES
    members,    \* users with an active membership
    former,     \* users whose membership was ended
    owners      \* who holds the OWNER role: always one user

vars == <<members, former, owners>>

Init == \E f \in Users : members = {f} /\ former = {} /\ owners = {f}

Join(u) ==
    /\ u \notin members \cup former
    /\ members' = members \cup {u}
    /\ UNCHANGED <<former, owners>>

Depart(u) ==
    /\ u \in members \ owners
    /\ members' = members \ {u}
    /\ former' = former \cup {u}
    /\ UNCHANGED owners

Transfer(u) ==
    /\ u \in members \ owners
    /\ owners' = {u}
    /\ UNCHANGED <<members, former>>

Next == \E u \in Users : Join(u) \/ Depart(u) \/ Transfer(u)

Spec == Init /\ [][Next]_vars
=============================================================================
