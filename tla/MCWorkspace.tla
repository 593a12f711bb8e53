----------------------------- MODULE MCWorkspace -----------------------------
(* Model-checking instance of Workspace: two rows and two requests of each  *)
(* kind, names whose slugs collide, and a user of two organizations.  The   *)
(* parts share their model values, so that one permutation serves them all. *)
EXTENDS Workspace, TLC

CONSTANTS x1, x2, h1, h2, t1, t2, u1, u2, o1, o2, b1, b2, k1, k2, none, f1, f2, newline

SomeMembers == u1 :> {o1, o2} @@ u2 :> {o1}
SameSlug == [t \in Titles |-> b1]
OneReserved == {<<b1, 1>>}

\* {{k1}}, {{ k2 }}, and braces and a letter that may come to stand around them
Braces == {<<"{", "{", k1, "}", "}">>, <<"{", "{", " ", k2, " ", "}", "}">>,
           <<"{">>, <<"}">>, <<k1>>}
Sent == {<<>>, <<"$", k2>>, <<"{", k2, "}">>, <<"{", "{", k2, "}", "}">>,
         <<"$", "$", "&">>, <<"$", "&">>, <<"$", "backquote">>, <<"$", "quote">>}

TwoTexts == {<<f1, f2>>, <<f2, f1>>}

Symmetric == Permutations({x1, x2}) \cup Permutations({h1, h2}) \cup Permutations({t1, t2})

=============================================================================
