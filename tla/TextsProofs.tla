----------------------------- MODULE TextsProofs -----------------------------
(***************************************************************************)
(* What the reader of a provider's stream yields, for every body and every *)
(* way to cut it.  It rests on what choosing by position gives, so that no *)
(* induction over texts is needed.                                         *)
(***************************************************************************)
EXTENDS EventStream, FiniteSetTheorems, SequenceTheorems, WellFoundedInduction, TLAPS

-----------------------------------------------------------------------------
(* Positions.                                                              *)

Numbers(S) == S \in SUBSET Nat /\ IsFiniteSet(S)

LEMMA RankType ==
    ASSUME NEW S, Numbers(S), NEW i \in Nat
    PROVE  Rank(S, i) \in Nat /\ Rank(S, i) <= Cardinality(S) /\ Cardinality(S) \in Nat
<1>1. {j \in S : j <= i} \in SUBSET S
  OBVIOUS
<1> QED
  BY <1>1, FS_Subset, FS_CardinalityType DEF Numbers, Rank

\* A later position has a higher rank.
LEMMA RankGrows ==
    ASSUME NEW S, Numbers(S), NEW i \in Nat, NEW j \in S, i < j
    PROVE  Rank(S, i) < Rank(S, j)
<1> DEFINE A == {n \in S : n <= i}
           B == {n \in S : n <= j}
<1>0. S \in SUBSET Nat /\ j \in Nat
  BY DEF Numbers
<1>1. A \in SUBSET B /\ j \in B /\ j \notin A
  <2>1. ASSUME NEW n \in S, n <= i PROVE n <= j
    BY <1>0, <2>1
  <2>2. A \in SUBSET B
    BY <2>1
  <2>3. j <= j /\ ~(j <= i)
    BY <1>0
  <2> QED
    BY <2>2, <2>3
<1>2. IsFiniteSet(A) /\ IsFiniteSet(B)
  BY FS_Subset DEF Numbers
<1>3. Cardinality(A) <= Cardinality(B) /\ Cardinality(A) # Cardinality(B)
  BY <1>1, <1>2, FS_Subset
<1>4. Cardinality(A) \in Nat /\ Cardinality(B) \in Nat
  BY <1>2, FS_CardinalityType
<1> QED
  BY <1>3, <1>4 DEF Rank

LEMMA RankOfMember ==
    ASSUME NEW S, Numbers(S), NEW i \in S
    PROVE  Rank(S, i) \in 1 .. Cardinality(S) /\ Nth(S, Rank(S, i)) = i
<1>1. i \in Nat
  BY DEF Numbers
<1>2. Rank(S, i) # 0
  BY <1>1, FS_Subset, FS_EmptySet DEF Numbers, Rank
<1>3. Rank(S, i) \in 1 .. Cardinality(S)
  BY <1>1, <1>2, RankType
<1>4. ASSUME NEW j \in S, Rank(S, j) = Rank(S, i) PROVE j = i
  <2>1. j \in Nat /\ Rank(S, i) \in Nat
    BY <1>1, RankType DEF Numbers
  <2>2. ~(i < j) /\ ~(j < i)
    BY <1>1, <1>4, <2>1, RankGrows
  <2> QED
    BY <1>1, <2>1, <2>2
<1>5. Nth(S, Rank(S, i)) \in S /\ Rank(S, Nth(S, Rank(S, i))) = Rank(S, i)
  BY DEF Nth
<1> QED
  BY <1>3, <1>4, <1>5

\* Every rank up to their number is taken.
LEMMA NthIsThere ==
    ASSUME NEW S, Numbers(S), NEW k \in 1 .. Cardinality(S)
    PROVE  Nth(S, k) \in S /\ Rank(S, Nth(S, k)) = k /\ Nth(S, k) \in Nat
<1> DEFINE f == [i \in S |-> Rank(S, i)]
           T == 1 .. Cardinality(S)
<1>1. Cardinality(S) \in Nat
  BY FS_CardinalityType DEF Numbers
<1>2. IsFiniteSet(T) /\ Cardinality(T) = Cardinality(S)
  BY <1>1, FS_Interval
<1>3. ASSUME NEW i \in S, NEW j \in S, f[i] = f[j] PROVE i = j
  BY <1>3, RankOfMember
<1>4. f \in [S -> T]
  BY RankOfMember
<1>5. f \in Injection(S, T)
  BY <1>3, <1>4 DEF Injection, IsInjective
<1>6. f \in Surjection(S, T)
  BY <1>2, <1>5, FS_Injection
<1>7. PICK i \in S : f[i] = k
  BY <1>6 DEF Surjection
<1>8. Nth(S, k) \in S /\ Rank(S, Nth(S, k)) = k
  BY <1>7 DEF Nth
<1> QED
  BY <1>8 DEF Numbers

\* The positions S, and after them the positions T moved by b.
Shifted(b, T) == {b + t : t \in T}
Joined(S, b, T) == S \cup Shifted(b, T)
Apart(S, b, T) ==
    /\ Numbers(S) /\ Numbers(T) /\ b \in Nat
    /\ \A i \in S : \A t \in T : i < b + t

LEMMA ShiftedSize ==
    ASSUME NEW b \in Nat, NEW T, Numbers(T)
    PROVE  Numbers(Shifted(b, T)) /\ Cardinality(Shifted(b, T)) = Cardinality(T)
<1> DEFINE f == [t \in T |-> b + t]
<1>1. f \in Bijection(T, Shifted(b, T))
  BY DEF Numbers, Shifted, Bijection, Injection, Surjection, IsInjective
<1>2. ExistsBijection(T, Shifted(b, T))
  BY <1>1 DEF ExistsBijection
<1> QED
  BY <1>2, FS_Bijection DEF Numbers, Shifted

LEMMA NumbersApart ==
    ASSUME NEW S, NEW T, Numbers(S), Numbers(T), S \cap T = {}
    PROVE  Numbers(S \cup T) /\ Cardinality(S \cup T) = Cardinality(S) + Cardinality(T)
<1>1. IsFiniteSet(S) /\ IsFiniteSet(T) /\ S \cup T \in SUBSET Nat
  BY DEF Numbers
<1>2. /\ IsFiniteSet(S \cup T)
      /\ Cardinality(S \cup T) = Cardinality(S) + Cardinality(T) - Cardinality(S \cap T)
  BY <1>1, FS_Union
<1>3. Cardinality(S) \in Nat /\ Cardinality(T) \in Nat /\ Cardinality(S \cap T) = 0
  BY <1>1, FS_CardinalityType, FS_EmptySet
<1> QED
  BY <1>1, <1>2, <1>3 DEF Numbers

LEMMA JoinRank ==
    ASSUME NEW S, NEW T, NEW b, Apart(S, b, T)
    PROVE  /\ Numbers(Joined(S, b, T))
           /\ Cardinality(Joined(S, b, T)) = Cardinality(S) + Cardinality(T)
           /\ \A i \in S : Rank(Joined(S, b, T), i) = Rank(S, i)
           /\ \A t \in T : Rank(Joined(S, b, T), b + t) = Cardinality(S) + Rank(T, t)
<1> DEFINE V == Shifted(b, T)
           U == Joined(S, b, T)
<1>1. /\ Numbers(S) /\ Numbers(T) /\ b \in Nat
      /\ \A i \in S : \A t \in T : i < b + t
  BY DEF Apart
<1>2. Numbers(V) /\ Cardinality(V) = Cardinality(T)
  BY <1>1, ShiftedSize
<1>3. S \cap V = {}
  BY <1>1 DEF Shifted, Numbers
<1>4. Numbers(U) /\ Cardinality(U) = Cardinality(S) + Cardinality(T)
  BY <1>1, <1>2, <1>3, NumbersApart DEF Joined
<1>5. ASSUME NEW i \in S PROVE Rank(U, i) = Rank(S, i)
  <2>1. {j \in U : j <= i} = {j \in S : j <= i}
    BY <1>1 DEF Joined, Shifted, Numbers
  <2> QED
    BY <2>1 DEF Rank
<1>6. ASSUME NEW t \in T PROVE Rank(U, b + t) = Cardinality(S) + Rank(T, t)
  <2> DEFINE W == {j \in T : j <= t}
  <2>1. Numbers(W)
    BY <1>1, FS_Subset DEF Numbers
  <2>2. Numbers(Shifted(b, W)) /\ Cardinality(Shifted(b, W)) = Cardinality(W)
    BY <1>1, <2>1, ShiftedSize
  <2>3. {j \in U : j <= b + t} = S \cup Shifted(b, W)
    <3>1. ASSUME NEW j \in S PROVE j <= b + t
      BY <1>1, <3>1 DEF Numbers
    <3>2. ASSUME NEW j \in T PROVE b + j <= b + t <=> j <= t
      BY <1>1, <3>2 DEF Numbers
    <3> QED
      BY <3>1, <3>2 DEF Joined, Shifted
  <2>4. S \cap Shifted(b, W) = {}
    BY <1>3 DEF Shifted
  <2>5. Cardinality(S \cup Shifted(b, W)) = Cardinality(S) + Cardinality(W)
    BY <1>1, <2>2, <2>4, NumbersApart
  <2> QED
    BY <2>3, <2>5 DEF Rank
<1> QED
  BY <1>4, <1>5, <1>6

LEMMA JoinNth ==
    ASSUME NEW S, NEW T, NEW b, Apart(S, b, T)
    PROVE  /\ Cardinality(Joined(S, b, T)) = Cardinality(S) + Cardinality(T)
           /\ \A k \in 1 .. Cardinality(S) : Nth(Joined(S, b, T), k) = Nth(S, k)
           /\ \A k \in 1 .. Cardinality(T) :
                Nth(Joined(S, b, T), Cardinality(S) + k) = b + Nth(T, k)
<1> DEFINE U == Joined(S, b, T)
<1>1. /\ Numbers(U)
      /\ Cardinality(U) = Cardinality(S) + Cardinality(T)
      /\ \A i \in S : Rank(U, i) = Rank(S, i)
      /\ \A t \in T : Rank(U, b + t) = Cardinality(S) + Rank(T, t)
  BY JoinRank
<1>2. Numbers(S) /\ Numbers(T)
  BY DEF Apart
<1>3. ASSUME NEW k \in 1 .. Cardinality(S) PROVE Nth(U, k) = Nth(S, k)
  <2>1. Nth(S, k) \in U /\ Rank(U, Nth(S, k)) = k
    BY <1>1, <1>2, <1>3, NthIsThere DEF Joined
  <2> QED
    BY <1>1, <2>1, RankOfMember
<1>4. ASSUME NEW k \in 1 .. Cardinality(T) PROVE Nth(U, Cardinality(S) + k) = b + Nth(T, k)
  <2>1. Nth(T, k) \in T /\ Rank(T, Nth(T, k)) = k
    BY <1>2, <1>4, NthIsThere
  <2>2. b + Nth(T, k) \in U
    BY <2>1 DEF Joined, Shifted
  <2>3. Rank(U, b + Nth(T, k)) = Cardinality(S) + k
    BY <1>1, <2>1
  <2> QED
    BY <1>1, <2>2, <2>3, RankOfMember
<1> QED
  BY <1>1, <1>3, <1>4

\* Later ranks are later positions.
LEMMA NthGrows ==
    ASSUME NEW S, Numbers(S), NEW k \in 1 .. Cardinality(S) - 1
    PROVE  Nth(S, k) < Nth(S, k + 1)
<1>1. Cardinality(S) \in Nat
  BY FS_CardinalityType DEF Numbers
<1>2. k \in 1 .. Cardinality(S) /\ k + 1 \in 1 .. Cardinality(S)
  BY <1>1
<1> DEFINE i == Nth(S, k)
           j == Nth(S, k + 1)
<1>3. /\ i \in S /\ i \in Nat /\ Rank(S, i) = k
      /\ j \in S /\ j \in Nat /\ Rank(S, j) = k + 1
  BY <1>2, NthIsThere
<1> HIDE DEF i, j
<1>4. i # j /\ ~(j < i)
  <2>1. j < i => k + 1 < k
    BY <1>3, RankGrows
  <2> QED
    BY <1>1, <1>3, <2>1
<1>5. i < j
  BY <1>3, <1>4
<1> QED
  BY <1>5 DEF i, j

\* What is selected are the elements at the positions, in their order.
LEMMA SelectedFacts ==
    ASSUME NEW L, NEW seq \in Seq(L), NEW S, Numbers(S), S \subseteq 1 .. Len(seq)
    PROVE  /\ Cardinality(S) \in Nat
           /\ Selected(seq, S) \in Seq(L)
           /\ Len(Selected(seq, S)) = Cardinality(S)
           /\ \A k \in 1 .. Cardinality(S) : Nth(S, k) \in 1 .. Len(seq)
<1> DEFINE chosen == Selected(seq, S)
<1>1. Cardinality(S) \in Nat
  BY FS_CardinalityType DEF Numbers
<1>2. chosen = [k \in 1 .. Cardinality(S) |-> seq[Nth(S, k)]]
  BY DEF Selected
<1> HIDE DEF chosen
<1>3. ASSUME NEW k \in 1 .. Cardinality(S) PROVE Nth(S, k) \in 1 .. Len(seq)
  <2>1. Nth(S, k) \in S
    BY NthIsThere
  <2> QED
    BY <2>1
<1>4. ASSUME NEW k \in 1 .. Cardinality(S) PROVE chosen[k] = seq[Nth(S, k)] /\ chosen[k] \in L
  BY <1>2, <1>3, ElementOfSeq
<1>5. chosen \in [1 .. Cardinality(S) -> L]
  BY <1>2, <1>4
<1>6. chosen \in Seq(L) /\ Len(chosen) = Cardinality(S)
  BY <1>1, <1>5
<1> QED
  BY <1>1, <1>3, <1>4, <1>6 DEF chosen

-----------------------------------------------------------------------------
(* Lines.                                                                  *)

Pieces == Fragments \cup {Newline}
Texted(parts) == {i \in DOMAIN parts : parts[i] \in LinesWithText}

LEMMA TextsFacts ==
    ASSUME NEW parts \in Seq(Seq(Pieces))
    PROVE  /\ Numbers(Texted(parts)) /\ Cardinality(Texted(parts)) \in Nat
           /\ Texted(parts) \subseteq 1 .. Len(parts)
           /\ TextsOf(parts) \in Seq(Seq(Pieces))
           /\ Len(TextsOf(parts)) = Cardinality(Texted(parts))
           /\ \A k \in 1 .. Cardinality(Texted(parts)) :
                /\ Nth(Texted(parts), k) \in 1 .. Len(parts)
                /\ TextsOf(parts)[k] = parts[Nth(Texted(parts), k)]
<1> DEFINE S == Texted(parts)
<1>1. IsFiniteSet(1 .. Len(parts))
  BY FS_Interval
<1>2. S \in SUBSET (1 .. Len(parts))
  <2>1. DOMAIN parts = 1 .. Len(parts)
    OBVIOUS
  <2> QED
    BY <2>1 DEF Texted
<1>3. Numbers(S)
  BY <1>1, <1>2, FS_Subset DEF Numbers
<1>4. TextsOf(parts) = Selected(parts, S)
  BY DEF TextsOf, Texted
<1> HIDE DEF S
<1>5. S \subseteq 1 .. Len(parts)
  BY <1>2
<1>6. /\ Cardinality(S) \in Nat
      /\ Selected(parts, S) \in Seq(Seq(Pieces))
      /\ Len(Selected(parts, S)) = Cardinality(S)
      /\ \A k \in 1 .. Cardinality(S) : Nth(S, k) \in 1 .. Len(parts)
  BY <1>3, <1>5, SelectedFacts
<1>7. \A k \in 1 .. Cardinality(S) : Selected(parts, S)[k] = parts[Nth(S, k)]
  BY DEF Selected
<1> QED
  BY <1>3, <1>4, <1>5, <1>6, <1>7 DEF S

\* The texts of lines, one part after the other.
LEMMA TextsJoin ==
    ASSUME NEW s \in Seq(Seq(Pieces)), NEW t \in Seq(Seq(Pieces))
    PROVE  TextsOf(s \o t) = TextsOf(s) \o TextsOf(t)
<1> DEFINE S == Texted(s)
           T == Texted(t)
           n == Len(s)
           U == Texted(s \o t)
<1>1. /\ Numbers(S) /\ Cardinality(S) \in Nat
      /\ Numbers(T) /\ Cardinality(T) \in Nat
  BY TextsFacts
<1>2. /\ n \in Nat /\ Len(t) \in Nat /\ s \o t \in Seq(Seq(Pieces))
      /\ Len(s \o t) = n + Len(t)
      /\ \A i \in 1 .. n : (s \o t)[i] = s[i]
      /\ \A i \in 1 .. Len(t) : (s \o t)[n + i] = t[i]
  OBVIOUS
<1>3. Apart(S, n, T)
  BY <1>1, <1>2 DEF Apart, Texted
<1>4. U = Joined(S, n, T)
  <2>1. ASSUME NEW i \in U PROVE i \in Joined(S, n, T)
    <3>1. CASE i \in 1 .. n
      BY <1>2, <2>1, <3>1 DEF Texted, Joined
    <3>2. CASE i \notin 1 .. n
      <4>1. i - n \in 1 .. Len(t) /\ i = n + (i - n)
        BY <1>2, <2>1, <3>2 DEF Texted
      <4>2. (s \o t)[i] = t[i - n]
        BY <1>2, <4>1
      <4>3. i - n \in T
        BY <2>1, <4>1, <4>2 DEF Texted
      <4> QED
        BY <4>1, <4>3 DEF Joined, Shifted
    <3> QED
      BY <3>1, <3>2
  <2>2. ASSUME NEW i \in S PROVE i \in U
    BY <1>2, <2>2 DEF Texted
  <2>3. ASSUME NEW i \in T PROVE n + i \in U
    BY <1>2, <2>3 DEF Texted
  <2> QED
    BY <2>1, <2>2, <2>3 DEF Joined, Shifted
<1>5. /\ Cardinality(U) = Cardinality(S) + Cardinality(T)
      /\ \A k \in 1 .. Cardinality(S) : Nth(U, k) = Nth(S, k)
      /\ \A k \in 1 .. Cardinality(T) : Nth(U, Cardinality(S) + k) = n + Nth(T, k)
  BY <1>3, <1>4, JoinNth
<1> DEFINE left == TextsOf(s \o t)
           x == TextsOf(s)
           y == TextsOf(t)
<1>6. /\ x \in Seq(Seq(Pieces)) /\ Len(x) = Cardinality(S)
      /\ \A k \in 1 .. Cardinality(S) : Nth(S, k) \in 1 .. n /\ x[k] = s[Nth(S, k)]
  BY TextsFacts
<1>7. /\ y \in Seq(Seq(Pieces)) /\ Len(y) = Cardinality(T)
      /\ \A k \in 1 .. Cardinality(T) : Nth(T, k) \in 1 .. Len(t) /\ y[k] = t[Nth(T, k)]
  BY TextsFacts
<1>8. /\ left \in Seq(Seq(Pieces)) /\ Len(left) = Cardinality(U)
      /\ \A k \in 1 .. Cardinality(U) : left[k] = (s \o t)[Nth(U, k)]
  BY <1>2, TextsFacts
<1> HIDE DEF S, T, U, left, x, y
<1>9. /\ x \o y \in Seq(Seq(Pieces)) /\ Len(x \o y) = Cardinality(S) + Cardinality(T)
      /\ \A k \in 1 .. Cardinality(S) : (x \o y)[k] = x[k]
      /\ \A k \in 1 .. Cardinality(T) : (x \o y)[Cardinality(S) + k] = y[k]
  <2> DEFINE p == Cardinality(S)
             q == Cardinality(T)
  <2>1. p \in Nat /\ q \in Nat /\ Len(x) = p /\ Len(y) = q
    BY <1>1, <1>6, <1>7
  <2> HIDE DEF p, q
  <2>2. /\ x \o y \in Seq(Seq(Pieces)) /\ Len(x \o y) = p + q
        /\ \A k \in 1 .. p + q : (x \o y)[k] = IF k <= p THEN x[k] ELSE y[k - p]
    BY <1>6, <1>7, <2>1, ConcatProperties
  <2>3. \A k \in 1 .. p : (x \o y)[k] = x[k]
    BY <2>1, <2>2
  <2>4. ASSUME NEW k \in 1 .. q PROVE (x \o y)[p + k] = y[k]
    <3> DEFINE i == p + k
    <3>1. i \in 1 .. p + q /\ ~(i <= p) /\ i - p = k
      BY <2>1
    <3> HIDE DEF i
    <3>2. (x \o y)[i] = y[i - p]
      BY <2>2, <3>1
    <3> QED
      BY <3>1, <3>2 DEF i
  <2> QED
    BY <2>2, <2>3, <2>4 DEF p, q
<1> HIDE DEF n
<1>10. ASSUME NEW k \in 1 .. Cardinality(S) PROVE left[k] = (x \o y)[k]
  <2>1. k \in 1 .. Cardinality(U)
    BY <1>1, <1>5
  <2>2. left[k] = s[Nth(S, k)]
    BY <1>2, <1>5, <1>6, <1>8, <2>1
  <2> QED
    BY <1>6, <1>9, <2>2
<1>11. ASSUME NEW k \in 1 .. Cardinality(T)
       PROVE  left[Cardinality(S) + k] = (x \o y)[Cardinality(S) + k]
  <2>1. Cardinality(S) + k \in 1 .. Cardinality(U)
    BY <1>1, <1>5
  <2>2. left[Cardinality(S) + k] = (s \o t)[n + Nth(T, k)] /\ Nth(T, k) \in 1 .. Len(t)
    BY <1>5, <1>7, <1>8, <2>1
  <2>3. left[Cardinality(S) + k] = t[Nth(T, k)]
    BY <1>2, <2>2
  <2>4. (x \o y)[Cardinality(S) + k] = t[Nth(T, k)]
    <3>1. (x \o y)[Cardinality(S) + k] = y[k]
      BY <1>9, Zenon
    <3>2. y[k] = t[Nth(T, k)]
      BY <1>7, Zenon
    <3> QED
      BY <3>1, <3>2, Zenon
  <2> QED
    BY <2>3, <2>4, Zenon
<1>12. ASSUME NEW k \in 1 .. Len(left) PROVE left[k] = (x \o y)[k]
  <2>1. k \in 1 .. Cardinality(S) \/ k - Cardinality(S) \in 1 .. Cardinality(T)
    BY <1>1, <1>5, <1>8
  <2>2. CASE k - Cardinality(S) \in 1 .. Cardinality(T)
    <3>1. k = Cardinality(S) + (k - Cardinality(S))
      BY <1>1
    <3> QED
      BY <1>11, <2>2, <3>1
  <2> QED
    BY <1>10, <2>1, <2>2
<1>13. left = x \o y
  BY <1>5, <1>8, <1>9, <1>12, SeqEqual
<1> QED
  BY <1>13 DEF left, x, y

LEMMA EndsFacts ==
    ASSUME NEW a \in Seq(Pieces)
    PROVE  /\ Numbers(Ends(a)) /\ Ends(a) \subseteq 0 .. Len(a) + 1
           /\ Cardinality(Ends(a)) \in Nat /\ Cardinality(Ends(a)) >= 2
           /\ Nth(Ends(a), 1) = 0
           /\ Nth(Ends(a), Cardinality(Ends(a))) = Len(a) + 1
<1> DEFINE E == Ends(a)
           n == Len(a)
<1>1. n \in Nat /\ DOMAIN a = 1 .. n
  OBVIOUS
<1>2. E \in SUBSET (0 .. n + 1) /\ 0 \in E /\ n + 1 \in E
  BY <1>1 DEF Ends
<1>3. IsFiniteSet(0 .. n + 1)
  BY <1>1, FS_Interval
<1>4. Numbers(E) /\ Cardinality(E) \in Nat
  BY <1>1, <1>2, <1>3, FS_Subset, FS_CardinalityType DEF Numbers
<1> HIDE DEF E, n
<1>5. Rank(E, 0) = 1
  <2>1. \A j \in E : j <= 0 <=> j = 0
    BY <1>1, <1>2
  <2>2. {j \in E : j <= 0} = {0}
    BY <1>2, <2>1
  <2> QED
    BY <2>2, FS_Singleton DEF Rank
<1>6. Rank(E, n + 1) = Cardinality(E)
  <2>1. \A j \in E : j <= n + 1
    BY <1>1, <1>2
  <2>2. {j \in E : j <= n + 1} = E
    BY <2>1
  <2> QED
    BY <2>2 DEF Rank
<1>7. Cardinality(E) >= 2
  <2>1. 0 < n + 1 /\ 0 \in Nat
    BY <1>1
  <2>2. Rank(E, 0) < Rank(E, n + 1)
    BY <1>2, <1>4, <2>1, RankGrows
  <2> QED
    BY <1>4, <1>5, <1>6, <2>2
<1>8. Nth(E, 1) = 0 /\ Nth(E, Cardinality(E)) = n + 1
  BY <1>2, <1>4, <1>5, <1>6, RankOfMember
<1> QED
  BY <1>2, <1>4, <1>7, <1>8 DEF E, n

\* The lines of a text are parts of it.
LEMMA SplitFacts ==
    ASSUME NEW a \in Seq(Pieces)
    PROVE  /\ Split(a) \in Seq(Seq(Pieces))
           /\ Len(Split(a)) = Cardinality(Ends(a)) - 1
           /\ Cardinality(Ends(a)) - 1 \in Nat \ {0}
           /\ \A k \in 1 .. Cardinality(Ends(a)) - 1 :
                /\ Nth(Ends(a), k) \in 0 .. Len(a)
                /\ Nth(Ends(a), k + 1) \in 1 .. Len(a) + 1
                /\ Split(a)[k] = SubSeq(a, Nth(Ends(a), k) + 1, Nth(Ends(a), k + 1) - 1)
<1> DEFINE E == Ends(a)
           n == Len(a)
           m == Cardinality(E) - 1
           parts == Split(a)
<1>1. /\ Numbers(E) /\ E \subseteq 0 .. n + 1 /\ n \in Nat
      /\ m \in Nat \ {0} /\ Cardinality(E) = m + 1
  BY EndsFacts
<1>2. parts = [k \in 1 .. m |-> SubSeq(a, Nth(E, k) + 1, Nth(E, k + 1) - 1)]
  BY DEF Split
<1> HIDE DEF E, n, m, parts
<1>3. ASSUME NEW k \in 1 .. m
      PROVE  /\ Nth(E, k) \in 0 .. n /\ Nth(E, k + 1) \in 1 .. n + 1
             /\ SubSeq(a, Nth(E, k) + 1, Nth(E, k + 1) - 1) \in Seq(Pieces)
  <2>1. k \in 1 .. Cardinality(E) /\ k + 1 \in 1 .. Cardinality(E) /\ k \in 1 .. Cardinality(E) - 1
    BY <1>1
  <2> DEFINE i == Nth(E, k)
             j == Nth(E, k + 1)
  <2>2. i \in E /\ j \in E /\ i < j
    BY <1>1, <2>1, NthIsThere, NthGrows
  <2> HIDE DEF i, j
  <2>3. i \in 0 .. n /\ j \in 1 .. n + 1
    BY <1>1, <2>2
  <2>4. \A x \in i + 1 .. j - 1 : a[x] \in Pieces
    <3>1. \A x \in i + 1 .. j - 1 : x \in 1 .. n
      BY <1>1, <2>3
    <3> QED
      BY <3>1, ElementOfSeq DEF n
  <2>5. SubSeq(a, i + 1, j - 1) \in Seq(Pieces)
    <3>1. i + 1 \in Int /\ j - 1 \in Int
      BY <1>1, <2>3
    <3> QED
      BY <2>4, <3>1, SubSeqProperties
  <2> QED
    BY <2>3, <2>5 DEF i, j
<1>4. parts \in [1 .. m -> Seq(Pieces)]
  BY <1>2, <1>3
<1>5. parts \in Seq(Seq(Pieces)) /\ Len(parts) = m
  BY <1>1, <1>4
<1>6. \A k \in 1 .. m : parts[k] = SubSeq(a, Nth(E, k) + 1, Nth(E, k + 1) - 1)
  BY <1>2
<1> QED
  BY <1>1, <1>3, <1>5, <1>6 DEF E, n, m, parts

\* Where the unfinished line of a text starts: after its last newline.
Mark(a) == Nth(Ends(a), Cardinality(Ends(a)) - 1)
BeforeMark(a) == {i \in Ends(a) : i < Mark(a)}

LEMMA MarkFacts ==
    ASSUME NEW a \in Seq(Pieces)
    PROVE  /\ Mark(a) \in 0 .. Len(a) /\ Mark(a) \in Ends(a)
           /\ \A i \in Ends(a) : i > Mark(a) => i = Len(a) + 1
           /\ Rest(Split(a)) = SubSeq(a, Mark(a) + 1, Len(a))
           /\ Numbers(BeforeMark(a)) /\ Cardinality(BeforeMark(a)) = Cardinality(Ends(a)) - 2
           /\ Ends(a) = Joined(BeforeMark(a), Mark(a), {0, Len(a) + 1 - Mark(a)})
           /\ Numbers({0, Len(a) + 1 - Mark(a)})
           /\ Apart(BeforeMark(a), Mark(a), {0, Len(a) + 1 - Mark(a)})
<1> DEFINE E == Ends(a)
           n == Len(a)
           p == Mark(a)
           S == BeforeMark(a)
           T == {0, n + 1 - p}
<1>1. /\ Numbers(E) /\ E \subseteq 0 .. n + 1 /\ n \in Nat
      /\ Cardinality(E) \in Nat /\ Cardinality(E) >= 2
      /\ Nth(E, Cardinality(E)) = n + 1
  BY EndsFacts
<1>2. /\ Split(a) \in Seq(Seq(Pieces)) /\ Len(Split(a)) = Cardinality(E) - 1
      /\ \A k \in 1 .. Cardinality(E) - 1 :
           Nth(E, k) \in 0 .. n /\ Split(a)[k] = SubSeq(a, Nth(E, k) + 1, Nth(E, k + 1) - 1)
  BY SplitFacts
<1>3. p = Nth(E, Cardinality(E) - 1) /\ S = {i \in E : i < p}
  BY DEF Mark, BeforeMark
<1>4. Rest(Split(a)) = Split(a)[Cardinality(E) - 1]
  BY <1>2 DEF Rest
<1> HIDE DEF E, p, S
<1>5. Cardinality(E) - 1 \in 1 .. Cardinality(E) - 1 /\ Cardinality(E) - 1 \in 1 .. Cardinality(E)
      /\ Cardinality(E) \in 1 .. Cardinality(E)
      /\ (Cardinality(E) - 1) + 1 = Cardinality(E)
  BY <1>1
<1>6. p \in E /\ p \in 0 .. n /\ Rank(E, p) = Cardinality(E) - 1
  BY <1>1, <1>2, <1>3, <1>5, NthIsThere
<1>7. Split(a)[Cardinality(E) - 1] = SubSeq(a, p + 1, n)
  <2>1. Split(a)[Cardinality(E) - 1] = SubSeq(a, p + 1, Nth(E, Cardinality(E)) - 1)
    BY <1>2, <1>3, <1>5
  <2>2. Nth(E, Cardinality(E)) - 1 = n
    BY <1>1
  <2> QED
    BY <2>1, <2>2
<1>8. n + 1 \in E /\ Rank(E, n + 1) = Cardinality(E)
  BY <1>1, <1>5, NthIsThere
<1>9. ASSUME NEW i \in E, i > p PROVE i = n + 1
  <2>1. i \in Nat /\ p \in Nat
    BY <1>1, <1>6
  <2>2. Rank(E, p) < Rank(E, i)
    BY <1>1, <1>9, <2>1, RankGrows
  <2>3. Rank(E, i) = Cardinality(E)
    BY <1>1, <1>6, <2>1, <2>2, RankType
  <2> QED
    BY <1>1, <1>8, <2>3, RankOfMember
<1>10. E = Joined(S, p, T)
  <2>1. p \in Nat /\ p + 0 = p /\ p + (n + 1 - p) = n + 1
    BY <1>1, <1>6
  <2>2. Shifted(p, T) = {p, n + 1}
    BY <2>1 DEF Shifted
  <2>3. ASSUME NEW i \in E PROVE i < p \/ i = p \/ i = n + 1
    BY <1>1, <1>9, <2>1, <2>3
  <2> QED
    BY <1>3, <1>6, <1>8, <2>2, <2>3 DEF Joined
<1>11. Numbers(S)
  BY <1>1, <1>3, FS_Subset DEF Numbers
<1>12. Numbers(T) /\ Cardinality(T) = 2
  <2>1. n + 1 - p \in Nat /\ n + 1 - p # 0
    BY <1>1, <1>6
  <2> DEFINE A == {0}
             B == {n + 1 - p}
  <2>2. Numbers(A) /\ Numbers(B) /\ Cardinality(A) = 1 /\ Cardinality(B) = 1
    <3>1. IsFiniteSet(A) /\ IsFiniteSet(B) /\ Cardinality(A) = 1 /\ Cardinality(B) = 1
      BY FS_Singleton, Zenon
    <3>2. A \in SUBSET Nat /\ B \in SUBSET Nat
      BY <2>1
    <3> QED
      BY <3>1, <3>2 DEF Numbers
  <2>3. T = A \cup B /\ A \cap B = {}
    BY <2>1
  <2> HIDE DEF A, B
  <2>4. Numbers(A \cup B) /\ Cardinality(A \cup B) = 2
    BY <2>2, <2>3, NumbersApart
  <2> QED
    BY <2>3, <2>4
<1>13. Apart(S, p, T)
  <2>1. \A i \in S : i \in Nat /\ i < p
    BY <1>1, <1>3
  <2>2. p \in Nat /\ \A t \in T : p <= p + t
    BY <1>1, <1>6
  <2>3. ASSUME NEW i \in S, NEW t \in T PROVE i < p + t
    <3>1. t \in Nat
      BY <1>12 DEF Numbers
    <3> QED
      BY <2>1, <2>2, <3>1
  <2> QED
    BY <1>11, <1>12, <2>2, <2>3 DEF Apart
<1>14. Cardinality(S) = Cardinality(E) - 2
  <2>1. Cardinality(E) = Cardinality(S) + 2
    BY <1>10, <1>12, <1>13, JoinNth
  <2>2. Cardinality(S) \in Nat
    BY <1>11, FS_CardinalityType DEF Numbers
  <2> QED
    BY <2>1, <2>2
<1> QED
  BY <1>4, <1>6, <1>7, <1>9, <1>10, <1>11, <1>12, <1>13, <1>14 DEF E, p, S

\* A text that goes on: the unfinished line and what follows it.
Onward(a, b) == Rest(Split(a)) \o b

LEMMA OnwardFacts ==
    ASSUME NEW a \in Seq(Pieces), NEW b \in Seq(Pieces)
    PROVE  /\ Mark(a) \in 0 .. Len(a)
           /\ Onward(a, b) \in Seq(Pieces)
           /\ Mark(a) + Len(Onward(a, b)) = Len(a) + Len(b)
           /\ a \o b \in Seq(Pieces) /\ Len(a \o b) = Len(a) + Len(b)
           /\ \A i \in 1 .. Len(a) : (a \o b)[i] = a[i]
           /\ \A i \in 1 .. Len(Onward(a, b)) : Onward(a, b)[i] = (a \o b)[Mark(a) + i]
<1> DEFINE n == Len(a)
           p == Mark(a)
           r == SubSeq(a, p + 1, n)
           c == Onward(a, b)
           ab == a \o b
           m == n - p + Len(b)
<1>1. /\ n \in Nat /\ Len(b) \in Nat /\ p \in 0 .. n
      /\ Rest(Split(a)) = r
  <2>1. Mark(a) \in 0 .. Len(a) /\ Rest(Split(a)) = SubSeq(a, Mark(a) + 1, Len(a))
    BY MarkFacts
  <2>2. Len(a) \in Nat /\ Len(b) \in Nat
    OBVIOUS
  <2> QED
    BY <2>1, <2>2, Zenon
<1>2. /\ r \in Seq(Pieces) /\ Len(r) = n - p
      /\ \A i \in 1 .. n - p : r[i] = a[p + i]
  <2>1. p + 1 \in Int /\ n \in Int /\ p + 1 .. n \subseteq 1 .. n
    BY <1>1
  <2>2. \A i \in p + 1 .. n : a[i] \in Pieces
    BY <2>1, ElementOfSeq
  <2>3. /\ SubSeq(a, p + 1, n) \in Seq(Pieces)
        /\ Len(SubSeq(a, p + 1, n)) = IF p + 1 <= n THEN n - (p + 1) + 1 ELSE 0
        /\ \A i \in 1 .. n - (p + 1) + 1 : SubSeq(a, p + 1, n)[i] = a[p + 1 + i - 1]
    BY <2>1, <2>2, SubSeqProperties
  <2> HIDE DEF p, n
  <2>4. Len(SubSeq(a, p + 1, n)) = n - p /\ n - (p + 1) + 1 = n - p
    BY <1>1, <2>3
  <2>5. ASSUME NEW i \in 1 .. n - p PROVE SubSeq(a, p + 1, n)[i] = a[p + i]
    <3>1. p + 1 + i - 1 = p + i
      BY <1>1
    <3> QED
      BY <2>3, <2>4, <3>1
  <2> QED
    BY <2>3, <2>4, <2>5
<1>3. c = r \o b
  BY <1>1 DEF Onward
<1> HIDE DEF p, c, r
<1>4. /\ c \in Seq(Pieces) /\ Len(c) = m
      /\ \A i \in 1 .. n - p : c[i] = r[i]
      /\ \A i \in 1 .. Len(b) : c[(n - p) + i] = b[i]
  <2> DEFINE e == r \o b
  <2>1. /\ e \in Seq(Pieces) /\ Len(e) = Len(r) + Len(b)
        /\ \A i \in 1 .. Len(r) + Len(b) : e[i] = IF i <= Len(r) THEN r[i] ELSE b[i - Len(r)]
    BY <1>2, ConcatProperties
  <2>2. n - p \in Nat /\ Len(r) = n - p
    BY <1>1, <1>2
  <2> HIDE DEF e
  <2>3. \A i \in 1 .. n - p : e[i] = r[i]
    BY <1>1, <2>1, <2>2
  <2>4. ASSUME NEW i \in 1 .. Len(b) PROVE e[(n - p) + i] = b[i]
    <3> DEFINE k == (n - p) + i
    <3>1. k \in 1 .. Len(r) + Len(b) /\ ~(k <= Len(r)) /\ k - Len(r) = i
      BY <1>1, <2>2
    <3> HIDE DEF k
    <3>2. e[k] = b[k - Len(r)]
      BY <2>1, <3>1
    <3> QED
      BY <3>1, <3>2 DEF k
  <2> QED
    BY <1>3, <2>1, <2>2, <2>3, <2>4 DEF e
<1>5. /\ ab \in Seq(Pieces) /\ Len(ab) = n + Len(b)
      /\ \A i \in 1 .. n : ab[i] = a[i]
      /\ \A i \in 1 .. Len(b) : ab[n + i] = b[i]
  OBVIOUS
<1> HIDE DEF n, ab
<1>6. ASSUME NEW i \in 1 .. m PROVE c[i] = ab[p + i]
  <2>1. CASE i \in 1 .. n - p
    <3>1. p + i \in 1 .. n
      BY <1>1, <2>1
    <3>2. c[i] = a[p + i]
      BY <1>2, <1>4, <2>1
    <3>3. ab[p + i] = a[p + i]
      BY <1>5, <3>1
    <3> QED
      BY <3>2, <3>3
  <2>2. CASE i \notin 1 .. n - p
    <3> DEFINE j == i - (n - p)
    <3>1. j \in 1 .. Len(b) /\ i = (n - p) + j /\ p + i = n + j
      BY <1>1, <2>2
    <3> HIDE DEF j
    <3>2. c[(n - p) + j] = b[j] /\ ab[n + j] = b[j]
      BY <1>4, <1>5, <3>1
    <3> QED
      BY <3>1, <3>2
  <2> QED
    BY <2>1, <2>2
<1>7. p + Len(c) = n + Len(b)
  BY <1>1, <1>4
<1> QED
  BY <1>1, <1>4, <1>5, <1>6, <1>7 DEF p, c, n, ab

LEMMA EndsJoin ==
    ASSUME NEW a \in Seq(Pieces), NEW b \in Seq(Pieces)
    PROVE  /\ Ends(a \o b) = Joined(BeforeMark(a), Mark(a), Ends(Onward(a, b)))
           /\ Apart(BeforeMark(a), Mark(a), Ends(Onward(a, b)))
<1> DEFINE n == Len(a)
           p == Mark(a)
           S == BeforeMark(a)
           E == Ends(a)
           c == Onward(a, b)
           ab == a \o b
           C == Ends(c)
           U == Ends(ab)
<1>1. /\ n \in Nat /\ p \in 0 .. n /\ p \in E
      /\ \A i \in E : i > p => i = n + 1
      /\ Numbers(S)
  <2>1. n \in Nat
    OBVIOUS
  <2>2. /\ Mark(a) \in 0 .. Len(a) /\ Mark(a) \in Ends(a)
        /\ \A i \in Ends(a) : i > Mark(a) => i = Len(a) + 1
        /\ Numbers(BeforeMark(a))
    BY MarkFacts
  <2> QED
    BY <2>1, <2>2, Zenon
<1>2. /\ c \in Seq(Pieces) /\ p + Len(c) = Len(ab)
      /\ ab \in Seq(Pieces) /\ Len(ab) >= n
      /\ \A i \in 1 .. n : ab[i] = a[i]
      /\ \A i \in 1 .. Len(c) : c[i] = ab[p + i]
      /\ Len(c) \in Nat /\ Len(ab) \in Nat
  BY OnwardFacts
<1>3. /\ \A i : i \in E <=> i = 0 \/ i = n + 1 \/ (i \in 1 .. n /\ a[i] = Newline)
      /\ \A i : i \in C <=> i = 0 \/ i = Len(c) + 1 \/ (i \in 1 .. Len(c) /\ c[i] = Newline)
      /\ \A i : i \in U <=> i = 0 \/ i = Len(ab) + 1 \/ (i \in 1 .. Len(ab) /\ ab[i] = Newline)
  BY <1>2 DEF Ends
<1>4. \A i : i \in S <=> i \in E /\ i < p
  BY DEF BeforeMark
<1>5. Numbers(C)
  BY <1>2, EndsFacts
<1> HIDE DEF n, p, S, E, c, ab, C, U
<1>6. Apart(S, p, C)
  <2>1. \A i \in S : i \in Nat /\ i < p
    BY <1>1, <1>4 DEF Numbers
  <2>2. \A i \in C : i \in Nat
    BY <1>5 DEF Numbers
  <2> QED
    BY <1>1, <1>5, <2>1, <2>2 DEF Apart
<1>7. ASSUME NEW i \in S PROVE i \in U
  <2>1. i \in E /\ i < p /\ i \in Nat
    BY <1>1, <1>4 DEF Numbers
  <2>2. i # n + 1
    BY <1>1, <2>1
  <2>3. i = 0 \/ (i \in 1 .. n /\ a[i] = Newline)
    BY <1>3, <2>1, <2>2
  <2>4. 1 .. n \subseteq 1 .. Len(ab)
    BY <1>1, <1>2
  <2>5. ASSUME i \in 1 .. n, a[i] = Newline PROVE i \in 1 .. Len(ab) /\ ab[i] = Newline
    BY <1>2, <2>4, <2>5
  <2> QED
    BY <1>3, <2>3, <2>5
<1>8. p \in U
  <2>1. p \in Nat /\ p # n + 1
    BY <1>1
  <2>2. p = 0 \/ (p \in 1 .. n /\ a[p] = Newline)
    BY <1>1, <1>3, <2>1
  <2>3. 1 .. n \subseteq 1 .. Len(ab)
    BY <1>1, <1>2
  <2>4. ASSUME p \in 1 .. n, a[p] = Newline PROVE p \in 1 .. Len(ab) /\ ab[p] = Newline
    BY <1>2, <2>3, <2>4
  <2> QED
    BY <1>3, <2>2, <2>4
<1>9. ASSUME NEW i \in C PROVE p + i \in U
  <2>1. CASE i = 0
    <3>1. p + 0 = p
      BY <1>1
    <3> QED
      BY <1>8, <2>1, <3>1
  <2>2. CASE i = Len(c) + 1
    <3> DEFINE x == Len(c)
               y == Len(ab)
    <3>1. p \in Nat /\ x \in Nat /\ y \in Nat /\ p + x = y /\ i = x + 1
      BY <1>1, <1>2, <2>2
    <3> HIDE DEF x, y
    <3>2. p + i = y + 1
      BY <3>1
    <3> QED
      BY <1>3, <3>2 DEF y
  <2>3. CASE i \in 1 .. Len(c) /\ c[i] = Newline
    <3>1. p + i \in 1 .. Len(ab)
      BY <1>1, <1>2, <2>3
    <3>2. ab[p + i] = Newline
      BY <1>2, <2>3
    <3> QED
      BY <1>3, <3>1, <3>2
  <2> QED
    BY <1>3, <2>1, <2>2, <2>3
<1>10. ASSUME NEW i \in U PROVE i \in S \/ (\E j \in C : i = p + j)
  <2>1. i \in Nat
    BY <1>2, <1>3
  <2>2. CASE i < p
    <3>1. i # Len(ab) + 1
      BY <1>1, <1>2, <2>2
    <3>2. i = 0 \/ (i \in 1 .. Len(ab) /\ ab[i] = Newline)
      BY <1>3, <1>10, <3>1
    <3>3. i \in 1 .. Len(ab) => i \in 1 .. n
      BY <1>1, <2>1, <2>2
    <3>4. ASSUME i \in 1 .. Len(ab), ab[i] = Newline PROVE i \in 1 .. n /\ a[i] = Newline
      BY <1>2, <3>3, <3>4
    <3>5. i \in E
      BY <1>3, <3>2, <3>4
    <3> QED
      BY <1>4, <2>2, <3>5
  <2>3. CASE i >= p
    <3> DEFINE j == i - p
    <3>1. j \in Nat /\ i = p + j
      BY <1>1, <2>1, <2>3
    <3> HIDE DEF j
    <3>2. j \in C
      <4>1. CASE j = 0
        BY <1>3, <4>1
      <4>2. CASE i = Len(ab) + 1
        <5>1. j = Len(c) + 1
          BY <1>1, <1>2, <3>1, <4>2
        <5> QED
          BY <1>3, <5>1
      <4>3. CASE j # 0 /\ i # Len(ab) + 1
        <5>1. i # 0
          BY <1>1, <3>1, <4>3
        <5>2. i \in 1 .. Len(ab) /\ ab[i] = Newline
          BY <1>3, <1>10, <4>3, <5>1
        <5>3. j \in 1 .. Len(c)
          BY <1>1, <1>2, <3>1, <4>3, <5>2
        <5>4. c[j] = Newline
          BY <1>2, <3>1, <5>2, <5>3
        <5> QED
          BY <1>3, <5>3, <5>4
      <4> QED
        BY <4>1, <4>2, <4>3
    <3> QED
      BY <3>1, <3>2
  <2> QED
    BY <1>1, <2>1, <2>2, <2>3
<1>11. U = Joined(S, p, C)
  BY <1>7, <1>9, <1>10 DEF Joined, Shifted
<1> QED
  BY <1>6, <1>11 DEF p, S, C, U, c, ab

\* Parts of equal places of two texts are equal.
LEMMA SamePart ==
    ASSUME NEW x \in Seq(Pieces), NEW y \in Seq(Pieces), NEW d \in Nat,
           NEW i \in Nat, NEW j \in Nat, i >= 1,
           \A k \in i .. j : k \in 1 .. Len(x) /\ d + k \in 1 .. Len(y) /\ x[k] = y[d + k]
    PROVE  SubSeq(y, d + i, d + j) = SubSeq(x, i, j)
<1>1. \A k \in i .. j : x[k] \in Pieces
  BY ElementOfSeq
<1>2. \A k \in d + i .. d + j : y[k] \in Pieces
  <2>1. ASSUME NEW k \in d + i .. d + j PROVE y[k] \in Pieces
    <3>1. k - d \in i .. j /\ d + (k - d) = k
      OBVIOUS
    <3>2. k \in 1 .. Len(y)
      BY <3>1
    <3> QED
      BY <3>2, ElementOfSeq
  <2> QED
    BY <2>1
<1> DEFINE u == SubSeq(x, i, j)
           v == SubSeq(y, d + i, d + j)
<1>3. /\ u \in Seq(Pieces) /\ Len(u) = IF i <= j THEN j - i + 1 ELSE 0
      /\ \A k \in 1 .. j - i + 1 : u[k] = x[i + k - 1]
  BY <1>1, SubSeqProperties
<1>4. /\ v \in Seq(Pieces) /\ Len(v) = IF d + i <= d + j THEN (d + j) - (d + i) + 1 ELSE 0
      /\ \A k \in 1 .. (d + j) - (d + i) + 1 : v[k] = y[d + i + k - 1]
  BY <1>2, SubSeqProperties
<1> HIDE DEF u, v
<1>5. Len(u) = Len(v) /\ (d + j) - (d + i) + 1 = j - i + 1
  BY <1>3, <1>4
<1>6. ASSUME NEW k \in 1 .. Len(u) PROVE v[k] = u[k]
  <2>1. k \in 1 .. j - i + 1 /\ i + k - 1 \in i .. j /\ d + i + k - 1 = d + (i + k - 1)
    BY <1>3
  <2>2. u[k] = x[i + k - 1] /\ v[k] = y[d + i + k - 1]
    BY <1>3, <1>4, <1>5, <2>1
  <2>3. x[i + k - 1] = y[d + (i + k - 1)]
    BY <2>1
  <2> QED
    BY <2>1, <2>2, <2>3
<1>7. u = v
  BY <1>3, <1>4, <1>5, <1>6, SeqEqual
<1> QED
  BY <1>7 DEF u, v

LEMMA SameHere ==
    ASSUME NEW x \in Seq(Pieces), NEW y \in Seq(Pieces), NEW i \in Nat, NEW j \in Nat, i >= 1,
           \A k \in i .. j : k \in 1 .. Len(x) /\ k \in 1 .. Len(y) /\ x[k] = y[k]
    PROVE  SubSeq(y, i, j) = SubSeq(x, i, j)
<1>1. PICK d \in Nat : d = 0
  OBVIOUS
<1>2. d + i = i /\ d + j = j
  BY <1>1
<1>3. \A k \in i .. j : k \in 1 .. Len(x) /\ d + k \in 1 .. Len(y) /\ x[k] = y[d + k]
  BY <1>1
<1>4. SubSeq(y, d + i, d + j) = SubSeq(x, i, j)
  BY <1>3, SamePart, ZenonT(30)
<1> QED
  BY <1>2, <1>4

\* All parts but the last.
LEMMA WholeFacts ==
    ASSUME NEW parts \in Seq(Seq(Pieces)), Len(parts) >= 1
    PROVE  /\ Whole(parts) \in Seq(Seq(Pieces)) /\ Len(Whole(parts)) = Len(parts) - 1
           /\ \A k \in 1 .. Len(parts) - 1 : Whole(parts)[k] = parts[k]
<1> DEFINE m == Len(parts) - 1
<1>1. m \in Nat /\ m <= Len(parts)
  OBVIOUS
<1>2. \A k \in 1 .. m : parts[k] \in Seq(Pieces)
  <2>1. \A k \in 1 .. m : k \in 1 .. Len(parts)
    OBVIOUS
  <2> QED
    BY <2>1, ElementOfSeq
<1>3. /\ SubSeq(parts, 1, m) \in Seq(Seq(Pieces))
      /\ Len(SubSeq(parts, 1, m)) = IF 1 <= m THEN m - 1 + 1 ELSE 0
      /\ \A k \in 1 .. m - 1 + 1 : SubSeq(parts, 1, m)[k] = parts[1 + k - 1]
  BY <1>1, <1>2, SubSeqProperties
<1>4. Len(SubSeq(parts, 1, m)) = m /\ m - 1 + 1 = m
  <2> HIDE DEF m
  <2> QED
    BY <1>1, <1>3
<1>5. \A k \in 1 .. m : 1 + k - 1 = k
  BY <1>1
<1> QED
  BY <1>3, <1>4, <1>5 DEF Whole

\* The lines of the text that goes on, one by one.
Ended(a) == Len(Split(a)) - 1
Further(a, b) == Len(Split(Onward(a, b)))

LEMMA LinesJoin ==
    ASSUME NEW a \in Seq(Pieces), NEW b \in Seq(Pieces)
    PROVE  /\ Ended(a) \in Nat /\ Further(a, b) \in Nat \ {0}
           /\ Len(Split(a \o b)) = Ended(a) + Further(a, b)
           /\ \A k \in 1 .. Ended(a) : Split(a \o b)[k] = Split(a)[k]
           /\ \A k \in 1 .. Further(a, b) :
                Split(a \o b)[Ended(a) + k] = Split(Onward(a, b))[k]
<1> DEFINE n == Len(a)
           p == Mark(a)
           S == BeforeMark(a)
           E == Ends(a)
           c == Onward(a, b)
           ab == a \o b
           C == Ends(c)
           U == Ends(ab)
           T == {0, n + 1 - p}
           K == Ended(a)
           M == Further(a, b)
<1>0. K = Len(Split(a)) - 1 /\ M = Len(Split(c))
  BY DEF Ended, Further
<1> HIDE DEF K, M
<1>1. /\ n \in Nat /\ p \in 0 .. n /\ p = Nth(E, Cardinality(E) - 1)
      /\ Cardinality(S) = Cardinality(E) - 2
      /\ E = Joined(S, p, T) /\ Apart(S, p, T)
  <2>1. n \in Nat
    OBVIOUS
  <2>2. /\ Mark(a) \in 0 .. Len(a)
        /\ Cardinality(BeforeMark(a)) = Cardinality(Ends(a)) - 2
        /\ Ends(a) = Joined(BeforeMark(a), Mark(a), {0, Len(a) + 1 - Mark(a)})
        /\ Apart(BeforeMark(a), Mark(a), {0, Len(a) + 1 - Mark(a)})
    BY MarkFacts
  <2>3. p = Nth(E, Cardinality(E) - 1)
    BY DEF Mark
  <2> QED
    BY <2>1, <2>2, <2>3, Zenon
<1>2. /\ c \in Seq(Pieces) /\ p + Len(c) = n + Len(b)
      /\ ab \in Seq(Pieces) /\ Len(ab) = n + Len(b)
      /\ \A i \in 1 .. n : ab[i] = a[i]
      /\ \A i \in 1 .. Len(c) : c[i] = ab[p + i]
  BY OnwardFacts
<1>3. Len(c) \in Nat /\ Len(b) \in Nat /\ Len(ab) \in Nat
  BY <1>2
<1>4. U = Joined(S, p, C) /\ Apart(S, p, C)
  BY EndsJoin
<1>5. /\ Len(Split(a)) = Cardinality(E) - 1 /\ Cardinality(E) - 1 \in Nat \ {0}
      /\ \A k \in 1 .. Cardinality(E) - 1 :
           /\ Nth(E, k) \in 0 .. n /\ Nth(E, k + 1) \in 1 .. n + 1
           /\ Split(a)[k] = SubSeq(a, Nth(E, k) + 1, Nth(E, k + 1) - 1)
  BY SplitFacts
<1>6. /\ Len(Split(c)) = Cardinality(C) - 1 /\ Cardinality(C) - 1 \in Nat \ {0}
      /\ \A k \in 1 .. Cardinality(C) - 1 :
           /\ Nth(C, k) \in 0 .. Len(c) /\ Nth(C, k + 1) \in 1 .. Len(c) + 1
           /\ Split(c)[k] = SubSeq(c, Nth(C, k) + 1, Nth(C, k + 1) - 1)
  BY <1>2, SplitFacts
<1>7. /\ Len(Split(ab)) = Cardinality(U) - 1
      /\ \A k \in 1 .. Cardinality(U) - 1 :
           Split(ab)[k] = SubSeq(ab, Nth(U, k) + 1, Nth(U, k + 1) - 1)
  BY <1>2, SplitFacts
<1>8. /\ Cardinality(E) \in Nat /\ Cardinality(C) \in Nat /\ Nth(C, 1) = 0
  BY <1>2, EndsFacts
<1>9. /\ Cardinality(U) = Cardinality(S) + Cardinality(C)
      /\ \A k \in 1 .. Cardinality(S) : Nth(U, k) = Nth(S, k)
      /\ \A k \in 1 .. Cardinality(C) : Nth(U, Cardinality(S) + k) = p + Nth(C, k)
  BY <1>4, JoinNth
<1>10. \A k \in 1 .. Cardinality(S) : Nth(E, k) = Nth(S, k)
  BY <1>1, JoinNth
<1> DEFINE pa == Split(a)
           pc == Split(c)
           pab == Split(ab)
           e(k) == Nth(E, k)
           u(k) == Nth(U, k)
           v(k) == Nth(C, k)
<1>11. /\ K \in Nat /\ M \in Nat \ {0} /\ Cardinality(S) = K
       /\ Cardinality(E) - 1 = K + 1 /\ Cardinality(C) = M + 1
       /\ Cardinality(C) - 1 = M /\ Cardinality(U) - 1 = K + M
  <2> DEFINE cs == Cardinality(S)
             ce == Cardinality(E)
             cc == Cardinality(C)
             cu == Cardinality(U)
  <2>1. /\ cs = ce - 2 /\ cu = cs + cc /\ ce \in Nat /\ cc \in Nat
        /\ ce - 1 \in Nat \ {0} /\ cc - 1 \in Nat \ {0}
        /\ K = (ce - 1) - 1 /\ M = cc - 1
    BY <1>0, <1>1, <1>5, <1>6, <1>8, <1>9, Zenon
  <2> HIDE DEF cs, ce, cc, cu
  <2>2. /\ K \in Nat /\ M \in Nat \ {0} /\ cs = K
        /\ ce - 1 = K + 1 /\ cc = M + 1 /\ cc - 1 = M /\ cu - 1 = K + M
    BY <2>1
  <2> QED
    BY <2>2, Zenon DEF cs, ce, cc, cu
<1>12. /\ Len(pab) = K + M
       /\ \A k \in 1 .. K + 1 : e(k) \in 0 .. n /\ e(k + 1) \in 1 .. n + 1
                                /\ pa[k] = SubSeq(a, e(k) + 1, e(k + 1) - 1)
       /\ \A k \in 1 .. M : v(k) \in 0 .. Len(c) /\ v(k + 1) \in 1 .. Len(c) + 1
                            /\ pc[k] = SubSeq(c, v(k) + 1, v(k + 1) - 1)
       /\ \A k \in 1 .. K + M : pab[k] = SubSeq(ab, u(k) + 1, u(k + 1) - 1)
       /\ \A k \in 1 .. K : u(k) = e(k)
       /\ \A k \in 1 .. M + 1 : u(K + k) = p + v(k)
       /\ e(K + 1) = p /\ v(1) = 0
  <2>1. Len(pab) = K + M
    BY <1>7, <1>11
  <2>2. \A k \in 1 .. K + 1 : e(k) \in 0 .. n /\ e(k + 1) \in 1 .. n + 1
                              /\ pa[k] = SubSeq(a, e(k) + 1, e(k + 1) - 1)
    BY <1>5, <1>11, Zenon
  <2>3. \A k \in 1 .. M : v(k) \in 0 .. Len(c) /\ v(k + 1) \in 1 .. Len(c) + 1
                          /\ pc[k] = SubSeq(c, v(k) + 1, v(k + 1) - 1)
    BY <1>6, <1>11, Zenon
  <2>4. \A k \in 1 .. K + M : pab[k] = SubSeq(ab, u(k) + 1, u(k + 1) - 1)
    BY <1>7, <1>11, Zenon
  <2>5. \A k \in 1 .. K : u(k) = e(k)
    BY <1>9, <1>10, <1>11, Zenon
  <2>6. \A k \in 1 .. M + 1 : u(K + k) = p + v(k)
    BY <1>9, <1>11, Zenon
  <2>7. e(K + 1) = p /\ v(1) = 0
    BY <1>1, <1>8, <1>11, Zenon
  <2> QED
    BY <2>1, <2>2, <2>3, <2>4, <2>5, <2>6, <2>7
<1> HIDE DEF n, p, S, E, c, ab, C, U, pa, pc, pab, e, u, v
<1>13. \A k \in 1 .. K + 1 : u(k) = e(k)
  <2>1. 1 \in 1 .. M + 1 /\ p + 0 = p
    BY <1>1, <1>11
  <2>2. u(K + 1) = e(K + 1)
    BY <1>12, <2>1, Zenon
  <2>3. \A k \in 1 .. K + 1 : k \in 1 .. K \/ k = K + 1
    BY <1>11
  <2> QED
    BY <1>12, <2>2, <2>3
<1>14. ASSUME NEW k \in 1 .. K PROVE pab[k] = pa[k]
  <2>1. k \in 1 .. K + 1 /\ k + 1 \in 1 .. K + 1 /\ k \in 1 .. K + M
    BY <1>11
  <2> DEFINE x == e(k)
             y == e(k + 1)
             i == x + 1
             j == y - 1
  <2>2. x \in 0 .. n /\ y \in 1 .. n + 1 /\ pa[k] = SubSeq(a, x + 1, y - 1)
    BY <1>12, <2>1
  <2>3. pab[k] = SubSeq(ab, u(k) + 1, u(k + 1) - 1) /\ u(k) = x /\ u(k + 1) = y
    BY <1>12, <1>13, <2>1
  <2> HIDE DEF x, y
  <2>4. i \in Nat /\ i >= 1 /\ j \in Nat /\ j <= n
    BY <1>1, <2>2
  <2>5. ASSUME NEW l \in i .. j PROVE l \in 1 .. Len(a) /\ l \in 1 .. Len(ab) /\ a[l] = ab[l]
    <3>1. l \in 1 .. n /\ l \in 1 .. Len(ab)
      BY <1>1, <1>2, <1>3, <2>4
    <3>2. a[l] = ab[l]
      BY <1>2, <3>1
    <3> QED
      BY <3>1, <3>2 DEF n
  <2> HIDE DEF i, j
  <2>6. SubSeq(ab, i, j) = SubSeq(a, i, j)
    <3>1. ab \in Seq(Pieces)
      BY <1>2
    <3> HIDE DEF ab
    <3> QED
      BY <2>4, <2>5, <3>1, SameHere, Zenon
  <2> QED
    BY <2>2, <2>3, <2>6 DEF i, j
<1>15. ASSUME NEW k \in 1 .. M PROVE pab[K + k] = pc[k]
  <2>1. k \in 1 .. M + 1 /\ k + 1 \in 1 .. M + 1 /\ K + k \in 1 .. K + M
        /\ (K + k) + 1 = K + (k + 1)
    BY <1>11
  <2> DEFINE x == v(k)
             y == v(k + 1)
             i == x + 1
             j == y - 1
             z == K + k
  <2>2. x \in 0 .. Len(c) /\ y \in 1 .. Len(c) + 1 /\ pc[k] = SubSeq(c, x + 1, y - 1)
    BY <1>12, <2>1
  <2>3. z \in 1 .. K + M
    BY <2>1
  <2>4. u(z) = p + x
    BY <1>12, <2>1
  <2>5. u(z + 1) = p + y
    <3>1. u(K + (k + 1)) = p + v(k + 1)
      BY <1>12, <2>1
    <3> QED
      BY <2>1, <3>1
  <2> HIDE DEF z
  <2>6. pab[z] = SubSeq(ab, u(z) + 1, u(z + 1) - 1)
    BY <1>12, <2>3
  <2> HIDE DEF x, y
  <2>7. p \in Nat /\ i \in Nat /\ i >= 1 /\ j \in Nat /\ j <= Len(c)
        /\ (p + x) + 1 = p + i /\ (p + y) - 1 = p + j
    BY <1>1, <1>3, <2>2
  <2>8. pab[z] = SubSeq(ab, p + i, p + j)
    BY <2>4, <2>5, <2>6, <2>7
  <2>9. ASSUME NEW l \in i .. j PROVE l \in 1 .. Len(c) /\ p + l \in 1 .. Len(ab) /\ c[l] = ab[p + l]
    <3>1. l \in 1 .. Len(c)
      BY <1>3, <2>7
    <3>2. p + Len(c) = Len(ab)
      BY <1>2
    <3>3. p + l \in 1 .. Len(ab)
      <4> DEFINE lc == Len(c)
                 lab == Len(ab)
      <4>1. lc \in Nat /\ lab \in Nat /\ p + lc = lab /\ l \in 1 .. lc
        BY <1>3, <3>1, <3>2
      <4> HIDE DEF lc, lab
      <4>2. p + l \in 1 .. lab
        BY <2>7, <4>1
      <4> QED
        BY <4>2 DEF lab
    <3> QED
      BY <1>2, <3>1, <3>3
  <2> HIDE DEF i, j
  <2>10. SubSeq(ab, p + i, p + j) = SubSeq(c, i, j)
    BY <1>2, <2>7, <2>9, SamePart
  <2> QED
    BY <2>2, <2>8, <2>10 DEF i, j, z
<1> QED
  BY <1>11, <1>12, <1>14, <1>15 DEF pa, pc, pab, ab, c, K, M

\* Its lines that have ended are those of the text, and then those of the
\* unfinished line with what follows; and its unfinished line is the latter's.
LEMMA SplitJoin ==
    ASSUME NEW a \in Seq(Pieces), NEW b \in Seq(Pieces)
    PROVE  /\ Whole(Split(a)) \in Seq(Seq(Pieces))
           /\ Whole(Split(Onward(a, b))) \in Seq(Seq(Pieces))
           /\ Whole(Split(a \o b)) = Whole(Split(a)) \o Whole(Split(Onward(a, b)))
           /\ Rest(Split(a \o b)) = Rest(Split(Onward(a, b)))
<1> DEFINE pa == Split(a)
           pc == Split(Onward(a, b))
           pab == Split(a \o b)
           K == Ended(a)
           M == Further(a, b)
<1>0. K = Len(pa) - 1 /\ M = Len(pc)
  BY DEF Ended, Further
<1> HIDE DEF K, M
<1>1. /\ K \in Nat /\ M \in Nat \ {0} /\ Len(pab) = K + M
      /\ \A k \in 1 .. K : pab[k] = pa[k]
      /\ \A k \in 1 .. M : pab[K + k] = pc[k]
  BY LinesJoin DEF K, M
<1>2. a \o b \in Seq(Pieces) /\ Onward(a, b) \in Seq(Pieces)
  BY OnwardFacts
<1>3. pa \in Seq(Seq(Pieces)) /\ pc \in Seq(Seq(Pieces)) /\ pab \in Seq(Seq(Pieces))
  BY <1>2, SplitFacts
<1> HIDE DEF pa, pc, pab
<1>4. Len(pa) = K + 1 /\ Len(pa) \in Nat
  BY <1>0, <1>1, <1>3
<1> DEFINE x == Whole(pa)
           y == Whole(pc)
           left == Whole(pab)
<1>5. /\ x \in Seq(Seq(Pieces)) /\ Len(x) = K
      /\ \A k \in 1 .. K : x[k] = pa[k]
  <2>1. Len(pa) >= 1
    BY <1>1, <1>4
  <2>2. Len(pa) - 1 = K
    BY <1>0
  <2> QED
    BY <1>3, <2>1, <2>2, WholeFacts
<1>6. /\ y \in Seq(Seq(Pieces)) /\ Len(y) = M - 1
      /\ \A k \in 1 .. M - 1 : y[k] = pc[k]
  <2>1. Len(pc) >= 1 /\ M = Len(pc)
    BY <1>0, <1>1
  <2> QED
    BY <1>3, <2>1, WholeFacts
<1>7. /\ left \in Seq(Seq(Pieces)) /\ Len(left) = Len(pab) - 1
      /\ \A k \in 1 .. Len(pab) - 1 : left[k] = pab[k]
  <2>1. Len(pab) >= 1
    BY <1>1
  <2> QED
    BY <1>3, <2>1, WholeFacts
<1> HIDE DEF x, y, left
<1>8. Len(left) = K + (M - 1) /\ Len(pab) - 1 = K + (M - 1) /\ M - 1 \in Nat
  BY <1>1, <1>7
<1>9. /\ x \o y \in Seq(Seq(Pieces)) /\ Len(x \o y) = K + (M - 1)
      /\ \A k \in 1 .. K + (M - 1) : (x \o y)[k] = IF k <= K THEN x[k] ELSE y[k - K]
  BY <1>5, <1>6, ConcatProperties
<1>10. ASSUME NEW k \in 1 .. Len(left) PROVE left[k] = (x \o y)[k]
  <2>1. k \in 1 .. K + (M - 1) /\ left[k] = pab[k]
    BY <1>7, <1>8
  <2>2. CASE k <= K
    <3>1. k \in 1 .. K
      BY <1>1, <2>1, <2>2
    <3>2. (x \o y)[k] = x[k]
      BY <1>9, <2>1, <2>2
    <3> QED
      BY <1>1, <1>5, <2>1, <3>1, <3>2
  <2>3. CASE ~(k <= K)
    <3> DEFINE j == k - K
    <3>1. j \in 1 .. M - 1 /\ j \in 1 .. M /\ k = K + j
      BY <1>1, <2>1, <2>3
    <3> HIDE DEF j
    <3>2. (x \o y)[k] = y[j]
      BY <1>9, <2>1, <2>3 DEF j
    <3>3. pab[K + j] = pc[j]
      BY <1>1, <3>1
    <3> QED
      BY <1>6, <2>1, <3>1, <3>2, <3>3
  <2> QED
    BY <2>2, <2>3
<1>11. left = x \o y
  BY <1>7, <1>8, <1>9, <1>10, SeqEqual
<1>12. Rest(pab) = Rest(pc)
  <2>1. M \in 1 .. M
    BY <1>1
  <2>2. pab[K + M] = pc[M]
    BY <1>1, <2>1
  <2> QED
    BY <1>0, <1>1, <2>2 DEF Rest
<1> QED
  BY <1>5, <1>6, <1>11, <1>12 DEF pa, pc, pab, x, y, left

-----------------------------------------------------------------------------
(* The reader of a stream.                                                 *)

LEMMA NothingFacts ==
    Whole(Split(<<>>)) = <<>> /\ Rest(Split(<<>>)) = <<>> /\ TextsOf(<<>>) = <<>>
<1>1. <<>> \in Seq(Pieces) /\ Len(<<>>) = 0 /\ <<>> \in Seq(Seq(Pieces))
  OBVIOUS
<1>2. Rest(Split(<<>>)) = <<>> /\ Len(Split(<<>>)) = 1 /\ Split(<<>>) \in Seq(Seq(Pieces))
  <2> DEFINE a == <<>>
             p == Mark(a)
  <2>0. a \in Seq(Pieces) /\ Len(a) = 0
    BY <1>1
  <2> HIDE DEF a
  <2>1. /\ Mark(a) \in 0 .. Len(a)
        /\ Rest(Split(a)) = SubSeq(a, Mark(a) + 1, Len(a))
        /\ Cardinality(BeforeMark(a)) = Cardinality(Ends(a)) - 2
    BY <2>0, MarkFacts
  <2>2. Mark(a) = 0
    BY <2>0, <2>1
  <2>3. Numbers(Ends(a)) /\ Cardinality(Ends(a)) \in Nat
    BY <2>0, EndsFacts
  <2>4. BeforeMark(a) = {}
    BY <2>2, <2>3 DEF BeforeMark, Numbers
  <2>5. Cardinality(Ends(a)) = 2
    BY <2>1, <2>3, <2>4, FS_EmptySet
  <2>6. Len(Split(a)) = 1 /\ Split(a) \in Seq(Seq(Pieces))
    <3>1. Len(Split(a)) = Cardinality(Ends(a)) - 1 /\ Split(a) \in Seq(Seq(Pieces))
      BY <2>0, SplitFacts, Zenon
    <3> QED
      BY <2>5, <3>1
  <2>7. SubSeq(a, 1, 0) = <<>>
    BY SubSeqEmpty
  <2>8. Rest(Split(a)) = <<>>
    BY <2>0, <2>1, <2>2, <2>7
  <2> QED
    BY <2>6, <2>8 DEF a
<1>3. Whole(Split(<<>>)) = <<>>
  <2> DEFINE parts == Split(<<>>)
  <2>1. Len(parts) = 1
    BY <1>2
  <2> HIDE DEF parts
  <2>2. Whole(parts) = SubSeq(parts, 1, 0)
    BY <2>1 DEF Whole
  <2>3. SubSeq(parts, 1, 0) = <<>>
    BY SubSeqEmpty
  <2> QED
    BY <2>2, <2>3 DEF parts
<1>4. TextsOf(<<>>) = <<>>
  <2>1. Texted(<<>>) = {}
    BY DEF Texted
  <2>2. TextsOf(<<>>) \in Seq(Seq(Pieces)) /\ Len(TextsOf(<<>>)) = 0
    BY <1>1, <2>1, TextsFacts, FS_EmptySet
  <2> QED
    BY <2>2, EmptySeq
<1> QED
  BY <1>2, <1>3, <1>4

LEMMA TextsOfOne ==
    ASSUME NEW line \in Seq(Pieces)
    PROVE  TextsOf(<<line>>) = IF line \in LinesWithText THEN <<line>> ELSE <<>>
<1> DEFINE one == <<line>>
           S == Texted(one)
           texts == TextsOf(one)
<1>1. one \in Seq(Seq(Pieces)) /\ Len(one) = 1 /\ one[1] = line /\ DOMAIN one = {1}
  OBVIOUS
<1>2. S = IF line \in LinesWithText THEN {1} ELSE {}
  BY <1>1 DEF Texted
<1> HIDE DEF one
<1>3. /\ texts \in Seq(Seq(Pieces)) /\ Len(texts) = Cardinality(S)
      /\ \A k \in 1 .. Cardinality(S) : Nth(S, k) \in 1 .. 1 /\ texts[k] = one[Nth(S, k)]
  BY <1>1, TextsFacts
<1> HIDE DEF S, texts
<1>4. CASE line \in LinesWithText
  <2>1. Cardinality(S) = 1
    BY <1>2, <1>4, FS_Singleton
  <2>2. Nth(S, 1) = 1 /\ texts[1] = one[Nth(S, 1)]
    BY <1>3, <2>1
  <2>3. texts \in Seq(Seq(Pieces)) /\ Len(texts) = 1 /\ texts[1] = line
    BY <1>1, <1>3, <2>1, <2>2
  <2>4. texts = <<line>>
    BY <2>3
  <2> QED
    BY <1>4, <2>4 DEF texts, one
<1>5. CASE line \notin LinesWithText
  <2>1. Len(texts) = 0
    BY <1>2, <1>3, <1>5, FS_EmptySet
  <2>2. texts = <<>>
    BY <1>3, <2>1, EmptySeq
  <2> QED
    BY <1>5, <2>2 DEF texts, one
<1> QED
  BY <1>4, <1>5

\* Whatever has been read, the buffer is its unfinished line.
StreamTypeOK ==
    /\ body \in Seq(Pieces)
    /\ received \in 0 .. Len(body)
    /\ lines \in Seq(Seq(Pieces)) /\ yielded \in Seq(Seq(Pieces))
BufferIsUnfinished == buffer = Rest(Split(SubSeq(body, 1, received)))
StreamInv == StreamTypeOK /\ BufferIsUnfinished /\ TextsInOrder

\* What has been read of a body is a text.
LEMMA ReadFacts ==
    ASSUME NEW whole \in Seq(Pieces), NEW i \in 1 .. Len(whole) + 1, NEW j \in 0 .. Len(whole)
    PROVE  SubSeq(whole, i, j) \in Seq(Pieces)
<1>1. i \in Int /\ j \in Int /\ i .. j \subseteq 1 .. Len(whole)
  OBVIOUS
<1>2. \A k \in i .. j : whole[k] \in Pieces
  BY <1>1, ElementOfSeq
<1> QED
  BY <1>1, <1>2, SubSeqProperties

\* Before the first chunk nothing is kept and nothing is yielded.
LEMMA StreamStartInv ==
    ASSUME body \in Seq(Pieces), received = 0,
           buffer = <<>>, lines = <<>>, yielded = <<>>
    PROVE  StreamInv
<1>1. body \in Seq(Pieces)
  OBVIOUS
<1>2. received = 0 /\ buffer = <<>> /\ lines = <<>> /\ yielded = <<>>
  OBVIOUS
<1>3. StreamTypeOK
  BY <1>1, <1>2 DEF StreamTypeOK
<1>4. SubSeq(body, 1, received) = <<>>
  BY <1>2, SubSeqEmpty
<1>5. BufferIsUnfinished
  BY <1>2, <1>4, NothingFacts DEF BufferIsUnfinished
<1>6. TextsInOrder
  <2>1. yielded \o TextsOf(lines) = <<>>
    BY <1>2, NothingFacts
  <2> QED
    BY <1>4, <2>1, NothingFacts, Zenon DEF TextsInOrder
<1> QED
  BY <1>3, <1>5, <1>6 DEF StreamInv

LEMMA StreamInitInv == EventStreamInit => StreamInv
<1> SUFFICES ASSUME EventStreamInit PROVE StreamInv
  OBVIOUS
<1>1. body \in Seq(Pieces)
  BY DEF EventStreamInit, Bodies, Pieces
<1> QED
  BY <1>1, StreamStartInv DEF EventStreamInit

\* A chunk: the lines it ends are those the body has now ended beyond the
\* ones looked at before.
LEMMA ReadChunkInv == StreamInv /\ ReadChunk => StreamInv'
<1> SUFFICES ASSUME StreamInv, ReadChunk PROVE StreamInv'
  OBVIOUS
<1>1. /\ body \in Seq(Pieces) /\ received \in 0 .. Len(body)
      /\ yielded \in Seq(Seq(Pieces)) /\ lines = <<>>
      /\ buffer = Rest(Split(SubSeq(body, 1, received)))
      /\ yielded \o lines = TextsOf(Whole(Split(SubSeq(body, 1, received))))
  BY NothingFacts DEF StreamInv, StreamTypeOK, BufferIsUnfinished, TextsInOrder, ReadChunk
<1>2. PICK n \in received + 1 .. Len(body) :
        /\ received' = n
        /\ buffer' = Rest(Split(buffer \o SubSeq(body, received + 1, n)))
        /\ lines' = Whole(Split(buffer \o SubSeq(body, received + 1, n)))
  BY DEF ReadChunk
<1>3. body' = body /\ yielded' = yielded
  BY DEF ReadChunk
<1> DEFINE a == SubSeq(body, 1, received)
           b == SubSeq(body, received + 1, n)
           ab == SubSeq(body, 1, n)
<1>4. n \in 0 .. Len(body) /\ Len(body) \in Nat /\ received + 1 \in 1 .. Len(body) + 1
  BY <1>1
<1>5. a \in Seq(Pieces) /\ b \in Seq(Pieces)
  <2>1. 1 \in 1 .. Len(body) + 1
    BY <1>4
  <2> QED
    BY <1>1, <1>4, <2>1, ReadFacts
<1>6. a \o b = ab
  <2>1. 1 \in 1 .. Len(body) + 1 /\ received \in 1 - 1 .. Len(body) /\ n \in received .. Len(body)
    BY <1>1, <1>4
  <2> QED
    BY <1>1, <2>1, ConcatAdjacentSubSeq
<1> HIDE DEF a, b, ab
<1>7. buffer \o b = Onward(a, b)
  BY <1>1 DEF Onward, a
<1>8. /\ Whole(Split(a)) \in Seq(Seq(Pieces))
      /\ Whole(Split(Onward(a, b))) \in Seq(Seq(Pieces))
      /\ Whole(Split(ab)) = Whole(Split(a)) \o Whole(Split(Onward(a, b)))
      /\ Rest(Split(ab)) = Rest(Split(Onward(a, b)))
  BY <1>5, <1>6, SplitJoin
<1>9. buffer' = Rest(Split(Onward(a, b))) /\ lines' = Whole(Split(Onward(a, b)))
  BY <1>2, <1>7 DEF b
<1>10. StreamTypeOK'
  BY <1>1, <1>2, <1>3, <1>4, <1>8, <1>9 DEF StreamTypeOK
<1>11. SubSeq(body', 1, received') = ab
  BY <1>2, <1>3 DEF ab
<1>12. BufferIsUnfinished'
  BY <1>8, <1>9, <1>11 DEF BufferIsUnfinished
<1>13. TextsInOrder'
  <2>1. yielded = TextsOf(Whole(Split(a)))
    BY <1>1, ConcatEmptySeq, NothingFacts DEF a
  <2>2. TextsOf(Whole(Split(ab))) = TextsOf(Whole(Split(a))) \o TextsOf(Whole(Split(Onward(a, b))))
    BY <1>8, TextsJoin
  <2>3. yielded' \o TextsOf(lines') = TextsOf(Whole(Split(ab)))
    BY <1>3, <1>9, <2>1, <2>2
  <2> QED
    BY <1>11, <2>3 DEF TextsInOrder
<1> QED
  BY <1>10, <1>12, <1>13 DEF StreamInv

LEMMA LinesAssociate ==
    ASSUME NEW x \in Seq(Seq(Pieces)), NEW y \in Seq(Seq(Pieces)), NEW z \in Seq(Seq(Pieces))
    PROVE  (x \o y) \o z = x \o (y \o z)
BY ConcatAssociative

LEMMA TakeLineInv == StreamInv /\ TakeLine => StreamInv'
<1> SUFFICES ASSUME StreamInv, TakeLine PROVE StreamInv'
  OBVIOUS
<1> DEFINE h == Head(lines)
           t == Tail(lines)
<1>1. /\ StreamTypeOK /\ BufferIsUnfinished /\ TextsInOrder
      /\ lines \in Seq(Seq(Pieces)) /\ yielded \in Seq(Seq(Pieces)) /\ lines # <<>>
  BY DEF StreamInv, StreamTypeOK, TakeLine
<1>2. /\ yielded' = IF h \in LinesWithText THEN Append(yielded, h) ELSE yielded
      /\ lines' = t
      /\ body' = body /\ received' = received /\ buffer' = buffer
  BY DEF TakeLine
<1>3. h \in Seq(Pieces) /\ t \in Seq(Seq(Pieces)) /\ <<h>> \in Seq(Seq(Pieces))
  BY <1>1, HeadTailProperties
<1>4. lines = <<h>> \o t
  BY <1>1
<1> HIDE DEF h, t
<1> DEFINE one == TextsOf(<<h>>)
<1>5. one = IF h \in LinesWithText THEN <<h>> ELSE <<>>
  BY <1>3, TextsOfOne
<1>6. TextsOf(lines) = one \o TextsOf(t)
  BY <1>3, <1>4, TextsJoin
<1>7. one \in Seq(Seq(Pieces)) /\ TextsOf(t) \in Seq(Seq(Pieces))
  BY <1>3, TextsFacts
<1> HIDE DEF one
<1>8. yielded' = yielded \o one
  BY <1>1, <1>2, <1>3, <1>5, AppendIsConcat, ConcatEmptySeq
<1>9. yielded' \in Seq(Seq(Pieces))
  BY <1>1, <1>7, <1>8
<1>10. StreamTypeOK'
  BY <1>1, <1>2, <1>3, <1>9 DEF StreamTypeOK
<1>11. BufferIsUnfinished'
  BY <1>1, <1>2 DEF BufferIsUnfinished
<1>12. TextsInOrder'
  <2>1. yielded' \o TextsOf(lines') = yielded \o TextsOf(lines)
    <3> DEFINE rest == TextsOf(t)
    <3>1. rest \in Seq(Seq(Pieces)) /\ TextsOf(lines') = rest /\ TextsOf(lines) = one \o rest
      BY <1>2, <1>6, <1>7
    <3> HIDE DEF rest
    <3>2. (yielded \o one) \o rest = yielded \o (one \o rest)
      <4>1. yielded \in Seq(Seq(Pieces)) /\ one \in Seq(Seq(Pieces)) /\ rest \in Seq(Seq(Pieces))
        BY <1>1, <1>7, <3>1
      <4> QED
        BY <4>1, LinesAssociate
    <3> QED
      BY <1>8, <3>1, <3>2
  <2> QED
    BY <1>1, <1>2, <2>1 DEF TextsInOrder
<1> QED
  BY <1>10, <1>11, <1>12 DEF StreamInv

LEMMA StreamNextInv == StreamInv /\ [EventStreamNext]_eventStreamVars => StreamInv'
<1> SUFFICES ASSUME StreamInv, [EventStreamNext]_eventStreamVars PROVE StreamInv'
  OBVIOUS
<1>1. CASE ReadChunk
  BY <1>1, ReadChunkInv
<1>2. CASE TakeLine
  BY <1>2, TakeLineInv
<1>3. CASE EndOfBody
  BY <1>3 DEF EndOfBody, StreamInv, StreamTypeOK, BufferIsUnfinished, TextsInOrder
<1>4. CASE Break
  BY <1>4 DEF Break, StreamInv, StreamTypeOK, BufferIsUnfinished, TextsInOrder
<1>5. CASE UNCHANGED eventStreamVars
  BY <1>5 DEF eventStreamVars, StreamInv, StreamTypeOK, BufferIsUnfinished, TextsInOrder
<1> QED
  BY <1>1, <1>2, <1>3, <1>4, <1>5 DEF EventStreamNext

\* Wherever OpenAI's answer is cut into chunks, streamCompletion yields the
\* texts of the lines that have ended, once, whole and in order: for bodies of
\* any length and any choice of the lines that have a text.
THEOREM TextsArriveInOrder == EventStreamSpec => []TextsInOrder
<1>1. StreamInv => TextsInOrder
  BY DEF StreamInv
<1> QED
  BY <1>1, StreamInitInv, StreamNextInv, PTL DEF EventStreamSpec
=============================================================================
