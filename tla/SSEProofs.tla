------------------------------- MODULE SSEProofs -----------------------------
(* Proofs about the event assembler, for every body, however it is cut into *)
(* chunks, and for any limits on an event's bytes and fields.               *)
EXTENDS SSE, SequenceTheorems, FiniteSetTheorems, WellFoundedInduction, TLAPS

\* A non-empty set of numbers has a least one: the induction that the provers
\* can use, since it has no operator for a parameter.
LEMMA LeastNat ==
    ASSUME NEW T \in SUBSET Nat, T # {}
    PROVE  \E m \in T : \A k \in T : m <= k
<1>1. PICK n \in T : TRUE
  BY Zenon
<1> DEFINE R == {0 .. k : k \in {j \in T : j <= n}}
<1>2. IsFiniteSet(0 .. n)
  BY FS_Interval
<1>3. IsWellFoundedOn(StrictSubsetOrdering(0 .. n), SUBSET (0 .. n))
  BY <1>2, FS_StrictSubsetOrderingWellFounded, FS_FiniteSubsetsOfFinite, Zenon
<1>4. R \subseteq SUBSET (0 .. n) /\ R # {}
  BY <1>1
<1>5. PICK r \in R : \A q \in R : <<q, r>> \notin StrictSubsetOrdering(0 .. n)
  <2> HIDE DEF R
  <2> QED BY <1>3, <1>4, WFMin, Zenon
<1>6. PICK m \in T : m <= n /\ r = 0 .. m
  BY <1>5
<1>7. ASSUME NEW k \in T, k < m PROVE FALSE
  <2>1. (0 .. k) \in R /\ (0 .. k) \subseteq r /\ (0 .. k) # r
    BY <1>6, <1>7
  <2>2. <<0 .. k, r>> \in StrictSubsetOrdering(0 .. n)
    BY <2>1, <1>4, <1>5 DEF StrictSubsetOrdering
  <2> QED BY <2>1, <2>2, <1>5, Zenon
<1> QED BY <1>6, <1>7

\* The least of a set of numbers.
LEMMA MinIs ==
    ASSUME NEW S \in SUBSET Nat, S # {}
    PROVE  Min(S) \in S /\ \A y \in S : Min(S) <= y
BY LeastNat, Zenon DEF Min

\* The greatest of a bounded set of numbers.
LEMMA MaxIs ==
    ASSUME NEW N \in Nat, NEW S \in SUBSET (0 .. N), S # {}
    PROVE  Max(S) \in S /\ \A y \in S : y <= Max(S)
<1> DEFINE T == {N - x : x \in S}
<1>1. T \in SUBSET Nat /\ T # {}
  <2>1. ASSUME NEW x \in S PROVE N - x \in Nat
    <3>1. x \in 0 .. N
      BY Zenon
    <3> QED BY ONLY <3>1, N \in Nat, SMT
  <2> QED BY <2>1, Zenon
<1>2. PICK m \in T : \A k \in T : m <= k
  <2> HIDE DEF T
  <2> QED BY <1>1, LeastNat, Zenon
<1>3. PICK x \in S : m = N - x
  BY <1>2
<1>4. ASSUME NEW y \in S PROVE x >= y
  <2>1. N - y \in T
    OBVIOUS
  <2>2. N - x <= N - y
    BY <1>2, <1>3, <2>1, Zenon
  <2>3. y \in 0 .. N /\ x \in 0 .. N
    BY Zenon
  <2> QED BY ONLY <2>2, <2>3, N \in Nat, SMT
<1>5. Max(S) \in S /\ \A y \in S : Max(S) >= y
  BY <1>3, <1>4, Zenon DEF Max
<1> QED BY <1>5

\* When a greatest element is known.
LEMMA MaxFits ==
    ASSUME NEW N \in Nat, NEW S \in SUBSET (0 .. N), NEW m \in S, \A y \in S : y <= m
    PROVE  Max(S) = m
<1>1. Max(S) \in S /\ \A y \in S : y <= Max(S)
  BY MaxIs, Zenon
<1>2. m <= Max(S) /\ Max(S) <= m /\ m \in 0 .. N /\ Max(S) \in 0 .. N
  BY <1>1, Zenon
<1> QED BY ONLY <1>2, N \in Nat, SMT

-----------------------------------------------------------------------------
\* InOrder lists a set by ranks.
Rank(S, x) == Cardinality({y \in S : y < x})
At(S, r) == {x \in S : Rank(S, x) = r}

\* A number above all others comes last.
Longer(S, m) ==
    /\ Cardinality(S \union {m}) = Cardinality(S) + 1 /\ Cardinality(S) \in Nat
    /\ \A i \in 1 .. Cardinality(S) : InOrder(S \union {m})[i] = InOrder(S)[i]
    /\ InOrder(S \union {m})[Cardinality(S) + 1] = m

\* A number above all others comes last in the list.
LEMMA InOrderLonger ==
    ASSUME NEW S \in SUBSET Nat, IsFiniteSet(S), NEW m \in Nat, \A x \in S : x < m
    PROVE  Longer(S, m)
<1> DEFINE U == S \union {m}
           c == Cardinality(S)
<1>1. m \notin S /\ c \in Nat
  <2>1. m \notin S
    OBVIOUS
  <2> QED BY <2>1, FS_CardinalityType, Zenon
<1>2. Cardinality(U) = c + 1
  BY <1>1, FS_AddElement, Zenon
<1>3. ASSUME NEW x \in S PROVE Rank(U, x) = Rank(S, x) /\ Rank(S, x) \in Nat /\ Rank(S, x) < c
  <2>1. {y \in U : y < x} = {y \in S : y < x}
    OBVIOUS
  <2>2. {y \in S : y < x} \subseteq S /\ {y \in S : y < x} # S
    OBVIOUS
  <2>3. /\ Cardinality({y \in S : y < x}) <= c /\ IsFiniteSet({y \in S : y < x})
        /\ Cardinality({y \in S : y < x}) = c => {y \in S : y < x} = S
    BY <2>2, FS_Subset, Zenon
  <2>4. Cardinality({y \in S : y < x}) \in Nat
    BY <2>3, FS_CardinalityType, Zenon
  <2>5. Cardinality({y \in S : y < x}) # c
    BY <2>2, <2>3, Zenon
  <2>6. Rank(S, x) = Cardinality({y \in S : y < x}) /\ Rank(U, x) = Cardinality({y \in S : y < x})
    BY <2>1, Zenon DEF Rank
  <2> QED BY ONLY <1>1, <2>3, <2>4, <2>5, <2>6
<1>4. Rank(U, m) = c
  <2>1. ~(m < m)
    BY ONLY m \in Nat, SMT
  <2>2. {y \in U : y < m} = S
    BY <2>1, Zenon
  <2> QED BY <2>2, Zenon DEF Rank
<1> HIDE DEF c
<1>5. ASSUME NEW r \in 0 .. c - 1 PROVE At(U, r) = At(S, r)
  <2>1. r # c
    BY <1>1
  <2>2. At(U, r) \subseteq At(S, r)
    BY <1>3, <1>4, <2>1, Zenon DEF At
  <2>3. At(S, r) \subseteq At(U, r)
    BY <1>3, Zenon DEF At
  <2> QED BY <2>2, <2>3, Zenon
<1>6. At(U, c) = {m}
  <2>1. ASSUME NEW x \in S PROVE Rank(U, x) # c
    <3>1. Rank(U, x) = Rank(S, x) /\ Rank(S, x) \in Nat /\ Rank(S, x) < c
      BY <1>3, Zenon
    <3> QED BY ONLY <1>1, <3>1
  <2> QED BY <1>4, <2>1, Zenon DEF At
<1> DEFINE Pick(V, r) == CHOOSE e \in At(V, r) : TRUE
<1>7. InOrder(U) = [i \in 1 .. c + 1 |-> Pick(U, i - 1)] /\ InOrder(S) = [i \in 1 .. c |-> Pick(S, i - 1)]
  <2>1. \A V : InOrder(V) = [i \in 1 .. Cardinality(V) |-> Pick(V, i - 1)]
    BY Zenon DEF InOrder, At, Rank
  <2> HIDE DEF Pick
  <2> QED BY <1>2, <2>1, Zenon DEF c
<1>8. \A r \in 0 .. c - 1 : Pick(U, r) = Pick(S, r)
  BY <1>5, Zenon
<1>9. Pick(U, c) = m
  BY <1>6, Zenon
<1> HIDE DEF Pick, U
<1>10. ASSUME NEW i \in 1 .. c PROVE InOrder(U)[i] = InOrder(S)[i]
  <2>1. i \in 1 .. c + 1 /\ i - 1 \in 0 .. c - 1
    BY ONLY <1>1, i \in 1 .. c, SMT
  <2>2. InOrder(U)[i] = Pick(U, i - 1) /\ InOrder(S)[i] = Pick(S, i - 1)
    BY <1>7, <2>1, Zenon
  <2> QED BY <1>8, <2>1, <2>2, Zenon
<1>11. InOrder(U)[c + 1] = m
  <2>1. c + 1 \in 1 .. c + 1 /\ (c + 1) - 1 = c
    BY ONLY <1>1, SMT
  <2>2. InOrder(U)[c + 1] = Pick(U, (c + 1) - 1)
    BY <1>7, <2>1, Zenon
  <2> QED BY <1>9, <2>1, <2>2, Zenon
<1> QED BY <1>1, <1>2, <1>10, <1>11, Zenon DEF U, c, Longer

\* The list has only numbers of the set.
LEMMA InOrderIn ==
    ASSUME NEW N \in Nat, NEW S \in SUBSET (0 .. N), NEW i \in 1 .. Cardinality(S)
    PROVE  InOrder(S)[i] \in S
<1> DEFINE Bad(V) == \E j \in 1 .. Cardinality(V) : InOrder(V)[j] \notin V
           B == {n \in Nat : \E V \in SUBSET (0 .. N) : Cardinality(V) = n /\ Bad(V)}
<1>1. ASSUME NEW V \in SUBSET (0 .. N) PROVE IsFiniteSet(V) /\ Cardinality(V) \in Nat /\ V \in SUBSET Nat
  <2>1. IsFiniteSet(0 .. N) /\ 0 .. N \subseteq Nat
    BY FS_Interval
  <2> QED BY <2>1, FS_Subset, FS_CardinalityType, Zenon
<1>2. SUFFICES ASSUME B # {} PROVE FALSE
  BY <1>1, Zenon
<1>3. PICK n \in B : \A k \in B : n <= k
  <2>1. B \in SUBSET Nat
    BY Zenon
  <2> HIDE DEF B
  <2> QED BY <1>2, <2>1, LeastNat, Zenon
<1>4. PICK V \in SUBSET (0 .. N) : Cardinality(V) = n /\ Bad(V)
  BY <1>3, Zenon
<1>5. V # {}
  <2>1. Cardinality({}) = 0
    BY FS_EmptySet, Zenon
  <2>2. 1 .. 0 = {}
    OBVIOUS
  <2> QED BY <1>4, <2>1, <2>2, Zenon
<1> DEFINE m == Max(V)
           T == V \ {m}
<1>6. m \in V /\ \A y \in V : y <= m
  BY <1>5, MaxIs, Zenon
<1>7. /\ T \in SUBSET (0 .. N) /\ V = T \union {m} /\ m \in Nat
      /\ IsFiniteSet(T) /\ T \in SUBSET Nat /\ Cardinality(T) \in Nat
  <2>1. T \in SUBSET (0 .. N) /\ V = T \union {m} /\ m \in Nat
    BY <1>1, <1>6, Zenon
  <2> HIDE DEF T
  <2> QED BY <1>1, <2>1, Zenon
<1>8. \A x \in T : x < m
  <2> HIDE DEF m
  <2>1. ASSUME NEW x \in T PROVE x < m
    <3>1. x <= m /\ x # m /\ x \in Nat /\ m \in Nat
      BY <1>1, <1>6, <1>7, Zenon
    <3> QED BY ONLY <3>1, SMT
  <2> QED BY <2>1, Zenon
<1> HIDE DEF m, T
<1>9. Longer(T, m)
  BY <1>7, <1>8, InOrderLonger, Zenon
<1>10. PICK j \in 1 .. Cardinality(V) : InOrder(V)[j] \notin V
  BY <1>4, Zenon
<1>11. Cardinality(V) = Cardinality(T) + 1
  BY <1>7, <1>9, Zenon DEF Longer
<1>12. CASE j = Cardinality(T) + 1
  BY <1>6, <1>7, <1>9, <1>10, <1>12, Zenon DEF Longer
<1>13. CASE j # Cardinality(T) + 1
  <2>1. j \in 1 .. Cardinality(T)
    <3>1. j \in 1 .. Cardinality(T) + 1
      BY <1>10, <1>11, Zenon
    <3> QED BY ONLY <1>7, <1>13, <3>1, SMT
  <2>2. InOrder(T)[j] \notin T
    BY <1>7, <1>9, <1>10, <2>1, Zenon DEF Longer
  <2>3. Cardinality(T) \in B
    BY <1>7, <2>1, <2>2, Zenon
  <2>4. n <= Cardinality(T) /\ n = Cardinality(T) + 1
    BY <1>3, <1>4, <1>11, <2>3, Zenon
  <2> QED BY ONLY <1>7, <2>4, SMT
<1> QED BY <1>12, <1>13, Zenon

-----------------------------------------------------------------------------
\* A sequence, of whatever elements.
IsSeq(s) == \E S : s \in Seq(S)

\* The length and the domain of a sequence.
LEMMA SeqFacts ==
    ASSUME NEW s, IsSeq(s)
    PROVE  /\ Len(s) \in Nat /\ DOMAIN s = 1 .. Len(s)
           /\ s = <<>> <=> Len(s) = 0
<1>1. PICK S : s \in Seq(S)
  BY Zenon DEF IsSeq
<1> QED BY <1>1, LenProperties, EmptySeq

\* The empty sequence.
LEMMA EmptyIsSeq == IsSeq(<<>>) /\ Len(<<>>) = 0
<1>1. <<>> \in Seq({}) /\ Len(<<>>) = 0
  BY EmptySeq, Zenon
<1> QED BY <1>1, Zenon DEF IsSeq

Grown(s, e, t) == /\ IsSeq(t) /\ Len(t) = Len(s) + 1
                  /\ \A i \in 1 .. Len(s) : t[i] = s[i]
                  /\ t[Len(s) + 1] = e

\* What Append does.
LEMMA AppendGrows ==
    ASSUME NEW s, IsSeq(s), NEW e
    PROVE  Grown(s, e, Append(s, e))
<1>1. PICK S : s \in Seq(S)
  BY Zenon DEF IsSeq
<1> DEFINE T == S \union {e}
<1>2. s \in Seq(T) /\ e \in T
  BY <1>1, SeqMonotonic, Zenon
<1>3. /\ Append(s, e) \in Seq(T) /\ Len(Append(s, e)) = Len(s) + 1
      /\ \A i \in 1 .. Len(s) : Append(s, e)[i] = s[i]
      /\ Append(s, e)[Len(s) + 1] = e
  <2> HIDE DEF T
  <2> QED BY ONLY <1>2, AppendProperties
<1> QED BY <1>3, Zenon DEF IsSeq, Grown

JoinOf(s, t, u) == /\ IsSeq(u) /\ Len(u) = Len(s) + Len(t)
                   /\ \A i \in 1 .. Len(s) : u[i] = s[i]
                   /\ \A i \in 1 .. Len(t) : u[Len(s) + i] = t[i]

\* What a concatenation holds.
LEMMA Joined ==
    ASSUME NEW s, IsSeq(s), NEW t, IsSeq(t)
    PROVE  JoinOf(s, t, s \o t)
<1>1. PICK S : s \in Seq(S)
  BY Zenon DEF IsSeq
<1>2. PICK T : t \in Seq(T)
  BY Zenon DEF IsSeq
<1> DEFINE U == S \union T
<1>3. s \in Seq(U) /\ t \in Seq(U)
  BY <1>1, <1>2, SeqMonotonic, Zenon
<1> HIDE DEF U
<1>4. /\ s \o t \in Seq(U) /\ Len(s \o t) = Len(s) + Len(t)
      /\ \A i \in 1 .. Len(s) + Len(t) : (s \o t)[i] = IF i <= Len(s) THEN s[i] ELSE t[i - Len(s)]
  BY <1>3, ConcatProperties, Zenon
<1>5. Len(s) \in Nat /\ Len(t) \in Nat
  BY SeqFacts, Zenon
<1>6. ASSUME NEW i \in 1 .. Len(s) PROVE (s \o t)[i] = s[i]
  <2>1. i \in 1 .. Len(s) + Len(t) /\ i <= Len(s)
    BY ONLY <1>5, i \in 1 .. Len(s), SMT
  <2> QED BY <1>4, <2>1, Zenon
<1>7. ASSUME NEW i \in 1 .. Len(t) PROVE (s \o t)[Len(s) + i] = t[i]
  <2>1. Len(s) + i \in 1 .. Len(s) + Len(t) /\ ~(Len(s) + i <= Len(s)) /\ Len(s) + i - Len(s) = i
    BY ONLY <1>5, i \in 1 .. Len(t), SMT
  <2>2. (s \o t)[Len(s) + i] = IF Len(s) + i <= Len(s) THEN s[Len(s) + i] ELSE t[Len(s) + i - Len(s)]
    BY ONLY <1>4, <2>1
  <2> QED BY ONLY <2>1, <2>2
<1> QED BY <1>4, <1>6, <1>7, Zenon DEF IsSeq, JoinOf

\* A piece of a sequence, and when two pieces are the same.
PieceOf(s, m, n) ==
    /\ IsSeq(SubSeq(s, m, n))
    /\ Len(SubSeq(s, m, n)) = IF m <= n THEN n - m + 1 ELSE 0
    /\ \A i \in 1 .. n - m + 1 : SubSeq(s, m, n)[i] = s[m + i - 1]

\* What SubSeq takes out.
LEMMA Piece ==
    ASSUME NEW s, IsSeq(s), NEW m \in Nat, NEW n \in Nat, 1 <= m, n <= Len(s)
    PROVE  PieceOf(s, m, n)
<1>1. PICK S : s \in Seq(S)
  BY Zenon DEF IsSeq
<1>2. \A i \in m .. n : s[i] \in S
  BY <1>1
<1>3. m \in Int /\ n \in Int
  OBVIOUS
<1>4. /\ SubSeq(s, m, n) \in Seq(S)
      /\ Len(SubSeq(s, m, n)) = IF m <= n THEN n - m + 1 ELSE 0
      /\ \A i \in 1 .. n - m + 1 : SubSeq(s, m, n)[i] = s[m + i - 1]
  BY ONLY <1>2, <1>3, SubSeqProperties
<1> QED BY <1>4, Zenon DEF IsSeq, PieceOf

Shifted(s, t, m, n, d) ==
    /\ IsSeq(s) /\ IsSeq(t) /\ m \in Nat /\ n \in Nat /\ d \in Nat
    /\ 1 <= m /\ n <= Len(s) /\ n + d <= Len(t) /\ \A i \in m .. n : s[i] = t[i + d]

Matching(s, t, m, n, d) == SubSeq(s, m, n) = SubSeq(t, m + d, n + d)

\* Two pieces that agree element by element are the same.
LEMMA SamePiece ==
    ASSUME NEW s, NEW t, NEW m, NEW n, NEW d, Shifted(s, t, m, n, d)
    PROVE  Matching(s, t, m, n, d)
<1>0. /\ IsSeq(s) /\ IsSeq(t) /\ m \in Nat /\ n \in Nat /\ d \in Nat
      /\ 1 <= m /\ n <= Len(s) /\ n + d <= Len(t) /\ \A i \in m .. n : s[i] = t[i + d]
  BY Zenon DEF Shifted
<1> DEFINE p == SubSeq(s, m, n)
           q == SubSeq(t, m + d, n + d)
           k == IF m <= n THEN n - m + 1 ELSE 0
<1>1. /\ IsSeq(p) /\ Len(p) = k
      /\ \A i \in 1 .. n - m + 1 : p[i] = s[m + i - 1]
  <2>1. PieceOf(s, m, n)
    BY <1>0, Piece, Zenon
  <2> QED BY <2>1, Zenon DEF PieceOf
<1>2. /\ m + d \in Nat /\ n + d \in Nat /\ 1 <= m + d
      /\ (n + d) - (m + d) + 1 = n - m + 1 /\ (m + d <= n + d <=> m <= n)
  BY ONLY <1>0, SMT
<1>3. /\ IsSeq(q) /\ Len(q) = k
      /\ \A i \in 1 .. n - m + 1 : q[i] = t[m + d + i - 1]
  <2>1. /\ IsSeq(q) /\ Len(q) = IF m + d <= n + d THEN (n + d) - (m + d) + 1 ELSE 0
        /\ \A i \in 1 .. (n + d) - (m + d) + 1 : q[i] = t[m + d + i - 1]
    <3>1. PieceOf(t, m + d, n + d)
      BY <1>0, <1>2, Piece, Zenon
    <3> QED BY <3>1, Zenon DEF PieceOf
  <2> HIDE DEF q
  <2> QED BY <1>2, <2>1, Zenon
<1> HIDE DEF p, q
<1>4. ASSUME NEW i \in 1 .. k PROVE p[i] = q[i]
  <2>1. i \in 1 .. n - m + 1 /\ m + i - 1 \in m .. n /\ (m + i - 1) + d = m + d + i - 1
    BY ONLY <1>0, i \in 1 .. k
  <2> QED BY <1>0, <1>1, <1>3, <2>1, Zenon
<1> HIDE DEF k
<1>5. PICK S : p \in Seq(S)
  BY <1>1, Zenon DEF IsSeq
<1>6. PICK T : q \in Seq(T)
  BY <1>3, Zenon DEF IsSeq
<1>7. p \in Seq(S \union T) /\ q \in Seq(S \union T)
  BY <1>5, <1>6, SeqMonotonic, Zenon
<1>8. p = q
  BY <1>1, <1>3, <1>4, <1>7, SeqEqual, Zenon
<1> QED BY <1>8, Zenon DEF p, q, Matching

-----------------------------------------------------------------------------
(* A body w up to p, the end of one of its lines: the last blank line, the field *)
(* lines after it, and the blank lines that ended an event.                      *)

LastBlank(w, p) == Max({0} \union {e \in BlankEnds(w) : e <= p})
OpenEnds(w, p) == {e \in LineEnds(w) : /\ LastBlank(w, p) < e /\ e <= p
                                       /\ ~Prefixed(LineAt(w, e), ":")}
ClosedEnds(w, p) == {e \in BlankEnds(w) : e <= p /\ FieldEnds(w, e) # {}}

\* The lines that end at p and at q follow each other.
Neighbours(w, p, q) ==
    /\ IsSeq(w) /\ p \in {0} \union LineEnds(w) /\ q \in LineEnds(w) /\ p < q
    /\ \A e \in LineEnds(w) : e <= p \/ q <= e

\* Where the lines of a body may end.
LEMMA EndsAre ==
    ASSUME NEW w, IsSeq(w)
    PROVE  /\ Len(w) \in Nat /\ BlankEnds(w) \subseteq LineEnds(w)
           /\ LineEnds(w) \subseteq 1 .. Len(w)
           /\ \A e \in {0} \union LineEnds(w) : e \in Nat /\ e \in 0 .. Len(w)
<1>1. Len(w) \in Nat /\ DOMAIN w = 1 .. Len(w)
  BY SeqFacts, Zenon
<1>2. LineEnds(w) \subseteq 1 .. Len(w)
  BY <1>1, Zenon DEF LineEnds
<1>3. \A e \in {0} \union LineEnds(w) : e \in Nat /\ e \in 0 .. Len(w)
  BY <1>1, <1>2
<1> QED BY <1>1, <1>2, <1>3, Zenon DEF BlankEnds

\* The last blank line of a body before a place.
LEMMA LastBlankIs ==
    ASSUME NEW w, IsSeq(w), NEW p \in Nat
    PROVE  /\ LastBlank(w, p) \in {0} \union BlankEnds(w)
           /\ LastBlank(w, p) \in Nat /\ LastBlank(w, p) <= p
           /\ \A e \in BlankEnds(w) : e <= p => e <= LastBlank(w, p)
<1> DEFINE S == {0} \union {e \in BlankEnds(w) : e <= p}
<1>1. S \in SUBSET (0 .. Len(w)) /\ S # {} /\ Len(w) \in Nat
  BY EndsAre, Zenon
<1>2. \A y \in S : y <= p /\ y \in Nat
  <2>1. 0 <= p /\ 0 \in Nat
    BY ONLY p \in Nat, SMT
  <2> QED BY <2>1, EndsAre, Zenon
<1>3. LastBlank(w, p) = Max(S)
  BY Zenon DEF LastBlank
<1>4. Max(S) \in S /\ \A y \in S : y <= Max(S)
  <2> HIDE DEF S
  <2> QED BY <1>1, MaxIs, Zenon
<1> QED BY <1>2, <1>3, <1>4, Zenon

\* What comes before q is what comes up to p.
LEMMA UpToNext ==
    ASSUME NEW w, NEW p, NEW q, Neighbours(w, p, q)
    PROVE  /\ p \in Nat /\ q \in Nat
           /\ \A e \in LineEnds(w) : (e < q <=> e <= p) /\ (e <= q <=> e <= p \/ e = q)
<1>1. IsSeq(w) /\ p \in {0} \union LineEnds(w) /\ q \in LineEnds(w) /\ p < q
  BY Zenon DEF Neighbours
<1>2. p \in Nat /\ q \in Nat
  BY <1>1, EndsAre, Zenon
<1>3. ASSUME NEW e \in LineEnds(w) PROVE (e < q <=> e <= p) /\ (e <= q <=> e <= p \/ e = q)
  <2>1. e \in Nat /\ (e <= p \/ q <= e)
    BY <1>1, EndsAre, Zenon DEF Neighbours
  <2> QED BY ONLY <1>1, <1>2, <2>1, SMT
<1> QED BY <1>2, <1>3, Zenon

\* The line that ends at q starts at p, and an event that ends there has the open fields.
LEMMA AtNext ==
    ASSUME NEW w, NEW p, NEW q, Neighbours(w, p, q)
    PROVE  /\ StartOf(w, q) = p /\ Before(w, q) = LastBlank(w, p)
           /\ FieldEnds(w, q) = OpenEnds(w, p)
<1>1. /\ IsSeq(w) /\ p \in {0} \union LineEnds(w) /\ q \in LineEnds(w) /\ p \in Nat
      /\ \A e \in LineEnds(w) : e < q <=> e <= p
  BY UpToNext, Zenon DEF Neighbours
<1>2. Len(w) \in Nat /\ BlankEnds(w) \subseteq LineEnds(w)
      /\ \A e \in {0} \union LineEnds(w) : e \in Nat /\ e \in 0 .. Len(w)
  BY <1>1, EndsAre, Zenon
<1>3. StartOf(w, q) = p
  <2> DEFINE S == {0} \union {e \in LineEnds(w) : e < q}
  <2>1. p <= p /\ 0 <= p
    BY ONLY <1>1, SMT
  <2>2. S \in SUBSET (0 .. Len(w)) /\ p \in S /\ \A y \in S : y <= p
    BY <1>1, <1>2, <2>1, Zenon
  <2>3. Max(S) = p
    <3> HIDE DEF S
    <3> QED BY <1>2, <2>2, MaxFits, Zenon
  <2> QED BY <2>3, Zenon DEF StartOf
<1>4. Before(w, q) = LastBlank(w, p)
  <2>1. {e \in BlankEnds(w) : e < q} = {e \in BlankEnds(w) : e <= p}
    BY <1>1, <1>2, Zenon
  <2> QED BY <2>1, Zenon DEF Before, LastBlank
<1>5. FieldEnds(w, q) = OpenEnds(w, p)
  BY <1>1, <1>4, Zenon DEF FieldEnds, OpenEnds
<1> QED BY <1>3, <1>4, <1>5, Zenon

\* Past a blank line nothing is open, and it ends an event if something was.
LEMMA PastBlank ==
    ASSUME NEW w, NEW p, NEW q, Neighbours(w, p, q), LineAt(w, q) = <<>>
    PROVE  /\ LastBlank(w, q) = q /\ OpenEnds(w, q) = {}
           /\ ClosedEnds(w, q) = IF OpenEnds(w, p) = {} THEN ClosedEnds(w, p)
                                 ELSE ClosedEnds(w, p) \union {q}
<1>1. /\ IsSeq(w) /\ q \in LineEnds(w) /\ p \in Nat /\ q \in Nat
      /\ \A e \in LineEnds(w) : e <= q <=> e <= p \/ e = q
  BY UpToNext, Zenon DEF Neighbours
<1>2. Len(w) \in Nat /\ BlankEnds(w) \subseteq LineEnds(w)
      /\ \A e \in {0} \union LineEnds(w) : e \in Nat /\ e \in 0 .. Len(w)
  BY <1>1, EndsAre, Zenon
<1>3. q \in BlankEnds(w)
  BY <1>1, Zenon DEF BlankEnds
<1>4. LastBlank(w, q) = q
  <2>1. /\ LastBlank(w, q) \in Nat /\ LastBlank(w, q) <= q
        /\ \A e \in BlankEnds(w) : e <= q => e <= LastBlank(w, q)
    BY <1>1, LastBlankIs, Zenon
  <2>2. q <= q
    BY ONLY <1>1, SMT
  <2>3. q <= LastBlank(w, q)
    BY <1>3, <2>1, <2>2, Zenon
  <2> QED BY ONLY <1>1, <2>1, <2>3, SMT
<1>5. OpenEnds(w, q) = {}
  <2>1. ASSUME NEW e \in LineEnds(w) PROVE ~(q < e /\ e <= q)
    <3>1. e \in Nat
      BY <1>2, Zenon
    <3> QED BY ONLY <1>1, <3>1, SMT
  <2> QED BY <1>4, <2>1, Zenon DEF OpenEnds
<1>6. FieldEnds(w, q) = OpenEnds(w, p)
  BY AtNext, Zenon
<1>7. \A e : e \in ClosedEnds(w, q) <=> e \in ClosedEnds(w, p) \/ (e = q /\ OpenEnds(w, p) # {})
  BY <1>1, <1>2, <1>3, <1>6, Zenon DEF ClosedEnds
<1> QED BY <1>4, <1>5, <1>7, Zenon

\* Past another line the event is still open, with one more field unless the line is
\* a comment.
LEMMA PastLine ==
    ASSUME NEW w, NEW p, NEW q, Neighbours(w, p, q), LineAt(w, q) # <<>>
    PROVE  /\ LastBlank(w, q) = LastBlank(w, p) /\ ClosedEnds(w, q) = ClosedEnds(w, p)
           /\ OpenEnds(w, q) = IF Prefixed(LineAt(w, q), ":") THEN OpenEnds(w, p)
                               ELSE OpenEnds(w, p) \union {q}
<1>1. /\ IsSeq(w) /\ q \in LineEnds(w) /\ p \in Nat /\ q \in Nat /\ p < q
      /\ \A e \in LineEnds(w) : e <= q <=> e <= p \/ e = q
  BY UpToNext, Zenon DEF Neighbours
<1>2. BlankEnds(w) \subseteq LineEnds(w) /\ q \notin BlankEnds(w)
  BY <1>1, EndsAre, Zenon DEF BlankEnds
<1>3. \A e \in BlankEnds(w) : e <= q <=> e <= p
  BY <1>1, <1>2, Zenon
<1>4. LastBlank(w, q) = LastBlank(w, p)
  <2>1. {e \in BlankEnds(w) : e <= q} = {e \in BlankEnds(w) : e <= p}
    BY <1>3, Zenon
  <2> QED BY <2>1, Zenon DEF LastBlank
<1>5. ClosedEnds(w, q) = ClosedEnds(w, p)
  BY <1>3, Zenon DEF ClosedEnds
<1>6. LastBlank(w, p) < q
  <2>1. LastBlank(w, p) \in Nat /\ LastBlank(w, p) <= p
    BY <1>1, LastBlankIs, Zenon
  <2> QED BY ONLY <1>1, <2>1, SMT
<1>7. \A e : e \in OpenEnds(w, q) <=> e \in OpenEnds(w, p) \/ (e = q /\ ~Prefixed(LineAt(w, q), ":"))
  BY <1>1, <1>4, <1>6, Zenon DEF OpenEnds
<1> QED BY <1>4, <1>5, <1>7, Zenon

\* Both sets are finite sets of places.
LEMMA EndsFinite ==
    ASSUME NEW w, IsSeq(w), NEW p \in Nat
    PROVE  /\ OpenEnds(w, p) \in SUBSET (0 .. Len(w)) /\ IsFiniteSet(OpenEnds(w, p))
           /\ ClosedEnds(w, p) \in SUBSET (0 .. Len(w)) /\ IsFiniteSet(ClosedEnds(w, p))
           /\ \A e \in OpenEnds(w, p) \union ClosedEnds(w, p) : e \in Nat /\ e <= p
<1>1. /\ Len(w) \in Nat /\ BlankEnds(w) \subseteq LineEnds(w)
      /\ \A e \in {0} \union LineEnds(w) : e \in Nat /\ e \in 0 .. Len(w)
  BY EndsAre, Zenon
<1>2. IsFiniteSet(0 .. Len(w))
  BY <1>1, FS_Interval
<1>3. /\ OpenEnds(w, p) \in SUBSET (0 .. Len(w)) /\ ClosedEnds(w, p) \in SUBSET (0 .. Len(w))
      /\ \A e \in OpenEnds(w, p) \union ClosedEnds(w, p) : e \in Nat /\ e <= p
  BY <1>1, Zenon DEF OpenEnds, ClosedEnds
<1> QED BY <1>2, <1>3, FS_Subset, Zenon

-----------------------------------------------------------------------------
(* One turn of Feed's loop, component by component. *)

Shape(a) == DOMAIN a = {"buffer", "processed", "offset", "bytes", "fields", "chunks", "events", "status"}
NewLines(a) == {i \in DOMAIN a.buffer : a.buffer[i] = "\n"}
FirstLine(a) == TrimCR(SubSeq(a.buffer, 1, Min(NewLines(a)) - 1))
WithChunk(a, n) == IF a.chunks = <<>> \/ a.chunks[Len(a.chunks)] # n THEN Append(a.chunks, n) ELSE a.chunks

\* The line is cut off the buffer.
CutOff(a, d) ==
    /\ Shape(d) /\ d.status = "open"
    /\ d.buffer = SubSeq(a.buffer, Min(NewLines(a)) + 1, Len(a.buffer))
    /\ d.processed = a.processed + Min(NewLines(a))

\* A blank line, a comment and a field line.
Blank(a, n, d) ==
    /\ CutOff(a, d) /\ d.chunks = <<>>
    /\ a.fields = <<>> => d.fields = a.fields /\ d.events = a.events
    /\ a.fields # <<>> =>
          /\ d.fields = <<>>
          /\ d.events = Append(a.events, [offset |-> a.offset, fields |-> a.fields, chunks |-> WithChunk(a, n)])
Comment(a, n, d) ==
    /\ CutOff(a, d) /\ d.chunks = WithChunk(a, n)
    /\ d.fields = a.fields /\ d.events = a.events /\ d.offset = a.offset
Field(a, n, d) ==
    /\ CutOff(a, d) /\ d.chunks = WithChunk(a, n)
    /\ d.fields = Append(a.fields, CutField(FirstLine(a))) /\ d.events = a.events
    /\ d.offset = IF a.fields = <<>> THEN a.processed ELSE a.offset

\* addCurrentChunk
LEMMA ChunkAdded ==
    ASSUME NEW a, Shape(a), NEW n
    PROVE  LET d == addCurrentChunk(a, n) IN
           /\ Shape(d) /\ d.chunks = WithChunk(a, n) /\ d.buffer = a.buffer /\ d.processed = a.processed
           /\ d.bytes = a.bytes /\ d.fields = a.fields /\ d.events = a.events /\ d.offset = a.offset
           /\ d.status = a.status
BY Zenon DEF addCurrentChunk, WithChunk, Shape

\* What a turn does that does not fail.
LEMMA TurnIs ==
    ASSUME NEW a, Shape(a), a.status = "open", NewLines(a) # {}, NEW n, drainLine(a, n).status = "open"
    PROVE  IF FirstLine(a) = <<>> THEN Blank(a, n, drainLine(a, n))
           ELSE IF Prefixed(FirstLine(a), ":") THEN Comment(a, n, drainLine(a, n))
           ELSE Field(a, n, drainLine(a, n))
<1> DEFINE line == FirstLine(a)
           nl == Min(NewLines(a))
           c == addCurrentChunk(a, n)
           cut == [c EXCEPT !.buffer = SubSeq(@, nl + 1, Len(@)), !.processed = @ + nl,
                            !.bytes = IF line = <<>> THEN @ ELSE @ + Len(line) + 1]
           d == drainLine(a, n)
<1>1. d = IF a.status # "open" \/ NewLines(a) = {} THEN a
          ELSE IF line # <<>> /\ \/ cut.bytes > MaxSSEBuffer
                                 \/ ~Prefixed(line, ":") /\ Len(a.fields) >= MaxSSEFields
          THEN [a EXCEPT !.status = "failed"]
          ELSE consumeLine(cut, line, a.processed)
  BY Zenon DEF drainLine, NewLines, FirstLine
<1>2. [a EXCEPT !.status = "failed"].status = "failed"
  BY Zenon DEF Shape
<1>3. d = consumeLine(cut, line, a.processed)
  <2> HIDE DEF d, cut, line
  <2>1. d.status = "open"
    BY Zenon DEF d
  <2> QED BY <1>1, <1>2, <2>1, Zenon
<1>4. /\ Shape(c) /\ c.chunks = WithChunk(a, n) /\ c.buffer = a.buffer /\ c.processed = a.processed
      /\ c.fields = a.fields /\ c.events = a.events /\ c.offset = a.offset /\ c.status = "open"
  BY ChunkAdded, Zenon
<1> HIDE DEF c, nl, line
<1>5. /\ Shape(cut) /\ cut.buffer = SubSeq(a.buffer, nl + 1, Len(a.buffer)) /\ cut.processed = a.processed + nl
      /\ cut.fields = a.fields /\ cut.events = a.events /\ cut.offset = a.offset /\ cut.status = "open"
      /\ cut.chunks = WithChunk(a, n)
  BY <1>4, Zenon DEF Shape
<1> HIDE DEF d, cut
<1>6. CASE line = <<>>
  <2>1. d = dispatch(cut)
    BY <1>3, <1>6, Zenon DEF consumeLine
  <2>2. CASE a.fields = <<>>
    <3>1. d = [cut EXCEPT !.bytes = 0, !.chunks = <<>>]
      BY <1>5, <2>1, <2>2, Zenon DEF dispatch
    <3>2. Blank(a, n, d)
      BY <1>5, <2>2, <3>1, Zenon DEF Shape, Blank, CutOff, nl
    <3> QED BY <1>6, <3>2, Zenon DEF d, line
  <2>3. CASE a.fields # <<>>
    <3>1. d = [cut EXCEPT !.events = Append(cut.events, [offset |-> cut.offset, fields |-> cut.fields,
                                                        chunks |-> cut.chunks]),
                          !.bytes = 0, !.fields = <<>>, !.chunks = <<>>]
      BY <1>5, <2>1, <2>3, Zenon DEF dispatch
    <3>2. Blank(a, n, d)
      BY <1>5, <2>3, <3>1, Zenon DEF Shape, Blank, CutOff, nl
    <3> QED BY <1>6, <3>2, Zenon DEF d, line
  <2> QED BY <2>2, <2>3, Zenon
<1>7. CASE line # <<>> /\ Prefixed(line, ":")
  <2>1. d = cut
    BY <1>3, <1>7, Zenon DEF consumeLine
  <2>2. Comment(a, n, d)
    BY <1>5, <2>1, Zenon DEF Comment, CutOff, nl
  <2> QED BY <1>7, <2>2, Zenon DEF d, line
<1>8. CASE line # <<>> /\ ~Prefixed(line, ":")
  <2>1. d = [cut EXCEPT !.offset = IF cut.fields = <<>> THEN a.processed ELSE cut.offset,
                        !.fields = Append(cut.fields, CutField(line))]
    BY <1>3, <1>8, Zenon DEF consumeLine
  <2>2. Field(a, n, d)
    BY <1>5, <2>1, Zenon DEF Shape, Field, CutOff, nl, line
  <2> QED BY <1>8, <2>2, Zenon DEF d, line
<1> QED BY <1>6, <1>7, <1>8, Zenon

\* A turn without a line to cut changes nothing, and a failure stays one.
LEMMA NoTurn ==
    ASSUME NEW a, a.status # "open" \/ NewLines(a) = {}, NEW n
    PROVE  drainLine(a, n) = a
BY Zenon DEF drainLine, NewLines

-----------------------------------------------------------------------------
(* What the assembler holds of a body w that came in the chunks ct, the n-th of  *)
(* which is being taken.                                                         *)

Holders(w, ct, end) ==
    {k \in DOMAIN ct : /\ ct[k] > Before(w, end)
                       /\ (IF k = 1 THEN 0 ELSE ct[k - 1]) < end}
FieldsAre(w, S, f) ==
    /\ IsSeq(f) /\ Len(f) = Cardinality(S)
    /\ \A i \in 1 .. Cardinality(S) : f[i] = CutField(LineAt(w, InOrder(S)[i]))
EventIs(w, ct, end, ev) ==
    /\ ev.offset = StartOf(w, InOrder(FieldEnds(w, end))[1])
    /\ FieldsAre(w, FieldEnds(w, end), ev.fields)
    /\ Holders(w, ct, end) \subseteq Range(ev.chunks)
EventsAre(w, ct, S, evs) ==
    /\ IsSeq(evs) /\ Len(evs) = Cardinality(S)
    /\ \A i \in 1 .. Cardinality(S) : EventIs(w, ct, InOrder(S)[i], evs[i])
Rest(w, p, buf) ==
    /\ IsSeq(buf) /\ p + Len(buf) = Len(w) /\ \A i \in 1 .. Len(buf) : buf[i] = w[p + i]
OffsetIs(w, S, offset) == S # {} => offset = StartOf(w, InOrder(S)[1])
ChunksHold(w, ct, n, p, chunks) ==
    /\ IsSeq(chunks)
    /\ \A k \in 1 .. n - 1 : ct[k] \in Nat /\ (ct[k] > LastBlank(w, p) => k \in Range(chunks))
Behind(w, ct, n, p) == \A e \in LineEnds(w) : p < e => \A k \in 1 .. n - 1 : ct[k] < e

Taken(w, ct, n, a) ==
    /\ IsSeq(w) /\ a.processed \in {0} \union LineEnds(w)
    /\ Rest(w, a.processed, a.buffer)
    /\ FieldsAre(w, OpenEnds(w, a.processed), a.fields)
    /\ OffsetIs(w, OpenEnds(w, a.processed), a.offset)
    /\ EventsAre(w, ct, ClosedEnds(w, a.processed), a.events)
    /\ ChunksHold(w, ct, n, a.processed, a.chunks)
    /\ Behind(w, ct, n, a.processed)

\* The first line of the buffer is the next line of the body.
LEMMA NextLine ==
    ASSUME NEW w, NEW a, IsSeq(w), a.processed \in {0} \union LineEnds(w),
           Rest(w, a.processed, a.buffer), NewLines(a) # {}
    PROVE  /\ Min(NewLines(a)) \in 1 .. Len(a.buffer)
           /\ Neighbours(w, a.processed, a.processed + Min(NewLines(a)))
           /\ FirstLine(a) = LineAt(w, a.processed + Min(NewLines(a)))
<1> DEFINE p == a.processed
           buf == a.buffer
           nl == Min(NewLines(a))
           q == p + nl
<1>1. IsSeq(buf) /\ p + Len(buf) = Len(w) /\ \A i \in 1 .. Len(buf) : buf[i] = w[p + i]
  BY Zenon DEF Rest
<1>2. Len(buf) \in Nat /\ DOMAIN buf = 1 .. Len(buf) /\ Len(w) \in Nat /\ DOMAIN w = 1 .. Len(w)
  BY <1>1, SeqFacts, Zenon
<1>3. p \in Nat
  BY EndsAre, Zenon
<1>4. NewLines(a) \in SUBSET Nat
  <2>1. 1 .. Len(buf) \subseteq Nat
    BY ONLY <1>2, SMT
  <2> QED BY <1>2, <2>1, Zenon DEF NewLines
<1>5. nl \in NewLines(a) /\ \A y \in NewLines(a) : nl <= y
  BY <1>4, MinIs, Zenon
<1>6. nl \in 1 .. Len(buf) /\ buf[nl] = "\n"
  BY <1>2, <1>5, Zenon DEF NewLines
<1> HIDE DEF nl, p
<1>a. p + Len(buf) = Len(w) /\ nl \in 1 .. Len(buf) /\ p \in Nat /\ Len(buf) \in Nat /\ Len(w) \in Nat
  BY <1>1, <1>2, <1>3, <1>6, Zenon
<1>7. q \in Nat /\ p < q /\ q \in 1 .. Len(w)
  BY ONLY <1>a, SMT
<1>8. q \in LineEnds(w)
  BY <1>1, <1>2, <1>6, <1>7, Zenon DEF LineEnds
<1>9. ASSUME NEW e \in LineEnds(w) PROVE e <= p \/ q <= e
  <2>1. e \in 1 .. Len(w) /\ w[e] = "\n"
    BY <1>2, Zenon DEF LineEnds
  <2>2. CASE e <= p
    BY <2>2, Zenon
  <2>3. CASE ~(e <= p)
    <3>1. e - p \in 1 .. Len(buf) /\ p + (e - p) = e
      BY ONLY <1>a, <2>1, <2>3, SMT
    <3>2. buf[e - p] = "\n"
      BY <1>1, <2>1, <3>1, Zenon
    <3>3. e - p \in NewLines(a)
      BY <1>2, <3>1, <3>2, Zenon DEF NewLines
    <3>4. nl <= e - p
      BY <1>5, <3>3, Zenon
    <3> QED BY ONLY <1>a, <2>1, <3>4, SMTT(30)
  <2> QED BY <2>2, <2>3, Zenon
<1>10. Neighbours(w, p, q)
  <2> HIDE DEF q
  <2> QED BY <1>7, <1>8, <1>9, Zenon DEF Neighbours, p
<1>11. SubSeq(buf, 1, nl - 1) = SubSeq(w, p + 1, q - 1)
  <2>1. /\ 1 \in Nat /\ nl - 1 \in Nat /\ 1 <= 1 /\ nl - 1 <= Len(buf) /\ (nl - 1) + p <= Len(w)
        /\ 1 + p = p + 1 /\ (nl - 1) + p = q - 1
    BY ONLY <1>a, SMT
  <2>2. \A i \in 1 .. nl - 1 : buf[i] = w[i + p]
    <3>1. ASSUME NEW i \in 1 .. nl - 1 PROVE buf[i] = w[i + p]
      <4>1. i \in 1 .. Len(buf) /\ p + i = i + p
        BY ONLY <1>a, i \in 1 .. nl - 1, SMT
      <4> QED BY <1>1, <4>1, Zenon
    <3> QED BY <3>1, Zenon
  <2>3. SubSeq(buf, 1, nl - 1) = SubSeq(w, 1 + p, (nl - 1) + p)
    <3>1. Shifted(buf, w, 1, nl - 1, p)
      BY <1>1, <1>3, <2>1, <2>2, Zenon DEF Shifted
    <3>2. Matching(buf, w, 1, nl - 1, p)
      BY ONLY <3>1, SamePiece, Zenon
    <3> QED BY ONLY <3>2, Zenon DEF Matching
  <2> QED BY <2>1, <2>3, Zenon
<1>12. StartOf(w, q) = p
  BY <1>10, AtNext, Zenon
<1>13. FirstLine(a) = LineAt(w, q)
  BY <1>11, <1>12, Zenon DEF FirstLine, LineAt, nl
<1> QED BY <1>6, <1>10, <1>13, Zenon DEF nl, p

\* What is left of the buffer.
LEMMA RestLeft ==
    ASSUME NEW w, IsSeq(w), NEW p \in Nat, NEW buf, Rest(w, p, buf), NEW nl \in 1 .. Len(buf)
    PROVE  /\ Rest(w, p + nl, SubSeq(buf, nl + 1, Len(buf)))
           /\ Len(SubSeq(buf, nl + 1, Len(buf))) < Len(buf)
<1> DEFINE new == SubSeq(buf, nl + 1, Len(buf))
<1>1. IsSeq(buf) /\ p + Len(buf) = Len(w) /\ \A i \in 1 .. Len(buf) : buf[i] = w[p + i]
  BY Zenon DEF Rest
<1>2. Len(buf) \in Nat /\ Len(w) \in Nat
  BY <1>1, SeqFacts, Zenon
<1>3. nl + 1 \in Nat /\ 1 <= nl + 1 /\ Len(buf) <= Len(buf) /\ nl \in Nat
  BY ONLY <1>2, nl \in 1 .. Len(buf), SMT
<1>4. PieceOf(buf, nl + 1, Len(buf))
  BY <1>1, <1>2, <1>3, Piece, Zenon
<1>5. /\ IsSeq(new) /\ Len(new) = IF nl + 1 <= Len(buf) THEN Len(buf) - (nl + 1) + 1 ELSE 0
      /\ \A i \in 1 .. Len(buf) - (nl + 1) + 1 : new[i] = buf[nl + 1 + i - 1]
  BY <1>4, Zenon DEF PieceOf
<1> HIDE DEF new
<1>6. Len(new) = Len(buf) - nl
  BY ONLY <1>2, <1>5, nl \in 1 .. Len(buf), SMT
<1>7. ASSUME NEW i \in 1 .. Len(new) PROVE new[i] = w[p + nl + i]
  <2>1. /\ i \in 1 .. Len(buf) - (nl + 1) + 1 /\ nl + 1 + i - 1 = nl + i
        /\ nl + i \in 1 .. Len(buf) /\ p + (nl + i) = p + nl + i
    BY ONLY <1>2, <1>6, nl \in 1 .. Len(buf), i \in 1 .. Len(new), p \in Nat, SMT
  <2>2. new[i] = buf[nl + i] /\ buf[nl + i] = w[p + (nl + i)]
    BY <1>1, <1>5, <2>1, Zenon
  <2> QED BY <2>1, <2>2, Zenon
<1>8. p + nl + Len(new) = Len(w) /\ Len(new) < Len(buf)
  BY ONLY <1>1, <1>2, <1>6, nl \in 1 .. Len(buf), p \in Nat, SMT
<1> QED BY <1>5, <1>7, <1>8, Zenon DEF Rest, new

\* The chunks of an event with the chunk being taken.
LEMMA ChunksGrow ==
    ASSUME NEW a, IsSeq(a.chunks), NEW n
    PROVE  /\ IsSeq(WithChunk(a, n)) /\ n \in Range(WithChunk(a, n))
           /\ Range(a.chunks) \subseteq Range(WithChunk(a, n))
<1> DEFINE s == a.chunks
           t == Append(s, n)
<1>1. Len(s) \in Nat /\ DOMAIN s = 1 .. Len(s) /\ (s = <<>> <=> Len(s) = 0)
  BY SeqFacts, Zenon
<1>2. CASE s = <<>> \/ s[Len(s)] # n
  <2>1. /\ IsSeq(t) /\ Len(t) = Len(s) + 1 /\ t[Len(s) + 1] = n
        /\ \A i \in 1 .. Len(s) : t[i] = s[i]
    <3>1. Grown(s, n, t)
      BY AppendGrows, Zenon
    <3> QED BY ONLY <3>1, Zenon DEF Grown
  <2>2. DOMAIN t = 1 .. Len(s) + 1
    <3>1. DOMAIN t = 1 .. Len(t)
      <4> HIDE DEF t
      <4> QED BY <2>1, SeqFacts, Zenon
    <3> QED BY <2>1, <3>1, Zenon
  <2> HIDE DEF t
  <2>3. Len(s) + 1 \in 1 .. Len(s) + 1 /\ \A i \in 1 .. Len(s) : i \in 1 .. Len(s) + 1
    BY ONLY <1>1, SMT
  <2>4. n \in Range(t) /\ Range(s) \subseteq Range(t)
    BY <1>1, <2>1, <2>2, <2>3, Zenon DEF Range
  <2>5. WithChunk(a, n) = t
    BY <1>2, Zenon DEF WithChunk, t
  <2> QED BY <2>1, <2>4, <2>5, Zenon
<1>3. CASE ~(s = <<>> \/ s[Len(s)] # n)
  <2>1. Len(s) \in 1 .. Len(s)
    BY <1>1, <1>3
  <2>2. n \in Range(s)
    BY <1>1, <1>3, <2>1, Zenon DEF Range
  <2>3. WithChunk(a, n) = s
    BY <1>3, Zenon DEF WithChunk
  <2> QED BY <2>2, <2>3, Zenon
<1> QED BY <1>2, <1>3, Zenon

\* A field more.
LEMMA FieldMore ==
    ASSUME NEW w, NEW S \in SUBSET Nat, IsFiniteSet(S), NEW q \in Nat, \A x \in S : x < q,
           NEW f, FieldsAre(w, S, f)
    PROVE  FieldsAre(w, S \union {q}, Append(f, CutField(LineAt(w, q))))
<1> DEFINE g == Append(f, CutField(LineAt(w, q)))
           c == Cardinality(S)
<1>1. IsSeq(f) /\ Len(f) = c /\ \A i \in 1 .. c : f[i] = CutField(LineAt(w, InOrder(S)[i]))
  BY Zenon DEF FieldsAre
<1>2. IsSeq(g) /\ Len(g) = c + 1 /\ (\A i \in 1 .. c : g[i] = f[i]) /\ g[c + 1] = CutField(LineAt(w, q))
  <2>1. Grown(f, CutField(LineAt(w, q)), g)
    BY <1>1, AppendGrows, Zenon
  <2> HIDE DEF g
  <2> QED BY ONLY <1>1, <2>1, Zenon DEF Grown
<1>3. Longer(S, q)
  BY InOrderLonger, Zenon
<1>4. /\ Cardinality(S \union {q}) = c + 1 /\ c \in Nat
      /\ \A i \in 1 .. c : InOrder(S \union {q})[i] = InOrder(S)[i]
      /\ InOrder(S \union {q})[c + 1] = q
  BY <1>3, Zenon DEF Longer
<1> HIDE DEF g, c
<1>5. ASSUME NEW i \in 1 .. c + 1 PROVE g[i] = CutField(LineAt(w, InOrder(S \union {q})[i]))
  <2>1. i \in 1 .. c \/ i = c + 1
    BY ONLY <1>4, i \in 1 .. c + 1, SMT
  <2> QED BY <1>1, <1>2, <1>4, <2>1, Zenon
<1> QED BY <1>2, <1>4, <1>5, Zenon DEF FieldsAre, g

\* An event more.
LEMMA EventMore ==
    ASSUME NEW w, NEW ct, NEW S \in SUBSET Nat, IsFiniteSet(S), NEW q \in Nat, \A x \in S : x < q,
           NEW evs, EventsAre(w, ct, S, evs), NEW ev, EventIs(w, ct, q, ev)
    PROVE  EventsAre(w, ct, S \union {q}, Append(evs, ev))
<1> DEFINE g == Append(evs, ev)
           c == Cardinality(S)
<1>1. IsSeq(evs) /\ Len(evs) = c /\ \A i \in 1 .. c : EventIs(w, ct, InOrder(S)[i], evs[i])
  BY Zenon DEF EventsAre
<1>2. IsSeq(g) /\ Len(g) = c + 1 /\ (\A i \in 1 .. c : g[i] = evs[i]) /\ g[c + 1] = ev
  <2>1. Grown(evs, ev, g)
    BY <1>1, AppendGrows, Zenon
  <2> HIDE DEF g
  <2> QED BY ONLY <1>1, <2>1, Zenon DEF Grown
<1>3. Longer(S, q)
  BY InOrderLonger, Zenon
<1>4. /\ Cardinality(S \union {q}) = c + 1 /\ c \in Nat
      /\ \A i \in 1 .. c : InOrder(S \union {q})[i] = InOrder(S)[i]
      /\ InOrder(S \union {q})[c + 1] = q
  BY <1>3, Zenon DEF Longer
<1> HIDE DEF g, c
<1>5. ASSUME NEW i \in 1 .. c + 1 PROVE EventIs(w, ct, InOrder(S \union {q})[i], g[i])
  <2>1. i \in 1 .. c \/ i = c + 1
    BY ONLY <1>4, i \in 1 .. c + 1, SMT
  <2> QED BY <1>1, <1>2, <1>4, <2>1, Zenon
<1> QED BY <1>2, <1>4, <1>5, Zenon DEF EventsAre, g

\* The offset of an event is that of its first field.
LEMMA OffsetMore ==
    ASSUME NEW w, NEW S \in SUBSET Nat, IsFiniteSet(S), NEW q \in Nat, \A x \in S : x < q,
           NEW f, FieldsAre(w, S, f), NEW offset, OffsetIs(w, S, offset)
    PROVE  OffsetIs(w, S \union {q}, IF f = <<>> THEN StartOf(w, q) ELSE offset)
<1> DEFINE c == Cardinality(S)
           L == InOrder(S \union {q})
<1>1. IsSeq(f) /\ Len(f) = c /\ (f = <<>> <=> Len(f) = 0)
  BY SeqFacts, Zenon DEF FieldsAre
<1>2. Longer(S, q)
  BY InOrderLonger, Zenon
<1>3. c \in Nat /\ L[c + 1] = q /\ \A i \in 1 .. c : L[i] = InOrder(S)[i]
  BY <1>2, Zenon DEF Longer
<1>4. c = 0 <=> S = {}
  BY FS_EmptySet, Zenon
<1> HIDE DEF c, L
<1>5. CASE f = <<>>
  <2>1. c = 0 /\ c + 1 = 1
    BY <1>1, <1>5
  <2>2. L[1] = q
    BY <1>3, <2>1, Zenon
  <2> QED BY <1>5, <2>2, Zenon DEF OffsetIs, L
<1>6. CASE f # <<>>
  <2>1. c # 0
    BY <1>1, <1>6, Zenon
  <2>2. 1 \in 1 .. c
    BY ONLY <1>3, <2>1, SMT
  <2>3. L[1] = InOrder(S)[1] /\ S # {}
    BY <1>3, <1>4, <2>1, <2>2, Zenon
  <2> QED BY <1>6, <2>3, Zenon DEF OffsetIs, L
<1> QED BY <1>5, <1>6, Zenon

\* A turn takes one line more.
LEMMA TurnKeeps ==
    ASSUME NEW w, NEW ct, NEW n \in Nat, DOMAIN ct = 1 .. n, NEW a, Shape(a), a.status = "open",
           Taken(w, ct, n, a), NewLines(a) # {}, drainLine(a, n).status = "open"
    PROVE  /\ Taken(w, ct, n, drainLine(a, n)) /\ Shape(drainLine(a, n))
           /\ Len(drainLine(a, n).buffer) < Len(a.buffer)
<1> DEFINE p == a.processed
           q == p + Min(NewLines(a))
           d == drainLine(a, n)
           O == OpenEnds(w, p)
           C == ClosedEnds(w, p)
<1>1. /\ IsSeq(w) /\ p \in {0} \union LineEnds(w) /\ Rest(w, p, a.buffer)
      /\ FieldsAre(w, O, a.fields) /\ OffsetIs(w, O, a.offset) /\ EventsAre(w, ct, C, a.events)
      /\ ChunksHold(w, ct, n, p, a.chunks) /\ Behind(w, ct, n, p)
  BY Zenon DEF Taken
<1>2. /\ Min(NewLines(a)) \in 1 .. Len(a.buffer) /\ Neighbours(w, p, q) /\ FirstLine(a) = LineAt(w, q)
  BY <1>1, NextLine, Zenon
<1>3. p \in Nat /\ q \in Nat /\ p < q /\ q \in LineEnds(w)
  <2> HIDE DEF p, q
  <2>1. p < q /\ q \in LineEnds(w)
    BY <1>2, Zenon DEF Neighbours
  <2> QED BY <1>1, <2>1, EndsAre, Zenon
<1>4. IF FirstLine(a) = <<>> THEN Blank(a, n, d)
      ELSE IF Prefixed(FirstLine(a), ":") THEN Comment(a, n, d)
      ELSE Field(a, n, d)
  BY TurnIs, Zenon
<1>5. Shape(d) /\ d.buffer = SubSeq(a.buffer, Min(NewLines(a)) + 1, Len(a.buffer)) /\ d.processed = q
  BY <1>4, Zenon DEF Blank, Comment, Field, CutOff
<1>6. Rest(w, q, d.buffer) /\ Len(d.buffer) < Len(a.buffer)
  BY <1>1, <1>2, <1>3, <1>5, RestLeft, Zenon
<1>7. /\ IsSeq(WithChunk(a, n)) /\ n \in Range(WithChunk(a, n))
      /\ Range(a.chunks) \subseteq Range(WithChunk(a, n))
  BY <1>1, ChunksGrow, Zenon DEF ChunksHold
<1>8. /\ O \in SUBSET Nat /\ IsFiniteSet(O) /\ (\A x \in O : x < q)
      /\ C \in SUBSET Nat /\ IsFiniteSet(C) /\ (\A x \in C : x < q)
  <2>1. /\ IsFiniteSet(O) /\ IsFiniteSet(C) /\ \A e \in O \union C : e \in Nat /\ e <= p
    BY <1>1, <1>3, EndsFinite, Zenon
  <2>2. ASSUME NEW x \in O \union C PROVE x < q
    <3>1. x \in Nat /\ x <= p
      BY <2>1, Zenon
    <3> QED BY ONLY <1>3, <3>1, SMT
  <2> QED BY <2>1, <2>2, Zenon
<1> HIDE DEF d, q, p, O, C
<1>9. Behind(w, ct, n, q)
  <2>1. ASSUME NEW e \in LineEnds(w), q < e PROVE p < e
    <3>1. e \in Nat
      BY <1>1, EndsAre, Zenon
    <3> QED BY ONLY <1>3, <2>1, <3>1, SMT
  <2> QED BY <1>1, <2>1, Zenon DEF Behind
<1>10. /\ StartOf(w, q) = p /\ Before(w, q) = LastBlank(w, p) /\ FieldEnds(w, q) = O
  BY <1>2, AtNext, Zenon DEF O
<1>11. CASE FirstLine(a) = <<>>
  <2>1. LastBlank(w, q) = q /\ OpenEnds(w, q) = {} /\ ClosedEnds(w, q) = IF O = {} THEN C ELSE C \union {q}
    <3>1. LineAt(w, q) = <<>> /\ Neighbours(w, p, q)
      BY <1>2, <1>11, Zenon
    <3> QED BY ONLY <3>1, PastBlank DEF O, C
  <2>2. Blank(a, n, d)
    BY <1>4, <1>11, Zenon
  <2>3. ChunksHold(w, ct, n, q, d.chunks)
    <3>1. IsSeq(d.chunks)
      BY <2>2, EmptyIsSeq, Zenon DEF Blank
    <3>2. ASSUME NEW k \in 1 .. n - 1 PROVE ct[k] \in Nat /\ ~(ct[k] > q)
      <4>1. ct[k] \in Nat /\ ct[k] < q
        BY <1>1, <1>3, Zenon DEF ChunksHold, Behind
      <4> QED BY ONLY <1>3, <4>1, SMT
    <3> QED BY <2>1, <3>1, <3>2, Zenon DEF ChunksHold
  <2>4. FieldsAre(w, {}, <<>>) /\ OffsetIs(w, {}, d.offset)
    <3>1. Cardinality({}) = 0 /\ IsSeq(<<>>) /\ Len(<<>>) = 0
      BY FS_EmptySet, EmptyIsSeq, Zenon
    <3>2. 1 .. 0 = {}
      OBVIOUS
    <3> QED BY <3>1, <3>2, Zenon DEF FieldsAre, OffsetIs
  <2>5. IsSeq(a.fields) /\ Len(a.fields) = Cardinality(O) /\ (a.fields = <<>> <=> Len(a.fields) = 0)
    BY <1>1, SeqFacts, Zenon DEF FieldsAre
  <2>6. a.fields = <<>> <=> O = {}
    BY <1>8, <2>5, FS_EmptySet, Zenon
  <2>7. d.fields = <<>>
    BY <2>2, Zenon DEF Blank
  <2>8. EventsAre(w, ct, ClosedEnds(w, q), d.events)
    <3>1. CASE O = {}
      BY <1>1, <2>1, <2>2, <2>6, <3>1, Zenon DEF Blank
    <3>2. CASE O # {}
      <4> DEFINE ev == [offset |-> a.offset, fields |-> a.fields, chunks |-> WithChunk(a, n)]
      <4>1. ev.offset = a.offset /\ ev.fields = a.fields /\ ev.chunks = WithChunk(a, n)
        BY Zenon
      <4>2. d.events = Append(a.events, ev)
        BY <2>2, <2>6, <3>2, Zenon DEF Blank
      <4> HIDE DEF ev
      <4>3. Holders(w, ct, q) \subseteq Range(WithChunk(a, n))
        <5>1. ASSUME NEW k \in 1 .. n, ct[k] > LastBlank(w, p) PROVE k \in Range(WithChunk(a, n))
          <6>1. k \in 1 .. n - 1 \/ k = n
            BY ONLY n \in Nat, k \in 1 .. n, SMT
          <6> QED BY <1>1, <1>7, <5>1, <6>1, Zenon DEF ChunksHold
        <5> QED BY <1>10, <5>1, Zenon DEF Holders
      <4>4. EventIs(w, ct, q, ev)
        BY <1>1, <1>10, <3>2, <4>1, <4>3, Zenon DEF EventIs, OffsetIs
      <4>5. EventsAre(w, ct, C \union {q}, Append(a.events, ev))
        BY <1>1, <1>3, <1>8, <4>4, EventMore, Zenon
      <4> QED BY <2>1, <3>2, <4>2, <4>5, Zenon
    <3> QED BY <3>1, <3>2, Zenon
  <2>9. Taken(w, ct, n, d)
    BY <1>1, <1>3, <1>5, <1>6, <1>9, <2>1, <2>3, <2>4, <2>7, <2>8, Zenon DEF Taken
  <2> QED BY <1>5, <1>6, <2>9, Zenon DEF d
<1>12. CASE FirstLine(a) # <<>>
  <2>1. /\ LastBlank(w, q) = LastBlank(w, p) /\ ClosedEnds(w, q) = C
        /\ OpenEnds(w, q) = IF Prefixed(FirstLine(a), ":") THEN O ELSE O \union {q}
    <3>1. LineAt(w, q) # <<>> /\ Neighbours(w, p, q) /\ FirstLine(a) = LineAt(w, q)
      BY <1>2, <1>12, Zenon
    <3> QED BY ONLY <3>1, PastLine DEF O, C
  <2>2. d.chunks = WithChunk(a, n) /\ d.events = a.events
    BY <1>4, <1>12, Zenon DEF Comment, Field
  <2>3. ChunksHold(w, ct, n, q, d.chunks)
    BY <1>1, <1>7, <2>1, <2>2, Zenon DEF ChunksHold
  <2>4. FieldsAre(w, OpenEnds(w, q), d.fields) /\ OffsetIs(w, OpenEnds(w, q), d.offset)
    <3>1. CASE Prefixed(FirstLine(a), ":")
      BY <1>1, <1>4, <1>12, <2>1, <3>1, Zenon DEF Comment
    <3>2. CASE ~Prefixed(FirstLine(a), ":")
      <4>1. /\ d.fields = Append(a.fields, CutField(LineAt(w, q)))
            /\ d.offset = IF a.fields = <<>> THEN StartOf(w, q) ELSE a.offset
        BY <1>2, <1>4, <1>10, <1>12, <3>2, Zenon DEF Field, p
      <4>2. FieldsAre(w, O \union {q}, Append(a.fields, CutField(LineAt(w, q))))
        BY <1>1, <1>3, <1>8, FieldMore, Zenon
      <4>3. OffsetIs(w, O \union {q}, IF a.fields = <<>> THEN StartOf(w, q) ELSE a.offset)
        BY <1>1, <1>3, <1>8, OffsetMore, Zenon
      <4> QED BY <2>1, <3>2, <4>1, <4>2, <4>3, Zenon
    <3> QED BY <3>1, <3>2, Zenon
  <2>5. Taken(w, ct, n, d)
    BY <1>1, <1>3, <1>5, <1>6, <1>9, <2>1, <2>2, <2>3, <2>4, Zenon DEF Taken
  <2> QED BY <1>5, <1>6, <2>5, Zenon DEF d
<1> QED BY <1>11, <1>12, Zenon

-----------------------------------------------------------------------------
(* Feed's loop. *)

Turns(a, n, N, t) == t = [k \in 0 .. N |-> IF k = 0 THEN a ELSE drainLine(t[k - 1], n)]

\* The loop is defined, however many turns it has.
LEMMA TurnsExist ==
    ASSUME NEW a, NEW n, NEW N \in Nat
    PROVE  \E t : Turns(a, n, N, t)
<1> DEFINE B == {m \in Nat : ~\E t : Turns(a, n, m, t)}
<1>1. SUFFICES ASSUME B # {} PROVE FALSE
  BY Zenon
<1>2. PICK m \in B : \A k \in B : m <= k
  <2>1. B \in SUBSET Nat
    BY Zenon
  <2> HIDE DEF B
  <2> QED BY <1>1, <2>1, LeastNat, Zenon
<1>3. m \in Nat /\ ~\E t : Turns(a, n, m, t)
  BY <1>2, Zenon
<1>4. CASE m = 0
  <2> DEFINE f == [k \in 0 .. 0 |-> a]
  <2>1. \A k \in 0 .. 0 : k = 0
    OBVIOUS
  <2>2. f = [k \in 0 .. 0 |-> IF k = 0 THEN a ELSE drainLine(f[k - 1], n)]
    BY <2>1, Zenon
  <2> HIDE DEF f
  <2> QED BY <1>3, <1>4, <2>2, Zenon DEF Turns
<1>5. CASE m # 0
  <2>1. m - 1 \in Nat /\ ~(m <= m - 1) /\ m \in 0 .. m /\ m - 1 \in 0 .. m /\ m - 1 # m /\ m - 1 \in 0 .. m - 1
    BY ONLY <1>3, <1>5, SMT
  <2>2. m - 1 \notin B
    BY <1>2, <2>1, Zenon
  <2>3. PICK f : Turns(a, n, m - 1, f)
    BY <2>1, <2>2, Zenon
  <2>4. \A k \in 0 .. m - 1 : f[k] = IF k = 0 THEN a ELSE drainLine(f[k - 1], n)
    BY <2>3, Zenon DEF Turns
  <2> DEFINE g == [k \in 0 .. m |-> IF k = m THEN drainLine(f[m - 1], n) ELSE f[k]]
  <2>5. \A k \in 0 .. m : g[k] = IF k = m THEN drainLine(f[m - 1], n) ELSE f[k]
    BY Zenon
  <2>6. g = [k \in 0 .. m |-> g[k]]
    BY Zenon
  <2> HIDE DEF g
  <2>7. ASSUME NEW k \in 0 .. m PROVE g[k] = IF k = 0 THEN a ELSE drainLine(g[k - 1], n)
    <3>1. CASE k = m
      BY <1>5, <2>1, <2>5, <3>1, Zenon
    <3>2. CASE k # m /\ k = 0
      <4>1. k \in 0 .. m - 1
        BY ONLY <1>3, <3>2, k \in 0 .. m, SMT
      <4> QED BY <2>4, <2>5, <3>2, <4>1, Zenon
    <3>3. CASE k # m /\ k # 0
      <4>1. k \in 0 .. m - 1 /\ k - 1 \in 0 .. m /\ k - 1 # m
        BY ONLY <1>3, <3>3, k \in 0 .. m, SMT
      <4>2. g[k] = f[k] /\ g[k - 1] = f[k - 1] /\ f[k] = drainLine(f[k - 1], n)
        BY <2>4, <2>5, <3>3, <4>1, Zenon
      <4> QED BY <3>3, <4>2, Zenon
    <3> QED BY <3>1, <3>2, <3>3, Zenon
  <2>8. Turns(a, n, m, g)
    BY <2>6, <2>7, Zenon DEF Turns
  <2> QED BY <1>3, <2>8, Zenon
<1> QED BY <1>4, <1>5, Zenon

\* The end of the loop.
Ended(r, n) == IF r.status # "open" THEN r
               ELSE IF r.bytes + Len(r.buffer) > MaxSSEBuffer THEN [r EXCEPT !.status = "failed"]
               ELSE addCurrentChunk(r, n)

\* What drain makes of the state the turns end in.
LEMMA DrainIs ==
    ASSUME NEW a, NEW n, Len(a.buffer) \in Nat
    PROVE  \E t : Turns(a, n, Len(a.buffer), t) /\ drain(a, n) = Ended(t[Len(a.buffer)], n)
<1> DEFINE g == CHOOSE t : Turns(a, n, Len(a.buffer), t)
<1>1. Turns(a, n, Len(a.buffer), g)
  BY TurnsExist, Zenon
<1>2. drain(a, n) = Ended(g[Len(a.buffer)], n)
  BY Zenon DEF drain, Ended, Turns
<1> HIDE DEF g
<1> QED BY <1>1, <1>2, Zenon

\* A turn keeps the assembler's components.
LEMMA TurnShape ==
    ASSUME NEW a, Shape(a), NEW n
    PROVE  Shape(drainLine(a, n))
<1>1. \A x : Shape(x) => Shape(dispatch(x))
  BY Zenon DEF Shape, dispatch
<1>2. \A x, line, start : Shape(x) => Shape(consumeLine(x, line, start))
  BY <1>1, Zenon DEF Shape, consumeLine
<1>3. Shape(addCurrentChunk(a, n)) /\ Shape([a EXCEPT !.status = "failed"])
  BY Zenon DEF Shape, addCurrentChunk
<1>4. \A x, nl, line : Shape(x) => Shape([x EXCEPT !.buffer = SubSeq(@, nl + 1, Len(@)), !.processed = @ + nl,
                                              !.bytes = IF line = <<>> THEN @ ELSE @ + Len(line) + 1])
  BY Zenon DEF Shape
<1> QED BY <1>2, <1>3, <1>4, Zenon DEF drainLine

\* The loop takes the complete lines of the buffer.
Looped(w, ct, n, x, m) ==
    /\ Shape(x)
    /\ x.status = "open" => Taken(w, ct, n, x) /\ (NewLines(x) = {} \/ Len(x.buffer) <= m)

\* Every turn keeps what was taken, and takes a line while the buffer has one.
LEMMA LoopKeeps ==
    ASSUME NEW w, NEW ct, NEW n \in Nat, DOMAIN ct = 1 .. n, NEW a, Shape(a), a.status = "open",
           Taken(w, ct, n, a), NEW N \in Nat, N = Len(a.buffer), NEW t, Turns(a, n, N, t)
    PROVE  \A k \in 0 .. N : Looped(w, ct, n, t[k], N - k)
<1> DEFINE B == {k \in 0 .. N : ~Looped(w, ct, n, t[k], N - k)}
<1>1. SUFFICES ASSUME B # {} PROVE FALSE
  BY Zenon
<1>2. PICK m \in B : \A k \in B : m <= k
  <2>1. B \in SUBSET Nat
    <3>1. 0 .. N \subseteq Nat
      BY ONLY N \in Nat, SMT
    <3> QED BY <3>1, Zenon
  <2> HIDE DEF B
  <2> QED BY <1>1, <2>1, LeastNat, Zenon
<1>3. m \in 0 .. N /\ ~Looped(w, ct, n, t[m], N - m)
  BY <1>2, Zenon
<1>4. t[m] = IF m = 0 THEN a ELSE drainLine(t[m - 1], n)
  BY <1>3, Zenon DEF Turns
<1>5. CASE m = 0
  <2>1. Len(a.buffer) <= N - m
    BY ONLY <1>5, N \in Nat, N = Len(a.buffer), SMT
  <2> QED BY <1>3, <1>4, <1>5, <2>1, Zenon DEF Looped
<1>6. CASE m # 0
  <2>1. m - 1 \in 0 .. N /\ ~(m <= m - 1)
    BY ONLY <1>3, <1>6, N \in Nat, SMT
  <2> DEFINE x == t[m - 1]
             d == drainLine(x, n)
  <2>2. Looped(w, ct, n, x, N - (m - 1))
    BY <1>2, <2>1, Zenon
  <2>3. ~Looped(w, ct, n, d, N - m) /\ Shape(x)
    BY <1>3, <1>4, <1>6, <2>2, Zenon DEF Looped
  <2> HIDE DEF x, d
  <2>4. Shape(d)
    BY <2>3, TurnShape, Zenon DEF d
  <2>5. d.status = "open"
    BY <2>3, <2>4, Zenon DEF Looped
  <2>6. CASE x.status # "open" \/ NewLines(x) = {}
    <3>1. d = x
      BY <2>6, NoTurn, Zenon DEF d
    <3> QED BY <2>2, <2>3, <2>5, <2>6, <3>1, Zenon DEF Looped
  <2>7. CASE x.status = "open" /\ NewLines(x) # {}
    <3>1. Taken(w, ct, n, x) /\ Len(x.buffer) <= N - (m - 1)
      BY <2>2, <2>7, Zenon DEF Looped
    <3>2. Taken(w, ct, n, d) /\ Len(d.buffer) < Len(x.buffer)
      BY <2>3, <2>5, <2>7, <3>1, TurnKeeps, Zenon DEF d
    <3>3. Len(x.buffer) \in Nat /\ Len(d.buffer) \in Nat
      BY <3>1, <3>2, SeqFacts, Zenon DEF Taken, Rest
    <3>4. Len(d.buffer) <= N - m
      BY ONLY <1>3, <3>1, <3>2, <3>3, N \in Nat, SMTT(30)
    <3> QED BY <2>3, <2>4, <3>2, <3>4, Zenon DEF Looped
  <2> QED BY <2>6, <2>7, Zenon
<1> QED BY <1>5, <1>6, Zenon

\* Feed's loop as a whole.
LEMMA DrainKeeps ==
    ASSUME NEW w, NEW ct, NEW n \in Nat, DOMAIN ct = 1 .. n, NEW a, Shape(a), a.status = "open",
           Taken(w, ct, n, a)
    PROVE  LET d == drain(a, n) IN
           /\ Shape(d)
           /\ d.status = "open" => Taken(w, ct, n, d) /\ NewLines(d) = {} /\ n \in Range(d.chunks)
<1> DEFINE N == Len(a.buffer)
           d == drain(a, n)
<1>1. N \in Nat
  BY SeqFacts, Zenon DEF Taken, Rest
<1>2. PICK t : Turns(a, n, N, t) /\ d = Ended(t[N], n)
  BY <1>1, DrainIs, Zenon
<1> DEFINE r == t[N]
<1>3. Looped(w, ct, n, r, N - N)
  <2>1. N \in 0 .. N
    BY ONLY <1>1, SMT
  <2>2. \A k \in 0 .. N : Looped(w, ct, n, t[k], N - k)
    BY <1>1, <1>2, LoopKeeps, Zenon
  <2> HIDE DEF N
  <2> QED BY <2>1, <2>2, Zenon
<1> HIDE DEF N, d, r
<1>4. Shape(r) /\ [r EXCEPT !.status = "failed"].status = "failed" /\ Shape([r EXCEPT !.status = "failed"])
  BY <1>3, Zenon DEF Looped, Shape
<1>5. /\ Shape(addCurrentChunk(r, n)) /\ addCurrentChunk(r, n).chunks = WithChunk(r, n)
      /\ addCurrentChunk(r, n).buffer = r.buffer /\ addCurrentChunk(r, n).processed = r.processed
      /\ addCurrentChunk(r, n).fields = r.fields /\ addCurrentChunk(r, n).events = r.events
      /\ addCurrentChunk(r, n).offset = r.offset
  BY <1>4, Zenon DEF addCurrentChunk, WithChunk, Shape
<1>6. Shape(d)
  BY <1>2, <1>4, <1>5, Zenon DEF Ended, r
<1>7. ASSUME d.status = "open" PROVE Taken(w, ct, n, d) /\ NewLines(d) = {} /\ n \in Range(d.chunks)
  <2>1. r.status = "open" /\ d = addCurrentChunk(r, n)
    BY <1>2, <1>4, <1>7, Zenon DEF Ended, r
  <2>2. Taken(w, ct, n, r) /\ (NewLines(r) = {} \/ Len(r.buffer) <= N - N)
    BY <1>3, <2>1, Zenon DEF Looped
  <2>3. NewLines(r) = {}
    <3>1. Len(r.buffer) \in Nat /\ DOMAIN r.buffer = 1 .. Len(r.buffer)
      BY <2>2, SeqFacts, Zenon DEF Taken, Rest
    <3>2. CASE Len(r.buffer) <= N - N
      <4>1. 1 .. Len(r.buffer) = {}
        BY ONLY <1>1, <3>1, <3>2
      <4> QED BY <3>1, <4>1, Zenon DEF NewLines
    <3> QED BY <2>2, <3>2, Zenon
  <2>4. /\ d.chunks = WithChunk(r, n) /\ d.buffer = r.buffer /\ d.processed = r.processed
        /\ d.fields = r.fields /\ d.events = r.events /\ d.offset = r.offset
    BY <1>5, <2>1, Zenon
  <2>5. /\ IsSeq(WithChunk(r, n)) /\ n \in Range(WithChunk(r, n))
        /\ Range(r.chunks) \subseteq Range(WithChunk(r, n))
    BY <2>2, ChunksGrow, Zenon DEF Taken, ChunksHold
  <2>6. ChunksHold(w, ct, n, d.processed, d.chunks)
    BY <2>2, <2>4, <2>5, Zenon DEF Taken, ChunksHold
  <2>7. Taken(w, ct, n, d)
    BY <2>2, <2>4, <2>6, Zenon DEF Taken
  <2>8. NewLines(d) = {}
    BY <2>3, <2>4, Zenon DEF NewLines
  <2> QED BY <2>4, <2>5, <2>7, <2>8, Zenon
<1> QED BY <1>6, <1>7, Zenon DEF d

-----------------------------------------------------------------------------
(* Bytes that arrive later leave what was taken as it is. *)

Within(w, v) == /\ IsSeq(w) /\ IsSeq(v) /\ Len(w) <= Len(v)
                /\ \A i \in 1 .. Len(w) : v[i] = w[i]

\* The lines that end within the first bytes.
LEMMA EndsStay ==
    ASSUME NEW w, NEW v, Within(w, v)
    PROVE  \A e : e \in LineEnds(w) <=> e \in LineEnds(v) /\ e <= Len(w)
<1>1. /\ Len(w) \in Nat /\ DOMAIN w = 1 .. Len(w) /\ Len(v) \in Nat /\ DOMAIN v = 1 .. Len(v)
      /\ Len(w) <= Len(v) /\ \A i \in 1 .. Len(w) : v[i] = w[i]
  BY SeqFacts, Zenon DEF Within
<1>2. \A e : e \in 1 .. Len(w) <=> e \in 1 .. Len(v) /\ e <= Len(w)
  <2>1. Len(w) \in Nat /\ Len(v) \in Nat /\ Len(w) <= Len(v)
    BY <1>1, Zenon
  <2> QED BY ONLY <2>1, SMT
<1> QED BY <1>1, <1>2, Zenon DEF LineEnds

\* Such a line starts where it did, and reads the same.
LEMMA LineStays ==
    ASSUME NEW w, NEW v, Within(w, v), NEW e \in 1 .. Len(w)
    PROVE  StartOf(v, e) = StartOf(w, e) /\ LineAt(v, e) = LineAt(w, e)
<1>1. IsSeq(w) /\ IsSeq(v) /\ Len(w) \in Nat /\ Len(v) \in Nat /\ Len(w) <= Len(v)
  BY SeqFacts, Zenon DEF Within
<1>2. e \in Nat /\ e - 1 \in Nat /\ e - 1 <= Len(w) /\ (e - 1) + 0 <= Len(v) /\ (e - 1) + 0 = e - 1
  BY ONLY <1>1, e \in 1 .. Len(w), SMT
<1>3. \A x : x \in LineEnds(w) <=> x \in LineEnds(v) /\ x <= Len(w)
  BY EndsStay, Zenon
<1>4. \A x \in LineEnds(v) : x < e => x <= Len(w)
  <2>1. ASSUME NEW x \in LineEnds(v), x < e PROVE x <= Len(w)
    <3>1. x \in Nat
      BY <1>1, EndsAre, Zenon
    <3> QED BY ONLY <1>1, <2>1, <3>1, e \in 1 .. Len(w), SMT
  <2> QED BY <2>1, Zenon
<1>5. {x \in LineEnds(v) : x < e} = {x \in LineEnds(w) : x < e}
  BY <1>3, <1>4, Zenon
<1>6. StartOf(v, e) = StartOf(w, e)
  BY <1>5, Zenon DEF StartOf
<1> DEFINE s == StartOf(w, e)
<1>7. s \in Nat
  <2> DEFINE S == {0} \union {x \in LineEnds(w) : x < e}
  <2>1. S \in SUBSET (0 .. Len(w)) /\ S # {} /\ \A x \in S : x \in Nat
    BY <1>1, EndsAre, Zenon
  <2>2. s = Max(S)
    BY Zenon DEF StartOf
  <2> HIDE DEF S, s
  <2>3. Max(S) \in S
    BY <1>1, <2>1, MaxIs, Zenon
  <2> QED BY <2>1, <2>2, <2>3, Zenon
<1> HIDE DEF s
<1>8. s + 1 \in Nat /\ 1 <= s + 1 /\ (s + 1) + 0 = s + 1 /\ 0 \in Nat
  BY ONLY <1>7, SMT
<1>9. \A i \in s + 1 .. e - 1 : w[i] = v[i + 0]
  <2>1. ASSUME NEW i \in s + 1 .. e - 1 PROVE i \in 1 .. Len(w) /\ i + 0 = i
    BY ONLY <1>1, <1>7, e \in 1 .. Len(w), i \in s + 1 .. e - 1, SMT
  <2> QED BY <2>1, Zenon DEF Within
<1>10. Shifted(w, v, s + 1, e - 1, 0)
  BY <1>1, <1>2, <1>8, <1>9, Zenon DEF Shifted
<1>11. Matching(w, v, s + 1, e - 1, 0)
  BY ONLY <1>10, SamePiece, Zenon
<1>12. SubSeq(w, s + 1, e - 1) = SubSeq(v, s + 1, e - 1)
  BY ONLY <1>2, <1>8, <1>11, Zenon DEF Matching
<1> QED BY <1>6, <1>12, Zenon DEF LineAt, s

\* So do the blank lines, the fields of an event, and what is open.
SameLines(w, v) ==
    /\ \A e : e \in LineEnds(w) <=> e \in LineEnds(v) /\ e <= Len(w)
    /\ \A e : e \in BlankEnds(w) <=> e \in BlankEnds(v) /\ e <= Len(w)
    /\ \A e \in LineEnds(w) : LineAt(v, e) = LineAt(w, e) /\ StartOf(v, e) = StartOf(w, e)

\* The lines within the first bytes are the same, and so is which of them are blank.
LEMMA BlanksStay ==
    ASSUME NEW w, NEW v, Within(w, v)
    PROVE  SameLines(w, v)
<1>1. IsSeq(w) /\ LineEnds(w) \subseteq 1 .. Len(w)
  BY EndsAre, Zenon DEF Within
<1>2. \A e : e \in LineEnds(w) <=> e \in LineEnds(v) /\ e <= Len(w)
  BY EndsStay, Zenon
<1>3. \A e \in LineEnds(w) : LineAt(v, e) = LineAt(w, e) /\ StartOf(v, e) = StartOf(w, e)
  BY <1>1, LineStays, Zenon
<1>4. \A e : e \in BlankEnds(w) <=> e \in BlankEnds(v) /\ e <= Len(w)
  BY <1>2, <1>3, Zenon DEF BlankEnds
<1> QED BY <1>2, <1>3, <1>4, Zenon DEF SameLines

\* Before and LastBlank are the greatest of the same set.
LEMMA FieldsStay ==
    ASSUME NEW w, NEW v, Within(w, v), NEW e \in 1 .. Len(w)
    PROVE  Before(v, e) = Before(w, e) /\ FieldEnds(v, e) = FieldEnds(w, e)
<1>1. IsSeq(w) /\ IsSeq(v) /\ Len(w) \in Nat
  BY SeqFacts, Zenon DEF Within
<1>2. /\ \A x : x \in BlankEnds(w) <=> x \in BlankEnds(v) /\ x <= Len(w)
      /\ \A x : x \in LineEnds(w) <=> x \in LineEnds(v) /\ x <= Len(w)
      /\ \A x \in LineEnds(w) : LineAt(v, x) = LineAt(w, x)
  <2>1. SameLines(w, v)
    BY BlanksStay, Zenon
  <2> QED BY ONLY <2>1, Zenon DEF SameLines
<1>3. \A x \in LineEnds(v) : x < e => x <= Len(w)
  <2>1. ASSUME NEW x \in LineEnds(v), x < e PROVE x <= Len(w)
    <3>1. x \in Nat
      BY <1>1, EndsAre, Zenon
    <3> QED BY ONLY <1>1, <2>1, <3>1, e \in 1 .. Len(w), SMT
  <2> QED BY <2>1, Zenon
<1>4. BlankEnds(v) \subseteq LineEnds(v)
  BY Zenon DEF BlankEnds
<1>5. {x \in BlankEnds(v) : x < e} = {x \in BlankEnds(w) : x < e}
  BY <1>2, <1>3, <1>4, Zenon
<1>6. Before(v, e) = Before(w, e)
  BY <1>5, Zenon DEF Before
<1>7. \A x : x \in FieldEnds(v, e) <=> x \in FieldEnds(w, e)
  BY <1>2, <1>3, <1>6, Zenon DEF FieldEnds
<1> QED BY <1>6, <1>7, Zenon

\* What was open and what was closed stays so.
LEMMA OpenStays ==
    ASSUME NEW w, NEW v, Within(w, v), NEW p \in 0 .. Len(w)
    PROVE  /\ LastBlank(v, p) = LastBlank(w, p) /\ OpenEnds(v, p) = OpenEnds(w, p)
           /\ ClosedEnds(v, p) = ClosedEnds(w, p)
<1>1. IsSeq(w) /\ IsSeq(v) /\ Len(w) \in Nat
  BY SeqFacts, Zenon DEF Within
<1>2. /\ \A x : x \in BlankEnds(w) <=> x \in BlankEnds(v) /\ x <= Len(w)
      /\ \A x : x \in LineEnds(w) <=> x \in LineEnds(v) /\ x <= Len(w)
      /\ \A x \in LineEnds(w) : LineAt(v, x) = LineAt(w, x)
  <2>1. SameLines(w, v)
    BY BlanksStay, Zenon
  <2> QED BY ONLY <2>1, Zenon DEF SameLines
<1>3. \A x \in LineEnds(v) : x <= p => x <= Len(w)
  <2>1. ASSUME NEW x \in LineEnds(v), x <= p PROVE x <= Len(w)
    <3>1. x \in Nat
      BY <1>1, EndsAre, Zenon
    <3> QED BY ONLY <1>1, <2>1, <3>1, p \in 0 .. Len(w), SMT
  <2> QED BY <2>1, Zenon
<1>4. BlankEnds(v) \subseteq LineEnds(v) /\ BlankEnds(w) \subseteq LineEnds(w) /\ LineEnds(w) \subseteq 1 .. Len(w)
  BY <1>1, EndsAre, Zenon
<1>5. {x \in BlankEnds(v) : x <= p} = {x \in BlankEnds(w) : x <= p}
  BY <1>2, <1>3, <1>4, Zenon
<1>6. LastBlank(v, p) = LastBlank(w, p)
  BY <1>5, Zenon DEF LastBlank
<1>7. \A x : x \in OpenEnds(v, p) <=> x \in OpenEnds(w, p)
  BY <1>2, <1>3, <1>6, Zenon DEF OpenEnds
<1>8. \A x \in BlankEnds(w) : FieldEnds(v, x) = FieldEnds(w, x)
  BY <1>4, FieldsStay, Zenon
<1>9. \A x : x \in ClosedEnds(v, p) <=> x \in ClosedEnds(w, p)
  BY <1>2, <1>3, <1>4, <1>8, Zenon DEF ClosedEnds
<1> QED BY <1>6, <1>7, <1>9, Zenon

\* The fields read so far are those of the longer body.
LEMMA FieldsKept ==
    ASSUME NEW w, NEW v, Within(w, v), NEW S \in SUBSET LineEnds(w), NEW f, FieldsAre(w, S, f)
    PROVE  FieldsAre(v, S, f) /\ (S # {} => StartOf(v, InOrder(S)[1]) = StartOf(w, InOrder(S)[1]))
<1>1. IsSeq(w) /\ Len(w) \in Nat /\ S \in SUBSET (0 .. Len(w)) /\ IsFiniteSet(0 .. Len(w))
  <2>1. IsSeq(w) /\ Len(w) \in Nat /\ \A e \in {0} \union LineEnds(w) : e \in 0 .. Len(w)
    BY EndsAre, Zenon DEF Within
  <2>2. IsFiniteSet(0 .. Len(w))
    BY <2>1, FS_Interval
  <2> QED BY <2>1, <2>2, Zenon
<1>2. \A i \in 1 .. Cardinality(S) : InOrder(S)[i] \in S
  BY <1>1, InOrderIn, Zenon
<1>3. \A e \in LineEnds(w) : LineAt(v, e) = LineAt(w, e) /\ StartOf(v, e) = StartOf(w, e)
  BY BlanksStay, Zenon DEF SameLines
<1>4. FieldsAre(v, S, f)
  BY <1>2, <1>3, Zenon DEF FieldsAre
<1>5. ASSUME S # {} PROVE StartOf(v, InOrder(S)[1]) = StartOf(w, InOrder(S)[1])
  <2>1. IsFiniteSet(S)
    BY <1>1, FS_Subset, Zenon
  <2>2. Cardinality(S) \in Nat /\ Cardinality(S) # 0
    BY <1>5, <2>1, FS_EmptySet, FS_CardinalityType, Zenon
  <2>3. 1 \in 1 .. Cardinality(S)
    BY ONLY <2>2, SMT
  <2> QED BY <1>2, <1>3, <2>3, Zenon
<1> QED BY <1>4, <1>5, Zenon

\* The chunks of an assembler between two chunks: n - 1 have been taken, the last of
\* which ended the body so far.
CutsAre(w, ct, n) ==
    /\ n \in Nat /\ IsSeq(ct) /\ Len(ct) = n - 1 /\ (n = 1 => w = <<>>) /\ (n # 1 => ct[n - 1] = Len(w))
    /\ \A k \in 1 .. n - 1 : ct[k] \in Nat /\ ct[k] <= Len(w)

\* The chunks of an event stay the same when another chunk arrives.
LEMMA HoldersStay ==
    ASSUME NEW w, NEW v, Within(w, v), NEW ct, NEW n, CutsAre(w, ct, n), NEW x,
           NEW e \in 1 .. Len(w)
    PROVE  Holders(v, Append(ct, x), e) \subseteq Holders(w, ct, e)
<1> DEFINE g == Append(ct, x)
<1>1. /\ n \in Nat /\ IsSeq(ct) /\ Len(ct) = n - 1 /\ (n = 1 => w = <<>>)
      /\ (n # 1 => ct[n - 1] = Len(w))
  BY Zenon DEF CutsAre
<1>2. IsSeq(w) /\ Len(w) \in Nat /\ (w = <<>> <=> Len(w) = 0) /\ Len(ct) \in Nat /\ DOMAIN ct = 1 .. Len(ct)
  BY <1>1, SeqFacts, Zenon DEF Within
<1>3. Len(w) # 0 /\ e \in Nat /\ e <= Len(w) /\ ~(Len(w) < e)
  BY ONLY <1>2, e \in 1 .. Len(w), SMT
<1>4. n \in Nat /\ n # 1 /\ n # 0 /\ n - 1 \in Nat /\ (n - 1) + 1 = n
  <2>1. n # 1
    BY <1>1, <1>2, <1>3, Zenon
  <2>2. n \in Nat /\ Len(ct) = n - 1 /\ Len(ct) \in Nat
    BY <1>1, <1>2, Zenon
  <2> QED BY ONLY <2>1, <2>2, SMT
<1>5. DOMAIN g = 1 .. n /\ \A i \in 1 .. n - 1 : g[i] = ct[i]
  <2>1. Grown(ct, x, g)
    BY <1>1, AppendGrows, Zenon
  <2> HIDE DEF g
  <2>2. IsSeq(g) /\ Len(g) = n /\ \A i \in 1 .. n - 1 : g[i] = ct[i]
    BY <1>1, <1>4, <2>1, Zenon DEF Grown
  <2>3. DOMAIN g = 1 .. Len(g)
    BY <2>2, SeqFacts, Zenon
  <2> QED BY <2>2, <2>3, Zenon
<1>6. Before(v, e) = Before(w, e)
  BY FieldsStay, Zenon
<1> HIDE DEF g
<1>7. ASSUME NEW k \in Holders(v, g, e) PROVE k \in Holders(w, ct, e)
  <2>1. k \in 1 .. n /\ g[k] > Before(w, e) /\ (IF k = 1 THEN 0 ELSE g[k - 1]) < e
    BY <1>5, <1>6, Zenon DEF Holders
  <2>2. k # n
    <3>1. SUFFICES ASSUME k = n PROVE FALSE
      BY Zenon
    <3>2. n - 1 \in 1 .. n - 1
      BY ONLY <1>4, SMT
    <3>3. g[n - 1] = Len(w)
      BY <1>1, <1>4, <1>5, <3>2, Zenon
    <3>4. Len(w) < e
      BY <1>4, <2>1, <3>1, <3>3, Zenon
    <3> QED BY <1>3, <3>4, Zenon
  <2>3. k \in 1 .. n - 1 /\ (k # 1 => k - 1 \in 1 .. n - 1)
    BY ONLY <1>4, <2>1, <2>2, SMT
  <2>4. g[k] = ct[k] /\ (k # 1 => g[k - 1] = ct[k - 1]) /\ k \in DOMAIN ct
    BY <1>1, <1>2, <1>5, <2>3, Zenon
  <2> QED BY <2>1, <2>4, Zenon DEF Holders
<1> QED BY <1>7, Zenon DEF g

\* The events emitted so far are the first events of the longer body.
LEMMA EventsKept ==
    ASSUME NEW w, NEW v, Within(w, v), NEW ct, NEW n, CutsAre(w, ct, n), NEW x,
           NEW p \in 0 .. Len(w), NEW evs, EventsAre(w, ct, ClosedEnds(w, p), evs)
    PROVE  EventsAre(v, Append(ct, x), ClosedEnds(w, p), evs)
<1> DEFINE C == ClosedEnds(w, p)
<1>1. IsSeq(w) /\ Len(w) \in Nat /\ LineEnds(w) \subseteq 1 .. Len(w) /\ BlankEnds(w) \subseteq LineEnds(w)
  BY EndsAre, Zenon DEF Within
<1>2. p \in Nat
  BY ONLY <1>1, p \in 0 .. Len(w), SMT
<1>3. C \in SUBSET (0 .. Len(w))
  BY <1>1, <1>2, EndsFinite, Zenon
<1>4. \A i \in 1 .. Cardinality(C) : InOrder(C)[i] \in C
  <2> HIDE DEF C
  <2> QED BY <1>1, <1>3, InOrderIn, Zenon
<1>5. ASSUME NEW e \in C, NEW ev, EventIs(w, ct, e, ev) PROVE EventIs(v, Append(ct, x), e, ev)
  <2>1. e \in 1 .. Len(w) /\ FieldEnds(w, e) # {}
    BY <1>1, Zenon DEF ClosedEnds
  <2>2. FieldEnds(v, e) = FieldEnds(w, e)
    BY <2>1, FieldsStay, Zenon
  <2>3. FieldEnds(w, e) \in SUBSET LineEnds(w)
    BY Zenon DEF FieldEnds
  <2>4. Holders(v, Append(ct, x), e) \subseteq Holders(w, ct, e)
    BY <2>1, HoldersStay, Zenon
  <2> DEFINE F == FieldEnds(w, e)
  <2>5. FieldsAre(w, F, ev.fields) /\ ev.offset = StartOf(w, InOrder(F)[1])
    BY <1>5, Zenon DEF EventIs
  <2> HIDE DEF F
  <2>6. FieldsAre(v, F, ev.fields) /\ StartOf(v, InOrder(F)[1]) = StartOf(w, InOrder(F)[1])
    BY <2>1, <2>3, <2>5, FieldsKept, Zenon DEF F
  <2> QED BY <1>5, <2>2, <2>4, <2>5, <2>6, Zenon DEF EventIs, F
<1> HIDE DEF C
<1>6. EventsAre(v, Append(ct, x), C, evs)
  BY <1>4, <1>5, Zenon DEF EventsAre, C
<1> QED BY <1>6, Zenon DEF C

\* No line ends in the buffer.
LEMMA NoneBeyond ==
    ASSUME NEW w, NEW a, IsSeq(w), a.processed \in Nat, Rest(w, a.processed, a.buffer), NewLines(a) = {}
    PROVE  \A e \in LineEnds(w) : e <= a.processed
<1> DEFINE p == a.processed
           buf == a.buffer
<1>1. IsSeq(buf) /\ p + Len(buf) = Len(w) /\ \A i \in 1 .. Len(buf) : buf[i] = w[p + i]
  BY Zenon DEF Rest
<1>2. Len(buf) \in Nat /\ DOMAIN buf = 1 .. Len(buf) /\ Len(w) \in Nat /\ DOMAIN w = 1 .. Len(w)
  BY <1>1, SeqFacts, Zenon
<1>3. p \in Nat /\ Len(buf) \in Nat /\ Len(w) \in Nat /\ p + Len(buf) = Len(w)
  BY <1>1, <1>2, Zenon
<1>4. ASSUME NEW e \in LineEnds(w), ~(e <= p) PROVE FALSE
  <2>1. e \in 1 .. Len(w) /\ w[e] = "\n"
    BY <1>2, Zenon DEF LineEnds
  <2>2. e - p \in 1 .. Len(buf) /\ p + (e - p) = e
    <3> HIDE DEF p, buf
    <3> QED BY ONLY <1>3, <1>4, <2>1, SMT
  <2>3. buf[e - p] = "\n"
    BY <1>1, <2>1, <2>2, Zenon
  <2> QED BY <1>2, <2>2, <2>3, Zenon DEF NewLines
<1> QED BY <1>4, Zenon

\* Between two chunks.
Idle(w, ct, a) ==
    /\ Shape(a) /\ IsSeq(w)
    /\ a.status = "open" => /\ Taken(w, ct, Len(ct) + 1, a) /\ NewLines(a) = {}
                            /\ CutsAre(w, ct, Len(ct) + 1)

\* A chunk arrives.
LEMMA ChunkArrives ==
    ASSUME NEW w, NEW ct, NEW a, NEW n, NEW data, IsSeq(data), CutsAre(w, ct, n),
           Taken(w, ct, n, a), NewLines(a) = {}, NEW x,
           NEW b, b.buffer = a.buffer \o data, b.processed = a.processed, b.fields = a.fields,
           b.offset = a.offset, b.events = a.events, b.chunks = a.chunks
    PROVE  Taken(w \o data, Append(ct, x), n, b)
<1> DEFINE v == w \o data
           p == a.processed
           g == Append(ct, x)
<1>1. /\ IsSeq(w) /\ p \in {0} \union LineEnds(w) /\ Rest(w, p, a.buffer)
      /\ FieldsAre(w, OpenEnds(w, p), a.fields) /\ OffsetIs(w, OpenEnds(w, p), a.offset)
      /\ EventsAre(w, ct, ClosedEnds(w, p), a.events) /\ ChunksHold(w, ct, n, p, a.chunks)
  BY Zenon DEF Taken
<1>2. /\ IsSeq(v) /\ Len(v) = Len(w) + Len(data) /\ (\A i \in 1 .. Len(w) : v[i] = w[i])
      /\ \A i \in 1 .. Len(data) : v[Len(w) + i] = data[i]
  <2>1. JoinOf(w, data, v)
    BY <1>1, Joined, Zenon
  <2> HIDE DEF v
  <2> QED BY ONLY <2>1, Zenon DEF JoinOf
<1>3. Len(w) \in Nat /\ Len(data) \in Nat /\ p \in Nat /\ p \in 0 .. Len(w)
  BY <1>1, SeqFacts, EndsAre, Zenon
<1> HIDE DEF v
<1>4. Within(w, v)
  <2>1. Len(w) <= Len(v)
    BY ONLY <1>2, <1>3, SMT
  <2> QED BY <1>1, <1>2, <2>1, Zenon DEF Within
<1>5. /\ LastBlank(v, p) = LastBlank(w, p) /\ OpenEnds(v, p) = OpenEnds(w, p)
      /\ ClosedEnds(v, p) = ClosedEnds(w, p)
  BY <1>3, <1>4, OpenStays, Zenon
<1>6. \A e : e \in LineEnds(w) <=> e \in LineEnds(v) /\ e <= Len(w)
  BY <1>4, EndsStay, Zenon
<1>7. p \in {0} \union LineEnds(v)
  BY <1>1, <1>6, Zenon
<1>8. Rest(v, p, a.buffer \o data)
  <2> DEFINE buf == a.buffer
             c == buf \o data
  <2>1. IsSeq(buf) /\ p + Len(buf) = Len(w) /\ \A i \in 1 .. Len(buf) : buf[i] = w[p + i]
    BY <1>1, Zenon DEF Rest
  <2>2. /\ IsSeq(c) /\ Len(c) = Len(buf) + Len(data) /\ (\A i \in 1 .. Len(buf) : c[i] = buf[i])
        /\ \A i \in 1 .. Len(data) : c[Len(buf) + i] = data[i]
    <3>1. JoinOf(buf, data, c)
      BY <2>1, Joined, Zenon
    <3> HIDE DEF c
    <3> QED BY ONLY <3>1, Zenon DEF JoinOf
  <2>3. Len(buf) \in Nat
    BY <2>1, SeqFacts, Zenon
  <2> HIDE DEF buf, c, p
  <2>4. /\ p + Len(buf) = Len(w) /\ Len(c) = Len(buf) + Len(data) /\ Len(v) = Len(w) + Len(data)
        /\ Len(w) \in Nat /\ Len(data) \in Nat /\ p \in Nat /\ Len(buf) \in Nat
    BY <1>2, <1>3, <2>1, <2>2, <2>3, Zenon
  <2>5. ASSUME NEW i \in 1 .. Len(c) PROVE c[i] = v[p + i]
    <3>1. CASE i <= Len(buf)
      <4>1. i \in 1 .. Len(buf) /\ p + i \in 1 .. Len(w)
        BY ONLY <2>4, <3>1, i \in 1 .. Len(c), SMT
      <4>2. c[i] = buf[i] /\ buf[i] = w[p + i] /\ v[p + i] = w[p + i]
        BY <1>2, <2>1, <2>2, <4>1, Zenon
      <4> QED BY <4>2, Zenon
    <3>2. CASE ~(i <= Len(buf))
      <4>1. /\ i - Len(buf) \in 1 .. Len(data) /\ Len(buf) + (i - Len(buf)) = i
            /\ Len(w) + (i - Len(buf)) = p + i
        BY ONLY <2>4, <3>2, i \in 1 .. Len(c), SMT
      <4>2. c[i] = data[i - Len(buf)] /\ v[p + i] = data[i - Len(buf)]
        BY <1>2, <2>2, <4>1, Zenon
      <4> QED BY <4>2, Zenon
    <3> QED BY <3>1, <3>2, Zenon
  <2>6. p + Len(c) = Len(v)
    BY ONLY <2>4, SMT
  <2> QED BY <2>2, <2>5, <2>6, Zenon DEF Rest, c, buf
<1>9. FieldsAre(v, OpenEnds(w, p), a.fields) /\ OffsetIs(v, OpenEnds(w, p), a.offset)
  <2>1. OpenEnds(w, p) \in SUBSET LineEnds(w)
    BY Zenon DEF OpenEnds
  <2> QED BY <1>1, <1>4, <2>1, FieldsKept, Zenon DEF OffsetIs
<1>10. EventsAre(v, g, ClosedEnds(w, p), a.events)
  BY <1>1, <1>3, <1>4, EventsKept, Zenon
<1>11. \A k \in 1 .. n - 1 : g[k] = ct[k]
  <2>1. IsSeq(ct) /\ Len(ct) = n - 1
    BY Zenon DEF CutsAre
  <2>2. Grown(ct, x, g)
    BY <2>1, AppendGrows, Zenon
  <2> HIDE DEF g
  <2> QED BY ONLY <2>1, <2>2, Zenon DEF Grown
<1> HIDE DEF g, p
<1>12. ChunksHold(v, g, n, p, a.chunks)
  BY <1>1, <1>5, <1>11, Zenon DEF ChunksHold
<1>13. Behind(v, g, n, p)
  <2>1. ASSUME NEW e \in LineEnds(v), p < e, NEW k \in 1 .. n - 1 PROVE ct[k] < e
    <3>1. e \in Nat
      BY <1>2, EndsAre, Zenon
    <3>2. ~(e <= p)
      BY ONLY <1>3, <2>1, <3>1, SMT
    <3>3. \A f \in LineEnds(w) : f <= p
      BY <1>1, <1>3, NoneBeyond, Zenon DEF p
    <3>4. ~(e <= Len(w))
      BY <1>6, <3>2, <3>3, Zenon
    <3>5. ct[k] \in Nat /\ ct[k] <= Len(w)
      BY Zenon DEF CutsAre
    <3> QED BY ONLY <1>3, <3>1, <3>4, <3>5, SMTT(30)
  <2> QED BY <1>11, <2>1, Zenon DEF Behind
<1>14. /\ FieldsAre(v, OpenEnds(v, p), a.fields) /\ OffsetIs(v, OpenEnds(v, p), a.offset)
       /\ EventsAre(v, g, ClosedEnds(v, p), a.events)
  BY <1>5, <1>9, <1>10, Zenon
<1> QED BY <1>2, <1>7, <1>8, <1>12, <1>13, <1>14, Zenon DEF Taken, v, g, p

-----------------------------------------------------------------------------
(* The steps. *)

SSEInv == Idle(wire, cuts, asm)

\* An assembler that has been fed nothing.
LEMMA SSEStart == SSEInit => SSEInv
<1> SUFFICES ASSUME SSEInit PROVE SSEInv
  OBVIOUS
<1>1. wire = <<>> /\ cuts = <<>> /\ asm = NewSSEAssembler
  BY Zenon DEF SSEInit
<1>2. /\ Shape(asm) /\ asm.processed = 0 /\ asm.buffer = <<>> /\ asm.fields = <<>> /\ asm.events = <<>>
      /\ asm.chunks = <<>>
  BY <1>1 DEF NewSSEAssembler, Shape
<1>3. IsSeq(<<>>) /\ Len(<<>>) = 0 /\ Cardinality({}) = 0
  BY EmptyIsSeq, FS_EmptySet, Zenon
<1>4. DOMAIN <<>> = {} /\ 1 .. 0 = {} /\ 0 + 0 = 0 /\ 0 + 1 = 1 /\ 1 - 1 = 0 /\ 1 \in Nat
  <2>1. DOMAIN <<>> = 1 .. Len(<<>>)
    BY <1>3, SeqFacts, Zenon
  <2>2. 1 .. 0 = {} /\ 0 + 0 = 0 /\ 0 + 1 = 1 /\ 1 - 1 = 0 /\ 1 \in Nat
    OBVIOUS
  <2> QED BY <1>3, <2>1, <2>2, Zenon
<1>5. LineEnds(<<>>) = {} /\ BlankEnds(<<>>) = {} /\ NewLines(asm) = {}
  BY <1>2, <1>4, Zenon DEF LineEnds, BlankEnds, NewLines
<1>6. OpenEnds(<<>>, 0) = {} /\ ClosedEnds(<<>>, 0) = {}
  BY <1>5, Zenon DEF OpenEnds, ClosedEnds
<1>7. Rest(<<>>, 0, <<>>)
  BY <1>3, <1>4, Zenon DEF Rest
<1>8. FieldsAre(<<>>, {}, <<>>) /\ OffsetIs(<<>>, {}, asm.offset) /\ EventsAre(<<>>, <<>>, {}, <<>>)
  BY <1>3, <1>4, Zenon DEF FieldsAre, OffsetIs, EventsAre
<1>9. ChunksHold(<<>>, <<>>, 1, 0, <<>>) /\ Behind(<<>>, <<>>, 1, 0)
  BY <1>3, <1>4, <1>5, Zenon DEF ChunksHold, Behind
<1>10. Taken(<<>>, <<>>, 1, asm)
  BY <1>2, <1>3, <1>6, <1>7, <1>8, <1>9, Zenon DEF Taken
<1>11. CutsAre(<<>>, <<>>, 1)
  BY <1>3, <1>4, Zenon DEF CutsAre
<1> QED BY <1>1, <1>2, <1>3, <1>4, <1>5, <1>10, <1>11, Zenon DEF SSEInv, Idle

\* The chunk just taken counts as taken.
LEMMA ChunkTaken ==
    ASSUME NEW w, NEW ct, NEW n \in Nat, NEW a, Taken(w, ct, n, a), NewLines(a) = {},
           n \in Range(a.chunks), ct[n] \in Nat
    PROVE  Taken(w, ct, n + 1, a)
<1> DEFINE p == a.processed
<1>1. IsSeq(w) /\ p \in {0} \union LineEnds(w) /\ Rest(w, p, a.buffer) /\ ChunksHold(w, ct, n, p, a.chunks)
  BY Zenon DEF Taken
<1>2. p \in Nat
  BY <1>1, EndsAre, Zenon
<1>3. \A e \in LineEnds(w) : e <= p
  BY <1>1, <1>2, NoneBeyond, Zenon
<1> HIDE DEF p
<1>4. Behind(w, ct, n + 1, p)
  <2>1. ASSUME NEW e \in LineEnds(w) PROVE ~(p < e)
    <3>1. e \in Nat /\ e <= p
      BY <1>1, <1>3, EndsAre, Zenon
    <3> QED BY ONLY <1>2, <3>1, SMT
  <2> QED BY <2>1, Zenon DEF Behind
<1>5. ChunksHold(w, ct, n + 1, p, a.chunks)
  <2>1. ASSUME NEW k \in 1 .. (n + 1) - 1 PROVE k \in 1 .. n - 1 \/ k = n
    BY ONLY n \in Nat, k \in 1 .. (n + 1) - 1, SMT
  <2> QED BY <1>1, <2>1, Zenon DEF ChunksHold
<1> QED BY <1>4, <1>5, Zenon DEF Taken, p

\* Feed: what it refuses is not open, and what it takes is taken whole.
LEMMA FeedKeeps ==
    ASSUME SSEInv, NEW data, IsSeq(data), Feed(data)
    PROVE  SSEInv'
<1> DEFINE n == Len(cuts) + 1
           x == Len(wire')
           b == [asm EXCEPT !.buffer = asm.buffer \o data]
           fed == drain(b, Len(cuts'))
<1>1. /\ Shape(asm) /\ IsSeq(wire) /\ asm.status = "open" /\ Taken(wire, cuts, n, asm)
      /\ NewLines(asm) = {} /\ CutsAre(wire, cuts, n)
  BY Zenon DEF SSEInv, Idle, Feed
<1>2. wire' = wire \o data /\ cuts' = Append(cuts, x)
  BY Zenon DEF Feed
<1>3. IsSeq(cuts) /\ IsSeq(wire') /\ Len(wire') = Len(wire) + Len(data)
  <2>1. JoinOf(wire, data, wire')
    BY <1>1, <1>2, Joined, Zenon
  <2> QED BY <1>1, <2>1, Zenon DEF JoinOf, CutsAre
<1>4. Grown(cuts, x, cuts')
  BY <1>2, <1>3, AppendGrows, Zenon
<1>5. /\ IsSeq(cuts') /\ Len(cuts') = n /\ (\A i \in 1 .. Len(cuts) : cuts'[i] = cuts[i]) /\ cuts'[n] = x
  BY <1>4, Zenon DEF Grown
<1>6. Len(cuts) \in Nat /\ x \in Nat /\ DOMAIN cuts' = 1 .. n /\ Len(wire) \in Nat /\ Len(data) \in Nat
  BY <1>1, <1>3, <1>5, SeqFacts, Zenon
<1>7. n \in Nat /\ n + 1 \in Nat /\ n # 0 /\ n + 1 # 1 /\ (n + 1) - 1 = n /\ Len(cuts) = n - 1
  BY ONLY <1>6, SMT
<1>8. CASE Len(asm.buffer) + Len(data) > MaxSSEBuffer
  <2>1. asm' = [asm EXCEPT !.status = "failed"]
    BY <1>8, Zenon DEF Feed
  <2>2. Shape(asm') /\ asm'.status = "failed"
    BY <1>1, <2>1, Zenon DEF Shape
  <2> QED BY <1>3, <2>2, Zenon DEF SSEInv, Idle
<1>9. CASE ~(Len(asm.buffer) + Len(data) > MaxSSEBuffer)
  <2>1. asm' = IF fed.status = "open" THEN fed ELSE [fed EXCEPT !.events = asm.events]
    BY <1>9, Zenon DEF Feed
  <2>2. /\ Shape(b) /\ b.status = "open" /\ b.buffer = asm.buffer \o data
        /\ b.processed = asm.processed /\ b.fields = asm.fields
        /\ b.offset = asm.offset /\ b.events = asm.events /\ b.chunks = asm.chunks
    BY <1>1, Zenon DEF Shape
  <2> HIDE DEF b, n, x
  <2>3. Taken(wire', cuts', n, b)
    <3>1. Taken(wire \o data, Append(cuts, x), n, b)
      BY <1>1, <2>2, ChunkArrives, Zenon
    <3> QED BY <1>2, <3>1, Zenon
  <2>4. /\ Shape(fed)
        /\ fed.status = "open" => Taken(wire', cuts', n, fed) /\ NewLines(fed) = {} /\ n \in Range(fed.chunks)
    <3>1. fed = drain(b, n)
      BY <1>5, Zenon
    <3> HIDE DEF fed
    <3> QED BY <1>6, <1>7, <2>2, <2>3, <3>1, DrainKeeps, Zenon
  <2> HIDE DEF fed
  <2>5. CASE fed.status # "open"
    <3>1. Shape(asm') /\ asm'.status # "open"
      BY <2>1, <2>4, <2>5, Zenon DEF Shape
    <3> QED BY <1>3, <3>1, Zenon DEF SSEInv, Idle
  <2>6. CASE fed.status = "open"
    <3>1. asm' = fed
      BY <2>1, <2>6, Zenon
    <3>2. Taken(wire', cuts', n + 1, fed)
      BY <1>5, <1>6, <1>7, <2>4, <2>6, ChunkTaken, Zenon
    <3>3. CutsAre(wire', cuts', n + 1)
      <4>1. ASSUME NEW k \in 1 .. n PROVE cuts'[k] \in Nat /\ cuts'[k] <= x
        <5>1. CASE k = n
          <6>1. x <= x
            BY ONLY <1>6, SMT
          <6> QED BY <1>5, <1>6, <5>1, <6>1, Zenon
        <5>2. CASE k # n
          <6>1. k \in 1 .. n - 1
            BY ONLY <1>7, <5>2, k \in 1 .. n, SMT
          <6>2. cuts'[k] = cuts[k] /\ cuts[k] \in Nat /\ cuts[k] <= Len(wire)
            BY <1>1, <1>5, <1>7, <6>1, Zenon DEF CutsAre
          <6>3. Len(wire) <= x
            BY <1>3, <1>6 DEF x
          <6> QED BY ONLY <1>6, <6>2, <6>3, SMT
        <5> QED BY <5>1, <5>2, Zenon
      <4> QED BY <1>5, <1>7, <4>1, Zenon DEF CutsAre, x
    <3> QED BY <1>3, <1>5, <2>4, <2>6, <3>1, <3>2, <3>3, Zenon DEF SSEInv, Idle
  <2> QED BY <2>5, <2>6, Zenon
<1> QED BY <1>8, <1>9, Zenon

\* What an assembler between two chunks holds is what the property says.
LEMMA IdleAgrees == SSEInv => RechunkingAgrees
<1> SUFFICES ASSUME SSEInv, asm.status = "open" PROVE RechunkingAgrees
  BY Zenon DEF RechunkingAgrees
<1> DEFINE p == asm.processed
           O == OpenEnds(wire, p)
           C == ClosedEnds(wire, p)
           ends == InOrder(C)
           c == Cardinality(C)
<1>1. /\ IsSeq(wire) /\ Taken(wire, cuts, Len(cuts) + 1, asm) /\ NewLines(asm) = {}
  BY Zenon DEF SSEInv, Idle
<1>2. /\ p \in {0} \union LineEnds(wire) /\ Rest(wire, p, asm.buffer) /\ FieldsAre(wire, O, asm.fields)
      /\ EventsAre(wire, cuts, C, asm.events)
  BY <1>1, Zenon DEF Taken
<1>3. p \in Nat /\ Len(wire) \in Nat /\ DOMAIN wire = 1 .. Len(wire) /\ (wire = <<>> <=> Len(wire) = 0)
  BY <1>1, <1>2, EndsAre, SeqFacts, Zenon
<1>4. \A e \in LineEnds(wire) : e <= p
  BY <1>1, <1>2, <1>3, NoneBeyond, Zenon
<1>5. BlankEnds(wire) \subseteq LineEnds(wire) /\ \A e \in LineEnds(wire) : e \in Nat
  BY <1>1, EndsAre, Zenon
<1>6. EventEnds(wire) = ends
  <2>1. {e \in BlankEnds(wire) : FieldEnds(wire, e) # {}} = C
    BY <1>4, <1>5, Zenon DEF ClosedEnds
  <2> QED BY <2>1, Zenon DEF EventEnds
<1>7. LastBlank(wire, p) = Max({0} \union BlankEnds(wire))
  <2>1. {e \in BlankEnds(wire) : e <= p} = BlankEnds(wire)
    BY <1>4, <1>5, Zenon
  <2> QED BY <2>1, Zenon DEF LastBlank
<1>8. /\ IsSeq(asm.events) /\ Len(asm.events) = c /\ DOMAIN asm.events = 1 .. c /\ DOMAIN ends = 1 .. c
      /\ \A i \in 1 .. c : EventIs(wire, cuts, ends[i], asm.events[i])
  <2>1. IsSeq(asm.events) /\ Len(asm.events) = c /\ \A i \in 1 .. c : EventIs(wire, cuts, ends[i], asm.events[i])
    BY <1>2, Zenon DEF EventsAre
  <2>2. DOMAIN asm.events = 1 .. c
    BY <2>1, SeqFacts, Zenon
  <2>3. DOMAIN ends = 1 .. c
    BY Zenon DEF InOrder
  <2> QED BY <2>1, <2>2, <2>3, Zenon
<1> HIDE DEF p, O, C, ends, c
<1>9. ASSUME NEW i \in 1 .. c
      PROVE  [offset |-> asm.events[i].offset, fields |-> asm.events[i].fields] = EventAt(wire, ends[i])
  <2> DEFINE L == InOrder(FieldEnds(wire, ends[i]))
             f == asm.events[i].fields
  <2>1. EventIs(wire, cuts, ends[i], asm.events[i])
    BY <1>8, Zenon
  <2>2. /\ asm.events[i].offset = StartOf(wire, L[1]) /\ IsSeq(f)
        /\ Len(f) = Cardinality(FieldEnds(wire, ends[i]))
        /\ \A j \in 1 .. Cardinality(FieldEnds(wire, ends[i])) : f[j] = CutField(LineAt(wire, L[j]))
    BY <2>1, Zenon DEF EventIs, FieldsAre
  <2>3. DOMAIN L = 1 .. Cardinality(FieldEnds(wire, ends[i]))
    BY Zenon DEF InOrder
  <2>4. EventAt(wire, ends[i]) = [offset |-> StartOf(wire, L[1]),
                                  fields |-> [j \in DOMAIN L |-> CutField(LineAt(wire, L[j]))]]
    BY Zenon DEF EventAt
  <2> HIDE DEF L, f
  <2>5. f = [j \in 1 .. Len(f) |-> f[j]]
    <3>1. PICK S : f \in Seq(S)
      BY <2>2, Zenon DEF IsSeq
    <3>2. f \in [1 .. Len(f) -> S]
      BY <3>1, LenProperties, Zenon
    <3> QED BY <3>2, Zenon
  <2>6. f = [j \in DOMAIN L |-> CutField(LineAt(wire, L[j]))]
    BY <2>2, <2>3, <2>5, Zenon
  <2> QED BY <2>2, <2>4, <2>6, Zenon DEF f
<1>10. [i \in DOMAIN asm.events |-> [offset |-> asm.events[i].offset, fields |-> asm.events[i].fields]]
         = [i \in DOMAIN ends |-> EventAt(wire, ends[i])]
  BY <1>8, <1>9, Zenon
<1>11. \A i \in DOMAIN ends : Contributors(ends[i]) \subseteq Range(asm.events[i].chunks)
  BY <1>8, Zenon DEF EventIs, Holders, Contributors
<1>12. asm.buffer # <<>> <=> wire # <<>> /\ wire[Len(wire)] # "\n"
  <2>1. p + Len(asm.buffer) = Len(wire) /\ Len(asm.buffer) \in Nat /\ (asm.buffer = <<>> <=> Len(asm.buffer) = 0)
    BY <1>2, SeqFacts, Zenon DEF Rest
  <2>2. CASE asm.buffer = <<>>
    <3>1. p = Len(wire)
      <4>1. Len(asm.buffer) = 0 /\ p + Len(asm.buffer) = Len(wire) /\ p \in Nat
        BY <1>3, <2>1, <2>2, Zenon
      <4> QED BY ONLY <4>1, SMT
    <3>2. p = 0 \/ wire[p] = "\n"
      BY <1>2, Zenon DEF LineEnds
    <3>3. wire = <<>> \/ wire[Len(wire)] = "\n"
      BY ONLY <1>3, <3>1, <3>2, Zenon
    <3> QED BY ONLY <2>2, <3>3, Zenon
  <2>3. CASE asm.buffer # <<>>
    <3>1. Len(wire) # 0 /\ Len(wire) \in 1 .. Len(wire) /\ ~(Len(wire) <= p)
      <4>1. Len(asm.buffer) # 0 /\ p + Len(asm.buffer) = Len(wire) /\ Len(asm.buffer) \in Nat
        BY <2>1, <2>3, Zenon
      <4>2. p \in Nat /\ Len(wire) \in Nat
        BY <1>3, Zenon
      <4> QED BY ONLY <4>1, <4>2, SMT
    <3>2. wire[Len(wire)] # "\n"
      BY <1>3, <1>4, <3>1, Zenon DEF LineEnds
    <3> QED BY <1>3, <2>3, <3>1, <3>2, Zenon
  <2> QED BY <2>2, <2>3, Zenon
<1>13. asm.fields # <<>> <=> O # {}
  <2>1. IsSeq(asm.fields) /\ Len(asm.fields) = Cardinality(O) /\ (asm.fields = <<>> <=> Len(asm.fields) = 0)
    BY <1>2, SeqFacts, Zenon DEF FieldsAre
  <2>2. IsFiniteSet(O)
    BY <1>1, <1>3, EndsFinite, Zenon DEF O
  <2> QED BY <2>1, <2>2, FS_EmptySet, Zenon
<1>14. O # {} <=> \E e \in LineEnds(wire) : /\ e > Max({0} \union BlankEnds(wire))
                                            /\ ~Prefixed(LineAt(wire, e), ":")
  <2> DEFINE m == LastBlank(wire, p)
  <2>1. m \in Nat
    BY <1>1, <1>3, LastBlankIs, Zenon
  <2> HIDE DEF m
  <2>2. ASSUME NEW e \in LineEnds(wire) PROVE m < e <=> e > m
    <3>1. e \in Nat
      BY <1>5, Zenon
    <3> QED BY ONLY <2>1, <3>1, SMT
  <2>3. O = {e \in LineEnds(wire) : m < e /\ e <= p /\ ~Prefixed(LineAt(wire, e), ":")}
    BY Zenon DEF O, OpenEnds, m
  <2>4. m = Max({0} \union BlankEnds(wire))
    BY <1>7, Zenon DEF m
  <2> QED BY <1>4, <2>2, <2>3, <2>4, Zenon
<1>15. Finish(asm) <=> \/ wire # <<>> /\ wire[Len(wire)] # "\n"
                       \/ \E e \in LineEnds(wire) :
                            /\ e > Max({0} \union BlankEnds(wire))
                            /\ ~Prefixed(LineAt(wire, e), ":")
  BY <1>12, <1>13, <1>14, Zenon DEF Finish
<1> QED BY <1>6, <1>10, <1>11, <1>15, Zenon DEF RechunkingAgrees

\* Every step keeps the invariant.
LEMMA SSEStep == SSEInv /\ [SSENext]_sseVars => SSEInv'
<1> SUFFICES ASSUME SSEInv, [SSENext]_sseVars PROVE SSEInv'
  OBVIOUS
<1>1. CASE \E n \in 1 .. MaxWire - Len(wire) : \E data \in [1 .. n -> Bytes] : Feed(data)
  <2>1. PICK n \in 1 .. MaxWire - Len(wire) : \E data \in [1 .. n -> Bytes] : Feed(data)
    BY <1>1, Zenon
  <2>2. PICK data \in [1 .. n -> Bytes] : Feed(data)
    BY <2>1, Zenon
  <2>3. n \in Nat
    <3>1. MaxWire \in Nat /\ Len(wire) \in Nat
      BY SSEConstants, SeqFacts, Zenon DEF SSEInv, Idle
    <3> QED BY ONLY <2>1, <3>1, SMT
  <2>4. data \in Seq(Bytes)
    BY ONLY <2>2, <2>3
  <2>5. IsSeq(data)
    BY <2>4, Zenon DEF IsSeq
  <2> QED BY <2>2, <2>5, FeedKeeps, Zenon
<1>2. CASE FeedMisplaced
  <2>1. asm' = [asm EXCEPT !.status = "failed"] /\ wire' = wire /\ Shape(asm) /\ IsSeq(wire)
    BY <1>2, Zenon DEF FeedMisplaced, SSEInv, Idle
  <2>2. Shape(asm') /\ asm'.status = "failed" /\ IsSeq(wire')
    BY <2>1, Zenon DEF Shape
  <2> QED BY <2>2, Zenon DEF SSEInv, Idle
<1>3. CASE UNCHANGED sseVars
  <2>1. wire' = wire /\ cuts' = cuts /\ asm' = asm
    BY <1>3, Zenon DEF sseVars
  <2> QED BY <2>1, Zenon DEF SSEInv
<1> QED BY <1>1, <1>2, <1>3, Zenon DEF SSENext

\* "Arbitrary rechunking produces the same event fields" (SSEAssembler.Feed), for every
\* body and every way to cut it into chunks, and whatever the limits are.
THEOREM RechunkingIsHarmless == SSESpec => []RechunkingAgrees
<1>1. SSEInit => SSEInv
  BY SSEStart
<1>2. SSEInv /\ [SSENext]_sseVars => SSEInv'
  BY SSEStep
<1>3. SSEInv => RechunkingAgrees
  BY IdleAgrees
<1> QED BY <1>1, <1>2, <1>3, PTL DEF SSESpec
=============================================================================
