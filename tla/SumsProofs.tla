------------------------------ MODULE SumsProofs ------------------------------
(***************************************************************************)
(* The lemmas about sums that the proofs on statistics and scores use: the *)
(* sum over no element, over one more or one less, over fewer, and of one  *)
(* for each.                                                               *)
(***************************************************************************)
EXTENDS Sums, FiniteSetTheorems, TLAPS

\* A sum of which something can be said.
Summable(S, f) == IsFiniteSet(S) /\ IsFiniteSet(Copies(S, f))

LEMMA CopyOf ==
  ASSUME NEW S, NEW f, NEW t
  PROVE  t \in Copies(S, f) <=> \E s \in S : \E n \in 1..f[s] : t = << s, n >>
BY DEF Copies

\* Only the values on the set matter.
LEMMA SumExtensional ==
  ASSUME NEW S, NEW f, NEW g, \A s \in S : f[s] = g[s]
  PROVE  Copies(S, f) = Copies(S, g) /\ SumOver(S, f) = SumOver(S, g)
<1>1. ASSUME NEW t PROVE t \in Copies(S, f) <=> t \in Copies(S, g)
  <2>1. /\ t \in Copies(S, f) <=> \E s \in S : \E n \in 1..f[s] : t = << s, n >>
        /\ t \in Copies(S, g) <=> \E s \in S : \E n \in 1..g[s] : t = << s, n >>
    BY CopyOf
  <2> QED
    BY <2>1
<1>2. Copies(S, f) = Copies(S, g)
  BY <1>1
<1> QED
  BY <1>2 DEF SumOver

LEMMA SumOfNone ==
  ASSUME NEW f
  PROVE  Summable({}, f) /\ SumOver({}, f) = 0
<1>1. Copies({}, f) = {}
  BY DEF Copies
<1> QED
  BY <1>1, FS_EmptySet DEF Summable, SumOver

LEMMA SumIsNat ==
  ASSUME NEW S, NEW f, Summable(S, f)
  PROVE  SumOver(S, f) \in Nat
BY FS_CardinalityType DEF Summable, SumOver

\* One element has as many copies as its value says.
LEMMA SumOfOne ==
  ASSUME NEW s, NEW n \in Nat
  PROVE  IsFiniteSet({s} \X (1..n)) /\ Cardinality({s} \X (1..n)) = n
<1> DEFINE T == {s} \X (1..n)
           h == [i \in 1..n |-> << s, i >>]
<1>1. IsFiniteSet(1..n) /\ Cardinality(1..n) = n
  <2>1. /\ IsFiniteSet(1..n)
        /\ Cardinality(1..n) = IF 1 > n THEN 0 ELSE n - 1 + 1
    BY FS_Interval
  <2> QED
    BY <2>1
<1>2. h \in [1..n -> T]
  OBVIOUS
<1>3. \A t \in T : \E i \in 1..n : h[i] = t
  OBVIOUS
<1>4. \A i, j \in 1..n : h[i] = h[j] => i = j
  OBVIOUS
<1>5. h \in Surjection(1..n, T) /\ h \in Injection(1..n, T)
  BY <1>2, <1>3, <1>4 DEF Surjection, Injection, IsInjective
<1>6. IsFiniteSet(T) /\ Cardinality(T) = Cardinality(1..n)
  BY <1>1, <1>5, FS_Surjection
<1> QED
  BY <1>1, <1>6

\* T is S and s, with the same values and one for s.
IsAdded(S, f, s, T, g) ==
  s \notin S /\ T = S \cup {s} /\ (\A r \in S : g[r] = f[r]) /\ g[s] \in Nat

\* One more element adds its value.
LEMMA SumOfOneMore ==
  ASSUME NEW S, NEW f, NEW s, NEW T, NEW g, Summable(S, f), IsAdded(S, f, s, T, g)
  PROVE  Summable(T, g) /\ SumOver(T, g) = SumOver(S, f) + g[s]
<1> USE DEF IsAdded
<1> DEFINE A == Copies(S, f)
           B == {s} \X (1..g[s])
<1>1. IsFiniteSet(S) /\ IsFiniteSet(A)
  BY DEF Summable
<1>2. IsFiniteSet(B) /\ Cardinality(B) = g[s]
  BY SumOfOne
<1>3. A \cap B = {}
  BY DEF Copies
<1>4. Copies(S \cup {s}, g) = A \cup B
  <2>1. Copies(S, g) = A
    BY SumExtensional
  <2>2. Copies(S \cup {s}, g) = Copies(S, g) \cup B
    BY DEF Copies
  <2> QED
    BY <2>1, <2>2
<1> HIDE DEF A, B
<1>5. IsFiniteSet(A \cup B) /\ Cardinality(A \cup B) = Cardinality(A) + Cardinality(B)
  <2>1. /\ IsFiniteSet(A \cup B) /\ IsFiniteSet(A \cap B)
        /\ Cardinality(A \cup B) = Cardinality(A) + Cardinality(B) - Cardinality(A \cap B)
    BY <1>1, <1>2, FS_Union, FS_Intersection
  <2>2. Cardinality(A) \in Nat /\ Cardinality(B) \in Nat /\ Cardinality(A \cap B) = 0
    BY <1>1, <1>2, <1>3, FS_CardinalityType, FS_EmptySet
  <2> QED
    BY <2>1, <2>2
<1>6. IsFiniteSet(S \cup {s})
  BY <1>1, FS_AddElement
<1> QED
  BY <1>2, <1>4, <1>5, <1>6 DEF Summable, SumOver, A

\* A sum over fewer elements is not larger.
LEMMA SumOfFewer ==
  ASSUME NEW S, NEW f, NEW T, NEW g, Summable(S, f), T \subseteq S,
         \A s \in T : g[s] = f[s]
  PROVE  Summable(T, g) /\ SumOver(T, g) <= SumOver(S, f)
<1>1. Copies(T, g) \subseteq Copies(S, f)
  BY CopyOf
<1>2. /\ IsFiniteSet(T) /\ IsFiniteSet(Copies(T, g))
      /\ Cardinality(Copies(T, g)) <= Cardinality(Copies(S, f))
  BY <1>1, FS_Subset DEF Summable
<1> QED
  BY <1>2 DEF Summable, SumOver

\* One for each is the number of elements.
LEMMA SumOfOnes ==
  ASSUME NEW S, NEW f, IsFiniteSet(S), \A s \in S : f[s] = 1
  PROVE  SumOver(S, f) = Cardinality(S)
<1> DEFINE T == Copies(S, f)
           h == [s \in S |-> << s, 1 >>]
<1>1. h \in [S -> T]
  BY CopyOf
<1>2. \A t \in T : \E s \in S : h[s] = t
  BY CopyOf
<1>3. \A r, s \in S : h[r] = h[s] => r = s
  OBVIOUS
<1>4. h \in Surjection(S, T) /\ h \in Injection(S, T)
  BY <1>1, <1>2, <1>3 DEF Surjection, Injection, IsInjective
<1>5. Cardinality(T) = Cardinality(S)
  BY <1>4, FS_Surjection
<1> QED
  BY <1>5 DEF SumOver
=============================================================================
