---------------------------------- MODULE Sums ----------------------------------
(***************************************************************************)
(* What the proofs need of a sum over a finite set, as the counters of     *)
(* bins, stock rows and areas are sums.  The library proves these facts of *)
(* MapThenSumSet for any operator; here they are proved of functions.      *)
(***************************************************************************)
EXTENDS Integers, FiniteSetsExt, FiniteSetTheorems, WellFoundedInduction, TLAPS

Total(f, S) == MapThenSumSet(LAMBDA x : f[x], S)

Some(s) == CHOOSE x \in s : TRUE

\* g adds f up over every subset of S, taking out one element after another.
Adds(g, f, S) ==
    g = [s \in SUBSET S |-> IF s = {} THEN 0 ELSE f[Some(s)] + g[s \ {Some(s)}]]

-------------------------------------------------------------------------------
(* Induction, over sets of numbers and sets of sets instead of predicates.   *)

LEMMA SetOfNaturals ==
    ASSUME NEW A, 0 \in A, \A n \in Nat : n \in A => n + 1 \in A
    PROVE  \A n \in Nat : n \in A
<1> DEFINE T == Nat \ A
<1> SUFFICES ASSUME T # {} PROVE FALSE
  OBVIOUS
<1>1. PICK m \in T : \A k \in T : <<k, m>> \notin OpToRel(<, Nat)
  <2>1. T \subseteq Nat
    OBVIOUS
  <2> HIDE DEF T
  <2> QED
    BY <2>1, NatLessThanWellFounded, WFMin
<1>2. m \in Nat /\ m # 0 /\ m \notin A
  BY <1>1
<1>5. m - 1 \in Nat /\ m - 1 < m
  BY <1>2
<1>3. <<m - 1, m>> \in OpToRel(<, Nat)
  BY <1>2, <1>5 DEF OpToRel
<1>4. m - 1 \in A
  BY <1>1, <1>3, <1>5
<1>6. (m - 1) + 1 \in A
  BY <1>4, <1>5
<1> QED
  BY <1>2, <1>6

\* Whatever holds of the empty set, and of a set with one element more, holds
\* of every finite set.
LEMMA SetOfSets ==
    ASSUME NEW S, IsFiniteSet(S), NEW A, {} \in A,
           \A T \in SUBSET S : \A x \in S \ T : T \in A => T \cup {x} \in A
    PROVE  S \in A
<1> DEFINE N == {n \in Nat : \A T \in SUBSET S : Cardinality(T) = n => T \in A}
<1>1. 0 \in N
  BY FS_EmptySet, FS_Subset
<1>2. ASSUME NEW n \in Nat, n \in N
      PROVE  n + 1 \in N
  <2>1. ASSUME NEW T \in SUBSET S, Cardinality(T) = n + 1
        PROVE  T \in A
    <3>1. IsFiniteSet(T)
      BY FS_Subset
    <3>2. PICK x : x \in T
      <4>1. T # {}
        BY <2>1, FS_EmptySet
      <4> QED
        BY <4>1
    <3>3. Cardinality(T \ {x}) = n
      <4>1. Cardinality(T \ {x}) = Cardinality(T) - 1
        BY <3>1, <3>2, FS_RemoveElement
      <4> QED
        BY <2>1, <4>1
    <3>4. T \ {x} \in A
      BY <1>2, <3>3
    <3>5. (T \ {x}) \cup {x} \in A
      BY <3>2, <3>4
    <3>6. (T \ {x}) \cup {x} = T
      BY <3>2
    <3> QED
      BY <3>5, <3>6
  <2> QED
    BY <2>1
<1>3. Cardinality(S) \in Nat
  BY FS_CardinalityType
<1> HIDE DEF N
<1>4. Cardinality(S) \in N
  BY <1>1, <1>2, <1>3, SetOfNaturals
<1> QED
  BY <1>4 DEF N

\* A finite set of numbers has a largest one.
LEMMA LargestExists ==
    ASSUME NEW S, IsFiniteSet(S), S \subseteq Int, S # {}
    PROVE  \E m \in S : \A k \in S : k <= m
<1> DEFINE A == {T \in SUBSET S : T = {} \/ \E m \in T : \A k \in T : k <= m}
<1>1. {} \in A
  OBVIOUS
<1>2. ASSUME NEW T \in SUBSET S, NEW x \in S \ T, T \in A
      PROVE  T \cup {x} \in A
  <2>1. CASE T = {}
    BY <2>1
  <2>2. CASE T # {}
    <3>1. PICK m \in T : \A k \in T : k <= m
      BY <1>2, <2>2
    <3>2. CASE x <= m
      BY <3>1, <3>2
    <3>3. CASE ~(x <= m)
      <4>1. \A k \in T \cup {x} : k <= x
        BY <3>1, <3>3
      <4> QED
        BY <4>1
    <3> QED
      BY <3>2, <3>3
  <2> QED
    BY <2>1, <2>2
<1>3. S \in A
  <2> HIDE DEF A
  <2> QED
    BY <1>1, <1>2, SetOfSets
<1> QED
  BY <1>3

-------------------------------------------------------------------------------
(* The recursion of MapThenSumSet is well founded.                           *)

LEMMA SomeIsElement ==
    ASSUME NEW s, s # {}
    PROVE  Some(s) \in s
  BY DEF Some

LEMMA SumExists ==
    ASSUME NEW S, IsFiniteSet(S), NEW f
    PROVE  \E g : Adds(g, f, S)
<1> DEFINE Next(g, s) == IF s = {} THEN 0 ELSE f[Some(s)] + g[s \ {Some(s)}]
           Upto(g, n) == \A s \in SUBSET S : Cardinality(s) <= n => g[s] = Next(g, s)
           N == {n \in Nat : \E g : Upto(g, n)}
<1>1. \A s \in SUBSET S : IsFiniteSet(s) /\ Cardinality(s) \in Nat
  BY FS_Subset, FS_CardinalityType
<1>2. \A s \in SUBSET S : s # {} => /\ s \ {Some(s)} \in SUBSET S
                                    /\ Cardinality(s \ {Some(s)}) = Cardinality(s) - 1
  BY <1>1, SomeIsElement, FS_RemoveElement
<1>3. 0 \in N
  <2> DEFINE g == [s \in SUBSET S |-> 0]
  <2>1. Upto(g, 0)
    BY <1>1, FS_EmptySet
  <2> QED
    BY <2>1
<1>4. ASSUME NEW n \in Nat, n \in N
      PROVE  n + 1 \in N
  <2>1. PICK g : Upto(g, n)
    BY <1>4
  <2> DEFINE k == [s \in SUBSET S |-> IF Cardinality(s) <= n THEN g[s] ELSE Next(g, s)]
  <2>2. ASSUME NEW s \in SUBSET S, Cardinality(s) <= n + 1
        PROVE  k[s] = Next(k, s)
    <3>1. k[s] = Next(g, s)
      BY <2>1, <2>2
    <3>2. s # {} => k[s \ {Some(s)}] = g[s \ {Some(s)}]
      BY <1>1, <1>2, <2>2
    <3> HIDE DEF k
    <3> QED
      BY <3>1, <3>2
  <2> HIDE DEF k
  <2>3. Upto(k, n + 1) /\ n + 1 \in Nat
    BY <2>2
  <2> HIDE DEF Upto
  <2> QED
    BY <2>3
<1>5. Cardinality(S) \in N
  <2> HIDE DEF N
  <2> QED
    BY <1>1, <1>3, <1>4, SetOfNaturals
<1>6. PICK g : Upto(g, Cardinality(S))
  BY <1>5
<1> DEFINE k == [s \in SUBSET S |-> g[s]]
<1>7. \A s \in SUBSET S : k[s] = Next(k, s)
  <2>1. \A s \in SUBSET S : Cardinality(s) <= Cardinality(S)
    BY FS_Subset
  <2>2. \A s \in SUBSET S : g[s] = Next(g, s)
    BY <1>6, <2>1
  <2>3. \A s \in SUBSET S : s \ {Some(s)} \in SUBSET S
    OBVIOUS
  <2> QED
    BY <2>2, <2>3
<1>8. k = [s \in SUBSET S |-> k[s]]
  OBVIOUS
<1> HIDE DEF k
<1>9. Adds(k, f, S)
  BY <1>7, <1>8 DEF Adds
<1> QED
  BY <1>9

LEMMA TotalAdds ==
    ASSUME NEW S, IsFiniteSet(S), NEW f
    PROVE  \E g : Adds(g, f, S) /\ Total(f, S) = g[S]
<1> DEFINE g == CHOOSE g : Adds(g, f, S)
<1>1. Adds(g, f, S)
  BY SumExists, Zenon
<1>2. Total(f, S) = g[S]
  BY DEF Total, MapThenSumSet, MapThenFoldSet, Adds, Some
<1> QED
  BY <1>1, <1>2

LEMMA TotalOfEmpty ==
    ASSUME NEW f
    PROVE  Total(f, {}) = 0
  BY TotalAdds, FS_EmptySet DEF Adds

\* The part of a function that adds up over S adds up over its subsets.
LEMMA AddsIsTotal ==
    ASSUME NEW S, IsFiniteSet(S), NEW f, NEW g, Adds(g, f, S), NEW T \in SUBSET S
    PROVE  g[T] = Total(f, T)
<1>1. IsFiniteSet(T)
  BY FS_Subset
<1>2. PICK k : Adds(k, f, T) /\ Total(f, T) = k[T]
  BY <1>1, TotalAdds
<1> DEFINE Agree == {s \in SUBSET T : g[s] = k[s]}
           N == {n \in Nat : \A s \in SUBSET T : Cardinality(s) <= n => g[s] = k[s]}
<1>3. \A s \in SUBSET T : IsFiniteSet(s) /\ Cardinality(s) \in Nat
  BY <1>1, FS_Subset, FS_CardinalityType
<1>4. \A s \in SUBSET T : s # {} => /\ s \ {Some(s)} \in SUBSET T
                                    /\ Cardinality(s \ {Some(s)}) = Cardinality(s) - 1
  BY <1>3, SomeIsElement, FS_RemoveElement
<1>5. /\ \A s \in SUBSET T : g[s] = IF s = {} THEN 0 ELSE f[Some(s)] + g[s \ {Some(s)}]
      /\ \A s \in SUBSET T : k[s] = IF s = {} THEN 0 ELSE f[Some(s)] + k[s \ {Some(s)}]
  BY <1>2 DEF Adds
<1>6. 0 \in N
  BY <1>3, <1>5, FS_EmptySet
<1>7. ASSUME NEW n \in Nat, n \in N
      PROVE  n + 1 \in N
  <2>1. ASSUME NEW s \in SUBSET T, Cardinality(s) <= n + 1
        PROVE  g[s] = k[s]
    <3>1. s # {} => g[s \ {Some(s)}] = k[s \ {Some(s)}]
      BY <1>3, <1>4, <1>7, <2>1
    <3> QED
      BY <1>5, <3>1
  <2> QED
    BY <2>1
<1>8. Cardinality(T) \in N
  <2> HIDE DEF N
  <2> QED
    BY <1>3, <1>6, <1>7, SetOfNaturals
<1> QED
  BY <1>2, <1>3, <1>8

LEMMA TotalStep ==
    ASSUME NEW S, IsFiniteSet(S), S # {}, NEW f
    PROVE  Total(f, S) = f[Some(S)] + Total(f, S \ {Some(S)})
<1>1. PICK g : Adds(g, f, S) /\ Total(f, S) = g[S]
  BY TotalAdds
<1>2. g[S] = f[Some(S)] + g[S \ {Some(S)}]
  BY <1>1 DEF Adds
<1>3. g[S \ {Some(S)}] = Total(f, S \ {Some(S)})
  BY <1>1, AddsIsTotal
<1> QED
  BY <1>1, <1>2, <1>3

-------------------------------------------------------------------------------
(* The order does not matter.                                                *)

\* A total is a number, and any element may be taken out first.
LEMMA TotalInAnyOrder ==
    ASSUME NEW S, IsFiniteSet(S), NEW f, \A x \in S : f[x] \in Int
    PROVE  /\ Total(f, S) \in Int
           /\ \A x \in S : Total(f, S) = f[x] + Total(f, S \ {x})
<1> DEFINE Good(T) == /\ Total(f, T) \in Int
                      /\ \A x \in T : Total(f, T) = f[x] + Total(f, T \ {x})
           N == {n \in Nat : \A T \in SUBSET S : Cardinality(T) <= n => Good(T)}
<1>1. \A T \in SUBSET S : IsFiniteSet(T) /\ Cardinality(T) \in Nat
  BY FS_Subset, FS_CardinalityType
<1>2. ASSUME NEW T \in SUBSET S, NEW x \in T
      PROVE  T \ {x} \in SUBSET S /\ Cardinality(T \ {x}) = Cardinality(T) - 1
  BY <1>1, FS_RemoveElement
<1>3. 0 \in N
  <2>1. Good({})
    BY TotalOfEmpty
  <2> HIDE DEF Good
  <2> QED
    BY <1>1, <2>1, FS_EmptySet
<1>4. ASSUME NEW n \in Nat, n \in N
      PROVE  n + 1 \in N
  <2>1. ASSUME NEW T \in SUBSET S, Cardinality(T) <= n + 1, T # {}
        PROVE  Good(T)
    <3> DEFINE y == Some(T)
               Y == T \ {y}
    <3>1. y \in T /\ Total(f, T) = f[y] + Total(f, Y)
      BY <1>1, <2>1, SomeIsElement, TotalStep
    <3>2. Good(Y)
      <4>1. Y \in SUBSET S /\ Cardinality(Y) <= n
        BY <1>1, <1>2, <2>1, <3>1
      <4> HIDE DEF Good, Y
      <4> QED
        BY <1>4, <4>1
    <3>3. Total(f, T) \in Int
      BY <3>1, <3>2
    <3>4. ASSUME NEW x \in T, x # y
          PROVE  Total(f, T) = f[x] + Total(f, T \ {x})
      <4> DEFINE X == T \ {x}
                 Z == Y \ {x}
      <4>1. Total(f, Y) = f[x] + Total(f, Z)
        BY <3>2, <3>4
      <4>2. Good(X)
        <5>1. X \in SUBSET S /\ Cardinality(X) <= n
          BY <1>1, <1>2, <2>1, <3>4
        <5> HIDE DEF Good, X
        <5> QED
          BY <1>4, <5>1
      <4>3. Total(f, X) = f[y] + Total(f, X \ {y})
        BY <3>1, <3>4, <4>2
      <4>4. X \ {y} = Z
        OBVIOUS
      <4>5. Good(Z)
        <5>1. Z \in SUBSET S /\ Z \subseteq Y /\ Y \in SUBSET S /\ Cardinality(Y) <= n
          BY <1>1, <1>2, <2>1, <3>1
        <5>2. Cardinality(Z) <= n
          <6> HIDE DEF Z, Y
          <6>1. Cardinality(Z) <= Cardinality(Y)
            BY <1>1, <5>1, FS_Subset
          <6> QED
            BY <1>1, <5>1, <6>1
        <5> HIDE DEF Good, Z
        <5> QED
          BY <1>4, <5>1, <5>2
      <4>6. f[x] \in Int /\ f[y] \in Int /\ Total(f, Z) \in Int
        BY <3>1, <4>5
      <4>7. Total(f, T) = f[x] + Total(f, X)
        <5>1. Total(f, X) = f[y] + Total(f, Z)
          BY <4>3, <4>4
        <5>2. Total(f, T) = f[y] + Total(f, Y)
          BY <3>1
        <5>3. Total(f, X) \in Int /\ Total(f, Y) \in Int /\ Total(f, T) \in Int
          BY <3>2, <3>3, <4>2
        <5> HIDE DEF X, Y, Z, y
        <5> QED
          BY <4>1, <4>6, <5>1, <5>2, <5>3
      <4> QED
        BY <4>7
    <3> QED
      BY <3>1, <3>3, <3>4
  <2>2. Good({})
    BY TotalOfEmpty
  <2> HIDE DEF Good
  <2> QED
    BY <2>1, <2>2
<1>5. Cardinality(S) \in N
  <2> HIDE DEF N
  <2> QED
    BY <1>1, <1>3, <1>4, SetOfNaturals
<1> HIDE DEF Good
<1>6. Good(S)
  BY <1>1, <1>5
<1> QED
  BY <1>6 DEF Good

-------------------------------------------------------------------------------
(* What the proofs cite.                                                     *)

LEMMA TotalOfOneMore ==
    ASSUME NEW S, IsFiniteSet(S), NEW x, x \notin S, NEW f, \A y \in S \cup {x} : f[y] \in Int
    PROVE  Total(f, S \cup {x}) = Total(f, S) + f[x] /\ Total(f, S) \in Int
<1> DEFINE T == S \cup {x}
<1>1. IsFiniteSet(T) /\ x \in T /\ T \ {x} = S /\ \A y \in T : f[y] \in Int
  BY FS_AddElement
<1>3. Total(f, S) \in Int /\ f[x] \in Int
  BY TotalInAnyOrder
<1> HIDE DEF T
<1>2. Total(f, T) = f[x] + Total(f, S)
  BY <1>1, TotalInAnyOrder
<1> USE DEF T
<1> QED
  BY <1>1, <1>2, <1>3

LEMMA TotalOfOneLess ==
    ASSUME NEW S, IsFiniteSet(S), NEW x \in S, NEW f, \A y \in S : f[y] \in Int
    PROVE  /\ Total(f, S \ {x}) = Total(f, S) - f[x]
           /\ Total(f, S) \in Int /\ Total(f, S \ {x}) \in Int
<1>1. IsFiniteSet(S \ {x})
  BY FS_RemoveElement
<1>2. Total(f, S) = f[x] + Total(f, S \ {x})
  BY TotalInAnyOrder
<1>3. Total(f, S) \in Int /\ Total(f, S \ {x}) \in Int /\ f[x] \in Int
  BY <1>1, TotalInAnyOrder
<1> QED
  BY <1>2, <1>3

LEMMA TotalIsNat ==
    ASSUME NEW S, IsFiniteSet(S), NEW f, \A x \in S : f[x] \in Nat
    PROVE  Total(f, S) \in Nat
<1> DEFINE A == {T \in SUBSET S : Total(f, T) \in Nat}
<1>1. {} \in A
  BY TotalOfEmpty
<1>2. ASSUME NEW T \in SUBSET S, NEW x \in S \ T, T \in A
      PROVE  T \cup {x} \in A
  <2>1. IsFiniteSet(T) /\ \A y \in T \cup {x} : f[y] \in Int
    BY FS_Subset
  <2>2. Total(f, T \cup {x}) = Total(f, T) + f[x]
    BY <2>1, TotalOfOneMore
  <2>3. f[x] \in Nat /\ Total(f, T) \in Nat
    BY <1>2
  <2> QED
    BY <2>2, <2>3
<1> HIDE DEF A
<1>3. S \in A
  BY <1>1, <1>2, SetOfSets
<1> QED
  BY <1>3 DEF A

\* Of naturals, a part never makes more than the whole.
LEMMA TotalOfPart ==
    ASSUME NEW S, IsFiniteSet(S), NEW f, \A x \in S : f[x] \in Nat, NEW R \in SUBSET S
    PROVE  Total(f, R) <= Total(f, S)
<1> DEFINE A == {T \in SUBSET (S \ R) : Total(f, R) <= Total(f, R \cup T)}
<1>1. \A T \in SUBSET S : IsFiniteSet(T) /\ Total(f, T) \in Nat
  BY FS_Subset, TotalIsNat
<1>2. {} \in A
  <2>1. R \cup {} = R /\ Total(f, R) \in Nat
    BY <1>1
  <2> QED
    BY <2>1
<1>3. ASSUME NEW T \in SUBSET (S \ R), NEW x \in (S \ R) \ T, T \in A
      PROVE  T \cup {x} \in A
  <2> DEFINE U == R \cup T
  <2>1. U \in SUBSET S /\ x \notin U /\ R \cup (T \cup {x}) = U \cup {x}
    OBVIOUS
  <2>2. IsFiniteSet(U) /\ \A y \in U \cup {x} : f[y] \in Int
    BY <1>1, <2>1
  <2>3. Total(f, U \cup {x}) = Total(f, U) + f[x]
    BY <2>1, <2>2, TotalOfOneMore
  <2>4. Total(f, R) <= Total(f, U) /\ f[x] \in Nat /\ Total(f, U) \in Nat /\ Total(f, R) \in Nat
    BY <1>1, <1>3, <2>1
  <2>5. Total(f, R) <= Total(f, U \cup {x})
    BY <2>3, <2>4
  <2> QED
    BY <2>1, <2>5
<1>4. S \ R \in A
  <2>1. IsFiniteSet(S \ R)
    BY FS_Subset
  <2> HIDE DEF A
  <2> QED
    BY <1>2, <1>3, <2>1, SetOfSets
<1>5. R \cup (S \ R) = S
  OBVIOUS
<1> QED
  BY <1>4, <1>5

\* Functions that agree on a set have the same total over it.
LEMMA TotalIsExtensional ==
    ASSUME NEW S, IsFiniteSet(S), NEW f, NEW g, \A x \in S : f[x] = g[x] /\ f[x] \in Int
    PROVE  Total(f, S) = Total(g, S)
<1> DEFINE A == {T \in SUBSET S : Total(f, T) = Total(g, T)}
<1>1. {} \in A
  BY TotalOfEmpty
<1>2. ASSUME NEW T \in SUBSET S, NEW x \in S \ T, T \in A
      PROVE  T \cup {x} \in A
  <2>1. IsFiniteSet(T) /\ \A y \in T \cup {x} : f[y] \in Int /\ g[y] \in Int
    BY FS_Subset
  <2>2. Total(f, T \cup {x}) = Total(f, T) + f[x]
    BY <2>1, TotalOfOneMore
  <2>3. Total(g, T \cup {x}) = Total(g, T) + g[x]
    BY <2>1, TotalOfOneMore
  <2> QED
    BY <1>2, <2>2, <2>3
<1> HIDE DEF A
<1>3. S \in A
  BY <1>1, <1>2, SetOfSets
<1> QED
  BY <1>3 DEF A

\* One value changes, and the total by as much.
LEMMA TotalOfChange ==
    ASSUME NEW S, IsFiniteSet(S), NEW x \in S, NEW f, NEW g,
           \A y \in S : f[y] \in Int /\ g[y] \in Int,
           \A y \in S \ {x} : f[y] = g[y]
    PROVE  Total(g, S) = Total(f, S) - f[x] + g[x]
<1>1. Total(f, S \ {x}) = Total(g, S \ {x})
  BY FS_RemoveElement, TotalIsExtensional
<1>2. Total(f, S \ {x}) = Total(f, S) - f[x] /\ Total(f, S) \in Int
  BY TotalOfOneLess
<1>3. Total(g, S \ {x}) = Total(g, S) - g[x] /\ Total(g, S) \in Int
  BY TotalOfOneLess
<1>4. f[x] \in Int /\ g[x] \in Int
  OBVIOUS
<1> QED
  BY <1>1, <1>2, <1>3, <1>4

\* Two functions are added up one after the other or together.
LEMMA TotalOfSum ==
    ASSUME NEW S, IsFiniteSet(S), NEW f, NEW g, NEW h,
           \A x \in S : f[x] \in Int /\ g[x] \in Int /\ h[x] = f[x] + g[x]
    PROVE  Total(h, S) = Total(f, S) + Total(g, S)
<1> DEFINE A == {T \in SUBSET S : Total(h, T) = Total(f, T) + Total(g, T)}
<1>1. {} \in A
  BY TotalOfEmpty
<1>2. ASSUME NEW T \in SUBSET S, NEW x \in S \ T, T \in A
      PROVE  T \cup {x} \in A
  <2>1. IsFiniteSet(T) /\ \A y \in T \cup {x} : f[y] \in Int /\ g[y] \in Int /\ h[y] \in Int
    BY FS_Subset
  <2>2. Total(f, T \cup {x}) = Total(f, T) + f[x] /\ Total(f, T) \in Int
    BY <2>1, TotalOfOneMore
  <2>3. Total(g, T \cup {x}) = Total(g, T) + g[x] /\ Total(g, T) \in Int
    BY <2>1, TotalOfOneMore
  <2>4. Total(h, T \cup {x}) = Total(h, T) + h[x]
    BY <2>1, TotalOfOneMore
  <2>5. /\ Total(h, T) = Total(f, T) + Total(g, T)
        /\ h[x] = f[x] + g[x] /\ f[x] \in Int /\ g[x] \in Int
    BY <1>2
  <2> QED
    BY <2>2, <2>3, <2>4, <2>5
<1> HIDE DEF A
<1>3. S \in A
  BY <1>1, <1>2, SetOfSets
<1> QED
  BY <1>3 DEF A

\* Of two functions, the larger one everywhere has the larger total.
LEMMA TotalIsMonotone ==
    ASSUME NEW S, IsFiniteSet(S), NEW f, NEW g,
           \A x \in S : f[x] \in Int /\ g[x] \in Int /\ f[x] <= g[x]
    PROVE  Total(f, S) <= Total(g, S) /\ Total(f, S) \in Int /\ Total(g, S) \in Int
<1> DEFINE d == [x \in S |-> g[x] - f[x]]
<1>1. \A x \in S : d[x] \in Nat /\ g[x] = f[x] + d[x]
  OBVIOUS
<1> HIDE DEF d
<1>2. Total(g, S) = Total(f, S) + Total(d, S)
  BY <1>1, TotalOfSum
<1>3. Total(d, S) \in Nat /\ Total(f, S) \in Int
  BY <1>1, TotalIsNat, TotalInAnyOrder
<1> QED
  BY <1>2, <1>3

\* Summing over a part is summing a function that is zero elsewhere.
LEMMA TotalOfMasked ==
    ASSUME NEW S, IsFiniteSet(S), NEW f, \A x \in S : f[x] \in Int, NEW R \in SUBSET S,
           NEW m, \A x \in S : m[x] = IF x \in R THEN f[x] ELSE 0
    PROVE  Total(f, R) = Total(m, S)
<1> DEFINE A == {T \in SUBSET (S \ R) : Total(m, R \cup T) = Total(f, R)}
<1>1. {} \in A
  <2>1. Total(m, R) = Total(f, R)
    BY FS_Subset, TotalIsExtensional
  <2> QED
    BY <2>1
<1>2. ASSUME NEW T \in SUBSET (S \ R), NEW x \in (S \ R) \ T, T \in A
      PROVE  T \cup {x} \in A
  <2> DEFINE U == R \cup T
  <2>1. U \in SUBSET S /\ x \notin U /\ R \cup (T \cup {x}) = U \cup {x}
    OBVIOUS
  <2>2. IsFiniteSet(U) /\ \A y \in U \cup {x} : m[y] \in Int
    BY <2>1, FS_Subset
  <2>3. Total(m, U \cup {x}) = Total(m, U) + m[x] /\ Total(m, U) \in Int
    BY <2>1, <2>2, TotalOfOneMore
  <2>4. m[x] = 0
    OBVIOUS
  <2> HIDE DEF U
  <2>5. Total(m, U \cup {x}) = Total(m, U)
    BY <2>3, <2>4
  <2> USE DEF U
  <2> QED
    BY <1>2, <2>1, <2>5
<1>3. S \ R \in A
  <2>1. IsFiniteSet(S \ R)
    BY FS_Subset
  <2> HIDE DEF A
  <2> QED
    BY <1>2, <1>1, <2>1, SetOfSets
<1>4. R \cup (S \ R) = S
  OBVIOUS
<1> QED
  BY <1>3, <1>4

Column(table, c, S) == MapThenSumSet(LAMBDA x : table[x][c], S)

\* The sum of one column of a table is the total of that column.
LEMMA TotalOfColumn ==
    ASSUME NEW D, NEW S \in SUBSET D, IsFiniteSet(S), NEW table, NEW c
    PROVE  Column(table, c, S) = Total([x \in D |-> table[x][c]], S)
<1> DEFINE f == [x \in D |-> table[x][c]]
           Iter(g) == g = [s \in SUBSET S |-> IF s = {} THEN 0
                                              ELSE table[Some(s)][c] + g[s \ {Some(s)}]]
           k == CHOOSE g : Iter(g)
<1>1. \A s \in SUBSET S : s # {} => f[Some(s)] = table[Some(s)][c]
  BY SomeIsElement
<1>2. ASSUME NEW g
      PROVE  Adds(g, f, S) <=> Iter(g)
  <2> HIDE DEF f
  <2>1. \A s \in SUBSET S : (IF s = {} THEN 0 ELSE f[Some(s)] + g[s \ {Some(s)}])
                          = (IF s = {} THEN 0 ELSE table[Some(s)][c] + g[s \ {Some(s)}])
    BY <1>1
  <2>2. [s \in SUBSET S |-> IF s = {} THEN 0 ELSE f[Some(s)] + g[s \ {Some(s)}]]
      = [s \in SUBSET S |-> IF s = {} THEN 0 ELSE table[Some(s)][c] + g[s \ {Some(s)}]]
    BY <2>1
  <2> QED
    BY <2>2 DEF Adds
<1>3. \E g : Iter(g)
  BY <1>2, SumExists
<1>4. Iter(k)
  <2> HIDE DEF Iter
  <2> QED
    BY <1>3, Zenon
<1>5. Column(table, c, S) = k[S]
  BY DEF Column, MapThenSumSet, MapThenFoldSet, Some
<1>6. Adds(k, f, S)
  BY <1>2, <1>4
<1> HIDE DEF k, f
<1>7. k[S] = Total(f, S)
  BY <1>6, AddsIsTotal
<1> QED
  BY <1>5, <1>7 DEF f

\* As many times the same.
LEMMA TotalOfEqual ==
    ASSUME NEW S, IsFiniteSet(S), NEW f, NEW n \in Nat, \A x \in S : f[x] = n
    PROVE  Total(f, S) = Cardinality(S) * n
<1> DEFINE A == {T \in SUBSET S : Total(f, T) = Cardinality(T) * n}
<1>1. {} \in A
  BY TotalOfEmpty, FS_EmptySet
<1>2. ASSUME NEW T \in SUBSET S, NEW x \in S \ T, T \in A
      PROVE  T \cup {x} \in A
  <2>1. IsFiniteSet(T) /\ (\A y \in T \cup {x} : f[y] \in Int) /\ Cardinality(T) \in Nat
    BY FS_Subset, FS_CardinalityType
  <2>2. Total(f, T \cup {x}) = Total(f, T) + n
    BY <2>1, TotalOfOneMore
  <2>3. Cardinality(T \cup {x}) = Cardinality(T) + 1
    BY <2>1, FS_AddElement
  <2>4. Total(f, T) = Cardinality(T) * n
    BY <1>2
  <2>5. Cardinality(T) * n + n = (Cardinality(T) + 1) * n
    BY <2>1
  <2> QED
    BY <2>2, <2>3, <2>4, <2>5
<1> HIDE DEF A
<1>3. S \in A
  BY <1>1, <1>2, SetOfSets
<1> QED
  BY <1>3 DEF A

\* Two sets with nothing in common.
LEMMA TotalOfUnion ==
    ASSUME NEW S, IsFiniteSet(S), NEW Z, IsFiniteSet(Z), S \cap Z = {},
           NEW f, \A x \in S \cup Z : f[x] \in Int
    PROVE  Total(f, S \cup Z) = Total(f, S) + Total(f, Z)
<1> DEFINE A == {T \in SUBSET Z : Total(f, S \cup T) = Total(f, S) + Total(f, T)}
<1>1. {} \in A
  <2>1. S \cup {} = S /\ Total(f, S) \in Int /\ Total(f, {}) = 0
    BY TotalOfEmpty, TotalInAnyOrder
  <2> QED
    BY <2>1
<1>2. ASSUME NEW T \in SUBSET Z, NEW x \in Z \ T, T \in A
      PROVE  T \cup {x} \in A
  <2> DEFINE U == S \cup T
  <2>1. x \notin U /\ x \notin T /\ S \cup (T \cup {x}) = U \cup {x}
    OBVIOUS
  <2>2. IsFiniteSet(T)
    BY FS_Subset
  <2>3. IsFiniteSet(U) /\ \A y \in U \cup {x} : f[y] \in Int
    BY <2>2, FS_Union
  <2> HIDE DEF U
  <2>4. Total(f, U \cup {x}) = Total(f, U) + f[x] /\ Total(f, U) \in Int
    BY <2>1, <2>3, TotalOfOneMore
  <2>5. \A y \in T \cup {x} : f[y] \in Int
    OBVIOUS
  <2>6. Total(f, T \cup {x}) = Total(f, T) + f[x] /\ Total(f, T) \in Int
    BY <2>1, <2>2, <2>5, TotalOfOneMore
  <2>7. Total(f, U) = Total(f, S) + Total(f, T)
    BY <1>2 DEF U
  <2>8. Total(f, S) \in Int /\ f[x] \in Int
    BY TotalInAnyOrder
  <2>9. Total(f, U \cup {x}) = Total(f, S) + Total(f, T \cup {x})
    BY <2>4, <2>6, <2>7, <2>8
  <2> QED
    BY <2>1, <2>9
<1> HIDE DEF A
<1>3. Z \in A
  BY <1>1, <1>2, SetOfSets
<1> QED
  BY <1>3 DEF A

\* A function that takes the same values over an image adds up to no more over it, and to as
\* much if no two elements share an image.
Images(h, S) == {h[x] : x \in S}

LEMMA TotalOfImage ==
    ASSUME NEW S, IsFiniteSet(S), NEW f, NEW h, NEW k,
           \A x \in S : f[x] \in Nat /\ k[h[x]] = f[x]
    PROVE  /\ IsFiniteSet(Images(h, S)) /\ Total(k, Images(h, S)) <= Total(f, S)
           /\ Total(k, Images(h, S)) \in Nat /\ Total(f, S) \in Nat
           /\ (\A x, y \in S : h[x] = h[y] => x = y) => Total(k, Images(h, S)) = Total(f, S)
<1> DEFINE Apart(T) == \A x, y \in T : h[x] = h[y] => x = y
           A == {T \in SUBSET S : /\ IsFiniteSet(Images(h, T)) /\ Total(k, Images(h, T)) <= Total(f, T)
                                  /\ Apart(T) => Total(k, Images(h, T)) = Total(f, T)}
<1>1. {} \in A
  <2>1. Images(h, {}) = {}
    BY DEF Images
  <2>2. Total(k, {}) = 0 /\ Total(f, {}) = 0
    BY TotalOfEmpty
  <2>3. IsFiniteSet({})
    BY FS_EmptySet
  <2> QED
    BY <2>1, <2>2, <2>3
<1>2. \A T \in SUBSET S : IsFiniteSet(T) /\ Total(f, T) \in Nat
  BY FS_Subset, TotalIsNat
<1>3. ASSUME NEW T \in SUBSET S, NEW x \in S \ T, T \in A
      PROVE  T \cup {x} \in A
  <2> DEFINE U == T \cup {x}
             I == Images(h, T)
             y == h[x]
  <2>1. IsFiniteSet(I) /\ Total(k, I) <= Total(f, T) /\ (Apart(T) => Total(k, I) = Total(f, T))
    BY <1>3
  <2>2. Images(h, U) = I \cup {y}
    BY DEF Images
  <2>3. Total(f, U) = Total(f, T) + f[x] /\ Total(f, T) \in Nat /\ f[x] \in Nat
    <3>1. IsFiniteSet(T) /\ x \notin T /\ \A z \in T \cup {x} : f[z] \in Int
      BY <1>2
    <3>2. Total(f, U) = Total(f, T) + f[x]
      BY <3>1, TotalOfOneMore
    <3> QED
      BY <1>2, <3>2
  <2>4. \A z \in I \cup {y} : k[z] \in Nat
    BY DEF Images
  <2>5. k[y] = f[x]
    OBVIOUS
  <2>6. Total(k, I) \in Nat
    BY <2>1, <2>4, TotalIsNat
  <2>7. Apart(U) => Apart(T) /\ y \notin I
    <3>1. Apart(U) => Apart(T)
      OBVIOUS
    <3>2. ASSUME Apart(U), y \in I PROVE FALSE
      <4>1. PICK z \in T : h[z] = h[x]
        BY <3>2 DEF Images
      <4>2. z = x
        BY <3>2, <4>1
      <4> QED
        BY <4>1, <4>2
    <3> QED
      BY <3>1, <3>2
  <2>8. CASE y \in I
    <3>1. I \cup {y} = I
      BY <2>8
    <3>2. Images(h, U) = I
      BY <2>2, <3>1, Zenon
    <3>3. ~Apart(U)
      BY <2>7, <2>8
    <3> HIDE DEF I, y, Apart
    <3>4. IsFiniteSet(Images(h, U)) /\ Total(k, Images(h, U)) = Total(k, I)
      BY <2>1, <3>2, Zenon
    <3>5. Total(k, Images(h, U)) <= Total(f, U)
      BY <2>1, <2>3, <2>6, <3>4
    <3> QED
      BY <3>3, <3>4, <3>5
  <2>9. CASE y \notin I
    <3>1. Total(k, I \cup {y}) = Total(k, I) + k[y] /\ IsFiniteSet(I \cup {y})
      <4>1. \A z \in I \cup {y} : k[z] \in Int
        BY <2>4
      <4> HIDE DEF I, y
      <4> QED
        BY <2>1, <2>9, <4>1, TotalOfOneMore, FS_AddElement
    <3> HIDE DEF I, y, Apart
    <3>2. IsFiniteSet(Images(h, U)) /\ Total(k, Images(h, U)) = Total(k, I) + f[x]
      BY <2>2, <2>5, <3>1, Zenon
    <3>3. /\ Total(k, Images(h, U)) <= Total(f, U)
          /\ Apart(U) => Total(k, Images(h, U)) = Total(f, U)
      BY <2>1, <2>3, <2>6, <2>7, <3>2
    <3> QED
      BY <3>2, <3>3
  <2> QED
    BY <2>8, <2>9
<1>4. S \in A
  <2>1. \A T \in SUBSET S : \A x \in S \ T : T \in A => T \cup {x} \in A
    BY <1>3
  <2>2. IsFiniteSet(S)
    OBVIOUS
  <2> HIDE DEF A
  <2> QED
    BY ONLY <1>1, <2>1, <2>2, SetOfSets
<1>5. IsFiniteSet(Images(h, S)) /\ Total(k, Images(h, S)) <= Total(f, S)
      /\ (Apart(S) => Total(k, Images(h, S)) = Total(f, S))
  BY <1>4
<1>6. \A z \in Images(h, S) : k[z] \in Nat
  BY DEF Images
<1>7. Total(k, Images(h, S)) \in Nat
  BY <1>5, <1>6, TotalIsNat
<1> QED
  BY <1>2, <1>5, <1>7

-------------------------------------------------------------------------------
(* Products and rounding.                                                    *)

\* A set of naturals has a least one.
LEMMA LeastNatural ==
    ASSUME NEW S \in SUBSET Nat, S # {}
    PROVE  \E j \in S : \A k \in S : j <= k
<1> DEFINE A == {n \in Nat : \A k \in S : n <= k}
<1>1. SUFFICES ASSUME \A j \in S : \E k \in S : ~(j <= k) PROVE FALSE
    OBVIOUS
<1>2. 0 \in A  OBVIOUS
<1>3. ASSUME NEW n \in Nat, n \in A PROVE n + 1 \in A
    <2>1. n \notin S  BY <1>1, <1>3
    <2> QED  BY <1>3, <2>1
<1>4. A = Nat
    <2> HIDE DEF A
    <2>1. \A n \in Nat : n \in A => n + 1 \in A  BY <1>3
    <2>2. \A n \in Nat : n \in A  BY <1>2, <2>1, SetOfNaturals
    <2> QED  BY <2>2 DEF A
<1>5. PICK k \in S : TRUE  OBVIOUS
<1>6. k \in Nat /\ k + 1 \in Nat  BY <1>5
<1>7. k + 1 \in A
    <2> HIDE DEF A
    <2> QED  BY <1>4, <1>6
<1>8. k + 1 <= k  BY <1>7
<1> QED  BY <1>6, <1>8

LEMMA ProductIsNat ==
    ASSUME NEW a \in Nat, NEW b \in Nat
    PROVE  a * b \in Nat /\ (a > 0 /\ b > 0 => a * b > 0)
OBVIOUS

LEMMA LessOfProducts ==
    ASSUME NEW a \in Int, NEW b \in Int, NEW d \in Nat \ {0}
    PROVE  (a * d <= b * d => a <= b) /\ (a * d < b * d => a < b)
<1>1. ASSUME a > b PROVE a * d > b * d
    <2>1. PICK k \in Nat \ {0} : a = b + k
        <3>1. a - b \in Nat \ {0} /\ a = b + (a - b)  BY <1>1
        <3> QED  BY <3>1
    <2>2. k * d \in Nat /\ k * d > 0  BY ProductIsNat
    <2>3. a * d = b * d + k * d  BY <2>1
    <2> QED  BY <2>2, <2>3
<1>2. ASSUME a = b PROVE a * d = b * d  BY <1>2
<1>3. a * d \in Int /\ b * d \in Int  OBVIOUS
<1> QED  BY <1>1, <1>2, <1>3

\* Rounding to the nearest: half a unit off at most.
IsRound(r, n, d) == r \in Nat /\ 2 * (r * d) <= 2 * n + d /\ 2 * n < 2 * (r * d) + d

LEMMA RoundedIs ==
    ASSUME NEW n \in Nat, NEW d \in Nat \ {0}
    PROVE  IsRound((2 * n + d) \div (2 * d), n, d)
<1> DEFINE a == 2 * n + d
           b == 2 * d
           r == a \div b
<1>1. a \in Nat /\ b \in Nat \ {0}  OBVIOUS
<1>2. a = b * r + (a % b) /\ a % b \in 0 .. b - 1 /\ r \in Nat
    <2> HIDE DEF a, b
    <2> QED  BY <1>1
<1>3. b * r = 2 * (r * d) /\ r * d \in Nat
    <2>1. r \in Nat  BY <1>2
    <2> HIDE DEF r
    <2> QED  BY <2>1, ProductIsNat
<1> HIDE DEF r
<1>4. 2 * (r * d) <= 2 * n + d /\ 2 * n < 2 * (r * d) + d  BY <1>1, <1>2, <1>3
<1> QED  BY <1>2, <1>4 DEF IsRound, r
-------------------------------------------------------------------------------
(* Loops over a sequence, and the first of many.                             *)

\* A loop of n turns that begins with a and goes from one state of A to the next by F has a run.
IsRun(run, n, a, F) == run[0] = a /\ \A i \in 1 .. n : run[i] = F[<<i, run[i - 1]>>]
LoopGoesOn(n, A, F)     == \A i \in 1 .. n : \A x \in A : F[<<i, x>>] \in A

LEMMA RunExists ==
    ASSUME NEW n \in Nat, NEW A, NEW a \in A, NEW F, LoopGoesOn(n, A, F)
    PROVE  \E run \in [0 .. n -> A] : IsRun(run, n, a, F)
<1> USE DEF IsRun, LoopGoesOn
<1> DEFINE N == {m \in Nat : m <= n => \E run \in [0 .. m -> A] : IsRun(run, m, a, F)}
<1>1. 0 \in N
  <2> DEFINE run == [i \in 0 .. 0 |-> a]
  <2>1. run \in [0 .. 0 -> A] /\ IsRun(run, 0, a, F)  OBVIOUS
  <2> QED  BY <2>1
<1>2. ASSUME NEW m \in Nat, m \in N PROVE m + 1 \in N
  <2> SUFFICES ASSUME m + 1 <= n PROVE \E run \in [0 .. m + 1 -> A] : IsRun(run, m + 1, a, F)
    OBVIOUS
  <2>1. PICK old \in [0 .. m -> A] : IsRun(old, m, a, F)  BY <1>2
  <2> DEFINE run == [i \in 0 .. m + 1 |-> IF i = m + 1 THEN F[<<m + 1, old[m]>>] ELSE old[i]]
  <2>2. F[<<m + 1, old[m]>>] \in A  BY <2>1
  <2>3. run \in [0 .. m + 1 -> A]  BY <2>1, <2>2
  <2>4. run[0] = a  BY <2>1
  <2>5. ASSUME NEW i \in 1 .. m + 1 PROVE run[i] = F[<<i, run[i - 1]>>]
    <3>1. CASE i = m + 1
      <4>1. run[i] = F[<<m + 1, old[m]>>]  BY <3>1
      <4>2. i - 1 = m /\ run[m] = old[m]  BY <3>1
      <4> QED  BY <3>1, <4>1, <4>2
    <3>2. CASE i # m + 1
      <4>1. i \in 1 .. m /\ i - 1 \in 0 .. m /\ i - 1 # m + 1  BY <3>2
      <4>2. run[i] = old[i] /\ run[i - 1] = old[i - 1]  BY <4>1
      <4>3. old[i] = F[<<i, old[i - 1]>>]  BY <2>1, <4>1
      <4> QED  BY <4>2, <4>3
    <3> QED  BY <3>1, <3>2
  <2> QED  BY <2>3, <2>4, <2>5
<1>3. n \in N
  <2> HIDE DEF N
  <2> QED  BY <1>1, <1>2, SetOfNaturals
<1> QED  BY <1>3

\* Of finitely many elements, in order without gaps, one comes before all others.
LEMMA FirstExists ==
    ASSUME NEW S, IsFiniteSet(S), S # {}, NEW R,
           \A b, c \in S : <<b, c>> \in R \/ <<c, b>> \in R,
           \A b, c, d \in S : <<b, c>> \in R /\ <<c, d>> \in R => <<b, d>> \in R
    PROVE  \E b \in S : \A c \in S : <<b, c>> \in R
<1> DEFINE A == {T \in SUBSET S : T = {} \/ \E b \in T : \A c \in T : <<b, c>> \in R}
<1>1. {} \in A  OBVIOUS
<1>2. ASSUME NEW T \in SUBSET S, NEW x \in S \ T, T \in A PROVE T \cup {x} \in A
  <2>1. CASE T = {}
    <3>1. <<x, x>> \in R  OBVIOUS
    <3> QED  BY <2>1, <3>1
  <2>2. CASE T # {}
    <3>1. PICK b \in T : \A c \in T : <<b, c>> \in R  BY <1>2, <2>2
    <3>2. CASE <<b, x>> \in R
      <4>1. \A c \in T \cup {x} : <<b, c>> \in R  BY <3>1, <3>2
      <4> QED  BY <4>1
    <3>3. CASE <<b, x>> \notin R
      <4>1. <<x, b>> \in R /\ <<x, x>> \in R  BY <3>3
      <4>2. \A c \in T : <<x, c>> \in R  BY <3>1, <4>1
      <4> QED  BY <4>1, <4>2
    <3> QED  BY <3>2, <3>3
  <2> QED  BY <2>1, <2>2
<1>3. S \in A
  <2> HIDE DEF A
  <2> QED  BY <1>1, <1>2, SetOfSets
<1> QED  BY <1>3
================================================================================
