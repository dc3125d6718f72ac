----------------------------- MODULE FiniteSums -----------------------------
(***************************************************************************)
(* Facts about sums over finite sets of natural numbers, and about minima  *)
(* and maxima, that the proofs about ledgers, capacities and rows in order *)
(* of creation rest on.                                                    *)
(*                                                                         *)
(* What SumFunctionOnSet computes is shown by induction over the number of *)
(* elements, written as the search for a smallest counterexample.          *)
(***************************************************************************)
EXTENDS Functions, FiniteSets, FiniteSetTheorems, WellFoundedInduction, TLAPS

\* The natural numbers are well ordered.
LEMMA NatHasMin ==
  ASSUME NEW T, T \subseteq Nat, T # {}
  PROVE  \E x \in T : \A y \in T : x <= y
  <1> DEFINE R == OpToRel(<, Nat)
  <1>1. \E x \in T : \A y \in T : ~ (<<y, x>> \in R)
    BY NatLessThanWellFounded, WFMin
  <1>2. \A x, y \in Nat : y < x => <<y, x>> \in R
    BY DEF OpToRel
  <1> HIDE DEF R
  <1>3. PICK x \in T : \A y \in T : ~ (<<y, x>> \in R)
    BY <1>1
  <1>4. \A y \in T : x \in Nat /\ y \in Nat /\ ~(y < x)
    BY <1>2, <1>3
  <1> QED
    BY <1>4

\* A set of bounded numbers has a greatest one.
LEMMA BoundedHasMax ==
  ASSUME NEW n \in Nat, NEW S, S \subseteq 0..n, S # {}
  PROVE  \E x \in S : \A y \in S : y <= x
  <1> DEFINE T == {n - x : x \in S}
  <1>1. T \subseteq Nat
    OBVIOUS
  <1>2. T # {}
    <2>1. PICK x \in S : TRUE
      OBVIOUS
    <2>2. n - x \in T
      OBVIOUS
    <2> QED
      BY <2>2
  <1>3. PICK m \in T : \A y \in T : m <= y
    <2> HIDE DEF T
    <2> QED
      BY <1>1, <1>2, NatHasMin
  <1>4. PICK x \in S : m = n - x
    BY <1>3
  <1>5. \A y \in S : n - x <= n - y
    BY <1>3, <1>4
  <1> QED
    BY <1>5

-----------------------------------------------------------------------------
(* The recursion behind SumFunctionOnSet                                   *)

Pick(s) == CHOOSE x \in s : TRUE

Unfolds(it, f, D) ==
  it = [s \in D |-> IF s = {} THEN 0 ELSE f[Pick(s)] + it[s \ {Pick(s)}]]

\* A set with an element becomes smaller by one without it.
LEMMA OneLess ==
  ASSUME NEW s, IsFiniteSet(s), NEW x \in s
  PROVE  /\ IsFiniteSet(s \ {x})
         /\ Cardinality(s) \in Nat \ {0}
         /\ Cardinality(s \ {x}) = Cardinality(s) - 1
  BY FS_RemoveElement, FS_CardinalityType, FS_EmptySet

LEMMA PickIsMember == ASSUME NEW s, s # {} PROVE Pick(s) \in s
  BY DEF Pick

\* There is a function that satisfies the recursion on the subsets of a finite set.
LEMMA UnfoldingExists ==
  ASSUME NEW f, NEW S, IsFiniteSet(S)
  PROVE  \E it : Unfolds(it, f, SUBSET S)
  <1> DEFINE D(n) == {s \in SUBSET S : Cardinality(s) <= n}
             Bad == {n \in Nat : ~ \E it : Unfolds(it, f, D(n))}
  <1>1. \A s \in SUBSET S : IsFiniteSet(s) /\ Cardinality(s) \in Nat
    BY FS_Subset, FS_CardinalityType
  <1>2. \E it : Unfolds(it, f, D(0))
    <2> DEFINE g == [s \in D(0) |-> 0]
    <2>1. \A s \in D(0) : s = {}
      BY <1>1, FS_EmptySet
    <2>2. Unfolds(g, f, D(0))
      BY <2>1 DEF Unfolds
    <2> QED
      BY <2>2
  <1>3. ASSUME NEW n \in Nat, \E it : Unfolds(it, f, D(n))
        PROVE  \E it : Unfolds(it, f, D(n + 1))
    <2>1. PICK g : Unfolds(g, f, D(n))
      BY <1>3
    <2> DEFINE h == [s \in D(n + 1) |-> IF s \in D(n) THEN g[s]
                                        ELSE f[Pick(s)] + g[s \ {Pick(s)}]]
    <2>2. D(n) \subseteq D(n + 1) /\ {} \in D(n)
      BY <1>1, FS_EmptySet
    <2>3. \A s \in D(n + 1) : s # {} => s \ {Pick(s)} \in D(n)
      <3> SUFFICES ASSUME NEW s \in D(n + 1), s # {} PROVE s \ {Pick(s)} \in D(n)
        OBVIOUS
      <3>1. Cardinality(s \ {Pick(s)}) = Cardinality(s) - 1 /\ Cardinality(s) \in Nat
        BY <1>1, OneLess, PickIsMember
      <3> QED
        BY <3>1
    <2>4. \A s \in D(n) : g[s] = IF s = {} THEN 0 ELSE f[Pick(s)] + g[s \ {Pick(s)}]
      BY <2>1 DEF Unfolds
    <2>5. \A s \in D(n) : h[s] = g[s]
      BY <2>2
    <2>6. \A s \in D(n + 1) : s # {} => h[s] = f[Pick(s)] + g[s \ {Pick(s)}]
      BY <2>4, <2>5
    <2>7. \A s \in D(n + 1) : s # {} => h[s] = f[Pick(s)] + h[s \ {Pick(s)}]
      BY <2>3, <2>5, <2>6
    <2>8. h[{}] = 0
      BY <2>2, <2>4, <2>5
    <2>9. h = [s \in D(n + 1) |-> h[s]]
      OBVIOUS
    <2> HIDE DEF h, D
    <2>10. h = [s \in D(n + 1) |-> IF s = {} THEN 0 ELSE f[Pick(s)] + h[s \ {Pick(s)}]]
      BY <2>7, <2>8, <2>9
    <2> QED
      BY <2>10 DEF Unfolds
  <1>4. Bad = {}
    <2> SUFFICES ASSUME Bad # {} PROVE FALSE
      OBVIOUS
    <2>1. PICK n \in Bad : \A m \in Bad : n <= m
      <3> HIDE DEF Bad
      <3>1. Bad \subseteq Nat
        BY DEF Bad
      <3> QED
        BY <3>1, NatHasMin
    <2> HIDE DEF D
    <2>2. n # 0
      BY <1>2, <2>1
    <2>3. n - 1 \in Nat /\ n - 1 \notin Bad
      BY <2>1, <2>2
    <2>4. \E it : Unfolds(it, f, D((n - 1) + 1))
      BY <1>3, <2>3
    <2>5. (n - 1) + 1 = n
      BY <2>1
    <2> QED
      BY <2>1, <2>4, <2>5
  <1>5. Cardinality(S) \in Nat /\ D(Cardinality(S)) = SUBSET S
    <2>1. Cardinality(S) \in Nat
      BY FS_CardinalityType
    <2>2. \A s \in SUBSET S : Cardinality(s) <= Cardinality(S)
      BY FS_Subset
    <2> QED
      BY <2>1, <2>2
  <1> HIDE DEF D
  <1> QED
    BY <1>4, <1>5

Sums(it, f, S) == Unfolds(it, f, SUBSET S)

\* So the sum is what such a function gives for the whole set.
LEMMA SumUnfolds ==
  ASSUME NEW f, NEW S, IsFiniteSet(S)
  PROVE  \E it : Sums(it, f, S) /\ SumFunctionOnSet(f, S) = it[S]
  <1> DEFINE it == CHOOSE i : Sums(i, f, S)
  <1>1. Sums(it, f, S)
    BY UnfoldingExists DEF Sums
  <1>2. SumFunctionOnSet(f, S) = it[S]
    BY DEF SumFunctionOnSet, FoldFunctionOnSet, MapThenFoldSet, Sums, Unfolds, Pick
  <1> QED
    BY <1>1, <1>2

\* Two functions that satisfy the recursion for the same numbers agree.
LEMMA UnfoldingsAgree ==
  ASSUME NEW f, NEW g, NEW S, NEW U, IsFiniteSet(U), U \in SUBSET S,
         NEW i, Sums(i, f, S), NEW j, Sums(j, g, U),
         \A x \in U : f[x] = g[x]
  PROVE  i[U] = j[U]
  <1> DEFINE Bad == {s \in SUBSET U : i[s] # j[s]}
             Sizes == {Cardinality(s) : s \in Bad}
  <1>1. \A s \in SUBSET U : /\ i[s] = IF s = {} THEN 0 ELSE f[Pick(s)] + i[s \ {Pick(s)}]
                            /\ j[s] = IF s = {} THEN 0 ELSE g[Pick(s)] + j[s \ {Pick(s)}]
    BY DEF Sums, Unfolds
  <1>2. SUFFICES ASSUME U \in Bad PROVE FALSE
    OBVIOUS
  <1>3. Sizes \subseteq Nat /\ Sizes # {}
    <2>1. \A s \in Bad : Cardinality(s) \in Nat
      BY FS_Subset, FS_CardinalityType
    <2>2. Cardinality(U) \in Sizes
      BY <1>2
    <2> QED
      BY <2>1, <2>2
  <1>4. PICK s \in Bad : \A r \in Bad : Cardinality(s) <= Cardinality(r)
    <2>1. PICK m \in Sizes : \A n \in Sizes : m <= n
      <3> HIDE DEF Sizes
      <3> QED
        BY <1>3, NatHasMin
    <2> QED
      BY <2>1
  <1>5. s \in SUBSET U /\ IsFiniteSet(s) /\ s # {}
    BY <1>1, <1>4, FS_Subset
  <1>6. Pick(s) \in s
    BY <1>5, PickIsMember
  <1>7. s \ {Pick(s)} \notin Bad
    <2>1. Cardinality(s \ {Pick(s)}) = Cardinality(s) - 1 /\ Cardinality(s) \in Nat
      BY <1>5, <1>6, OneLess
    <2> QED
      BY <1>4, <2>1
  <1>8. i[s \ {Pick(s)}] = j[s \ {Pick(s)}]
    BY <1>5, <1>7
  <1>9. i[s] = j[s]
    BY <1>1, <1>5, <1>6, <1>8
  <1> QED
    BY <1>4, <1>9

\* The recursion may take the elements in any order.
LEMMA UnfoldAnywhere ==
  ASSUME NEW f, NEW S, IsFiniteSet(S), \A x \in S : f[x] \in Nat,
         NEW i, Sums(i, f, S)
  PROVE  /\ \A s \in SUBSET S : i[s] \in Nat
         /\ \A s \in SUBSET S : \A x \in s : i[s] = f[x] + i[s \ {x}]
  <1> DEFINE Good(s) == i[s] \in Nat /\ \A x \in s : i[s] = f[x] + i[s \ {x}]
             Bad == {s \in SUBSET S : ~ Good(s)}
             Sizes == {Cardinality(s) : s \in Bad}
  <1>1. \A s \in SUBSET S : i[s] = IF s = {} THEN 0 ELSE f[Pick(s)] + i[s \ {Pick(s)}]
    BY DEF Sums, Unfolds
  <1>2. SUFFICES ASSUME Bad # {} PROVE FALSE
    OBVIOUS
  <1>3. Sizes \subseteq Nat /\ Sizes # {}
    <2>1. \A s \in Bad : Cardinality(s) \in Nat
      BY FS_Subset, FS_CardinalityType
    <2>2. PICK s \in Bad : TRUE
      BY <1>2
    <2>3. Cardinality(s) \in Sizes
      OBVIOUS
    <2> QED
      BY <2>1, <2>3
  <1>4. PICK s \in Bad : \A r \in Bad : Cardinality(s) <= Cardinality(r)
    <2>1. PICK m \in Sizes : \A n \in Sizes : m <= n
      <3> HIDE DEF Sizes
      <3> QED
        BY <1>3, NatHasMin
    <2> QED
      BY <2>1
  <1>5. s \in SUBSET S /\ IsFiniteSet(s) /\ ~ Good(s)
    BY <1>4, FS_Subset
  <1>6. s # {}
    <2>1. Good({})
      <3>1. {} \in SUBSET S /\ i[{}] = 0
        BY <1>1
      <3> QED
        BY <3>1
    <2> QED
      BY <1>5, <2>1
  <1>7. ASSUME NEW x \in s PROVE Good(s \ {x})
    <2>1. Cardinality(s \ {x}) = Cardinality(s) - 1 /\ Cardinality(s) \in Nat
      BY <1>5, OneLess
    <2>2. s \ {x} \notin Bad
      <3> HIDE DEF Bad
      <3> QED
        BY <1>4, <2>1
    <2>3. s \ {x} \in SUBSET S
      BY <1>5
    <2> QED
      BY <2>2, <2>3
  <1> DEFINE c == Pick(s)
  <1>8. c \in s /\ i[s] = f[c] + i[s \ {c}] /\ i[s \ {c}] \in Nat /\ f[c] \in Nat
    BY <1>1, <1>5, <1>6, <1>7, PickIsMember
  <1>9. ASSUME NEW x \in s PROVE i[s] = f[x] + i[s \ {x}]
    <2>1. CASE x = c
      BY <1>8, <2>1
    <2>2. CASE x # c
      <3>1. i[s \ {c}] = f[x] + i[(s \ {c}) \ {x}]
        BY <1>7, <1>8, <2>2
      <3>2. i[s \ {x}] = f[c] + i[(s \ {x}) \ {c}]
        BY <1>7, <1>8, <2>2
      <3>3. (s \ {c}) \ {x} = (s \ {x}) \ {c}
        OBVIOUS
      <3>4. f[x] \in Nat /\ f[c] \in Nat /\ i[s \ {x}] \in Nat /\ i[s \ {c}] \in Nat
        BY <1>5, <1>7, <1>8
      <3>5. i[(s \ {x}) \ {c}] \in Nat
        <4>1. (s \ {x}) \ {c} = (s \ {c}) \ {x}
          OBVIOUS
        <4>2. IsFiniteSet(s \ {c}) /\ x \in s \ {c}
          BY <1>5, <1>8, <2>2, OneLess
        <4>3. /\ Cardinality((s \ {c}) \ {x}) = Cardinality(s) - 2
              /\ Cardinality(s) \in Nat
          <5>1. /\ Cardinality((s \ {c}) \ {x}) = Cardinality(s \ {c}) - 1
                /\ Cardinality(s \ {c}) = Cardinality(s) - 1
                /\ Cardinality(s) \in Nat
            BY <1>5, <1>8, <4>2, OneLess
          <5> QED
            BY <5>1
        <4>4. (s \ {c}) \ {x} \notin Bad
          <5> HIDE DEF Bad, c
          <5> QED
            BY <1>4, <4>3
        <4>5. (s \ {c}) \ {x} \in SUBSET S
          BY <1>5
        <4> QED
          BY <4>1, <4>4, <4>5
      <3>6. i[(s \ {c}) \ {x}] = i[(s \ {x}) \ {c}]
        BY <3>3
      <3> HIDE DEF c, Good
      <3> QED
        BY <1>8, <3>1, <3>2, <3>4, <3>5, <3>6
    <2> QED
      BY <2>1, <2>2
  <1>10. Good(s)
    BY <1>8, <1>9
  <1> QED
    BY <1>5, <1>10

-----------------------------------------------------------------------------
(* What the sum is                                                         *)

LEMMA SumEmpty == ASSUME NEW f PROVE SumFunctionOnSet(f, {}) = 0
  <1>1. PICK it : Sums(it, f, {}) /\ SumFunctionOnSet(f, {}) = it[{}]
    BY SumUnfolds, FS_EmptySet
  <1> QED
    BY <1>1 DEF Sums, Unfolds

LEMMA SumType ==
  ASSUME NEW f, NEW S, IsFiniteSet(S), \A x \in S : f[x] \in Nat
  PROVE  SumFunctionOnSet(f, S) \in Nat
  <1>1. PICK it : Sums(it, f, S) /\ SumFunctionOnSet(f, S) = it[S]
    BY SumUnfolds
  <1>2. S \in SUBSET S
    OBVIOUS
  <1> QED
    BY <1>1, <1>2, UnfoldAnywhere

\* Only the numbers of the elements count.
LEMMA SumSame ==
  ASSUME NEW f, NEW g, NEW S, IsFiniteSet(S), \A x \in S : f[x] = g[x]
  PROVE  SumFunctionOnSet(f, S) = SumFunctionOnSet(g, S)
  <1>1. PICK i : Sums(i, f, S) /\ SumFunctionOnSet(f, S) = i[S]
    BY SumUnfolds
  <1>2. PICK j : Sums(j, g, S) /\ SumFunctionOnSet(g, S) = j[S]
    BY SumUnfolds
  <1>3. i[S] = j[S]
    <2>1. S \in SUBSET S
      OBVIOUS
    <2> QED
      BY <1>1, <1>2, <2>1, UnfoldingsAgree
  <1> QED
    BY <1>1, <1>2, <1>3

LEMMA SumRemove ==
  ASSUME NEW f, NEW S, IsFiniteSet(S), \A x \in S : f[x] \in Nat, NEW x \in S
  PROVE  SumFunctionOnSet(f, S) = f[x] + SumFunctionOnSet(f, S \ {x})
  <1>1. PICK i : Sums(i, f, S) /\ SumFunctionOnSet(f, S) = i[S]
    BY SumUnfolds
  <1>2. IsFiniteSet(S \ {x})
    BY OneLess
  <1>3. PICK j : /\ Sums(j, f, S \ {x})
                 /\ SumFunctionOnSet(f, S \ {x}) = j[S \ {x}]
    BY <1>2, SumUnfolds
  <1>4. i[S \ {x}] = j[S \ {x}]
    <2>1. S \ {x} \in SUBSET S
      OBVIOUS
    <2>2. \A y \in S \ {x} : f[y] = f[y]
      OBVIOUS
    <2> QED
      BY <1>1, <1>2, <1>3, <2>1, <2>2, UnfoldingsAgree
  <1>5. S \in SUBSET S
    OBVIOUS
  <1>6. i[S] = f[x] + i[S \ {x}]
    BY <1>1, <1>5, UnfoldAnywhere
  <1> QED
    BY <1>1, <1>3, <1>4, <1>6

\* A new element adds its number.
LEMMA SumAdd ==
  ASSUME NEW f, NEW S, IsFiniteSet(S), NEW x, x \notin S,
         \A y \in S \cup {x} : f[y] \in Nat
  PROVE  SumFunctionOnSet(f, S \cup {x}) = f[x] + SumFunctionOnSet(f, S)
  <1>1. IsFiniteSet(S \cup {x})
    BY FS_AddElement
  <1>2. (S \cup {x}) \ {x} = S
    OBVIOUS
  <1>3. x \in S \cup {x}
    OBVIOUS
  <1>4. SumFunctionOnSet(f, S \cup {x}) = f[x] + SumFunctionOnSet(f, (S \cup {x}) \ {x})
    BY <1>1, <1>3, SumRemove
  <1> QED
    BY <1>2, <1>4

\* A subset sums up to no more.
LEMMA SumSubset ==
  ASSUME NEW f, NEW S, IsFiniteSet(S), \A x \in S : f[x] \in Nat, NEW T, T \subseteq S
  PROVE  SumFunctionOnSet(f, T) <= SumFunctionOnSet(f, S)
  <1> DEFINE Bad == {R \in SUBSET S : T \subseteq R /\ ~(SumFunctionOnSet(f, T) <= SumFunctionOnSet(f, R))}
             Sizes == {Cardinality(R) : R \in Bad}
  <1>1. SUFFICES ASSUME S \in Bad PROVE FALSE
    OBVIOUS
  <1>2. \A R \in SUBSET S : /\ IsFiniteSet(R) /\ Cardinality(R) \in Nat
                            /\ SumFunctionOnSet(f, R) \in Nat
    BY FS_Subset, FS_CardinalityType, SumType
  <1>3. Sizes \subseteq Nat /\ Sizes # {}
    <2>1. Cardinality(S) \in Sizes
      BY <1>1
    <2> QED
      BY <1>2, <2>1
  <1>4. PICK R \in Bad : \A Q \in Bad : Cardinality(R) <= Cardinality(Q)
    <2>1. PICK m \in Sizes : \A n \in Sizes : m <= n
      <3> HIDE DEF Sizes
      <3> QED
        BY <1>3, NatHasMin
    <2> QED
      BY <2>1
  <1>5. R \in SUBSET S /\ T \subseteq R /\ T # R
    BY <1>2, <1>4
  <1>6. PICK x \in R : x \notin T
    BY <1>5
  <1>7. R \ {x} \notin Bad
    BY <1>2, <1>4, <1>5, OneLess
  <1>8. SumFunctionOnSet(f, T) <= SumFunctionOnSet(f, R \ {x})
    BY <1>5, <1>6, <1>7
  <1>9. SumFunctionOnSet(f, R) = f[x] + SumFunctionOnSet(f, R \ {x})
    BY <1>2, <1>5, SumRemove
  <1>10. f[x] \in Nat /\ SumFunctionOnSet(f, R \ {x}) \in Nat /\ SumFunctionOnSet(f, T) \in Nat
    BY <1>2, <1>5
  <1>11. SumFunctionOnSet(f, T) <= SumFunctionOnSet(f, R)
    BY <1>8, <1>9, <1>10
  <1> QED
    BY <1>4, <1>11
=============================================================================
