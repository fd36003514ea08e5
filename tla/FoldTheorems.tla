----------------------------- MODULE FoldTheorems -----------------------------
(***************************************************************************)
(* What the folds of the community modules compute.  A fold is a recursive *)
(* function on the subsets of a set, which takes one element after the     *)
(* other by a choice of its own: on a finite set there is such a function, *)
(* and it satisfies its equation.  Sums do not depend on the choice.       *)
(***************************************************************************)
EXTENDS Integers, Selection, SequenceTheorems, FiniteSetTheorems, WellFoundedInduction, TLAPS

\* What holds of no least number holds of none.
LEMMA LeastNumber ==
    ASSUME NEW S \in SUBSET Nat, S # {}
    PROVE  \E k \in S : \A j \in S : k <= j
<1> DEFINE R == {ss \in Nat \X Nat : ss[1] < ss[2]}
<1>1. IsWellFoundedOn(R, Nat)
  BY NatLessThanWellFounded DEF OpToRel
<1> HIDE DEF R
<1>2. PICK k \in S : \A j \in S : ~ (<<j, k>> \in R)
  BY <1>1, WFMin
<1>3. ASSUME NEW j \in S PROVE k <= j
  <2>1. ~ (<<j, k>> \in R) /\ j \in Nat /\ k \in Nat
    BY <1>2
  <2>2. ~ (j < k)
    BY <2>1 DEF R
  <2>3. QED
    BY <2>1, <2>2
<1>4. QED
  BY <1>3

\* Induction, with the sets of what is good in place of a predicate.
LEMMA NumberInduction ==
    ASSUME NEW Good, 0 \in Good, \A n \in Nat : n \in Good => n + 1 \in Good
    PROVE  Nat \subseteq Good
<1> DEFINE Bad == Nat \ Good
<1>1. ASSUME Bad # {} PROVE FALSE
  <2>1. PICK k \in Bad : \A j \in Bad : k <= j
    BY <1>1, LeastNumber
  <2>2. k \in Nat /\ k # 0
    OBVIOUS
  <2>3. k - 1 \in Nat /\ ~(k <= k - 1) /\ k = (k - 1) + 1
    BY <2>2
  <2>4. k - 1 \in Good
    BY <2>1, <2>3
  <2>5. QED
    BY <2>3, <2>4
<1>2. QED
  BY <1>1

LEMMA SubsetInduction ==
    ASSUME NEW S, IsFiniteSet(S), NEW Good, {} \in Good,
           \A T \in SUBSET S : T # {} /\ (\A x \in T : T \ {x} \in Good) => T \in Good
    PROVE  SUBSET S \subseteq Good
<1> DEFINE G == {n \in Nat : \A T \in SUBSET S : Cardinality(T) = n => T \in Good}
<1>1. \A T \in SUBSET S : IsFiniteSet(T) /\ Cardinality(T) \in Nat
  BY FS_Subset, FS_CardinalityType
<1>2. 0 \in G
  BY <1>1, FS_EmptySet
<1>3. ASSUME NEW n \in Nat, n \in G PROVE n + 1 \in G
  <2> SUFFICES ASSUME NEW T \in SUBSET S, Cardinality(T) = n + 1 PROVE T \in Good
    OBVIOUS
  <2>1. T # {}
    BY FS_EmptySet
  <2>2. ASSUME NEW x \in T PROVE T \ {x} \in Good
    <3>1. IsFiniteSet(T) /\ x \in T
      BY <1>1
    <3>2. Cardinality(T \ {x}) = Cardinality(T) - 1
      BY <3>1, FS_RemoveElement, Zenon
    <3>3. Cardinality(T \ {x}) = n
      BY <3>2
    <3>4. QED
      BY <1>3, <3>3
  <2>3. QED
    BY <2>1, <2>2
<1>4. Nat \subseteq G
  <2> HIDE DEF G
  <2>1. QED
    BY <1>2, <1>3, NumberInduction
<1>5. QED
  BY <1>1, <1>4

-----------------------------------------------------------------------------
(* A fold on the subsets of S: of nothing it is the base, of more what the *)
(* step makes of the fold of the rest.                                     *)

IsFold(g, S, base, pick, step) ==
    \A T \in SUBSET S :
        g[T] = IF T = {} THEN base ELSE step[T][g[T \ {pick[T]}]]

\* As far as the sets of so many elements.
IsFoldTo(k, g, S, base, pick, step) ==
    \A T \in SUBSET S : Cardinality(T) <= k =>
        g[T] = IF T = {} THEN base ELSE step[T][g[T \ {pick[T]}]]

LEMMA FoldExists ==
    ASSUME NEW S, IsFiniteSet(S), NEW V, NEW base \in V, NEW pick, NEW step,
           \A T \in SUBSET S : T # {} => pick[T] \in T,
           \A T \in SUBSET S : T # {} => \A v \in V : step[T][v] \in V
    PROVE  \E g \in [SUBSET S -> V] : IsFold(g, S, base, pick, step)
<1> DEFINE P(k) == \E g \in [SUBSET S -> V] : IsFoldTo(k, g, S, base, pick, step)
<1>1. \A T \in SUBSET S : IsFiniteSet(T) /\ Cardinality(T) \in Nat /\ Cardinality(T) <= Cardinality(S)
  BY FS_Subset, FS_CardinalityType
<1>2. \A T \in SUBSET S : T # {} =>
          /\ T \ {pick[T]} \in SUBSET S
          /\ Cardinality(T \ {pick[T]}) = Cardinality(T) - 1
          /\ Cardinality(T) # 0
  BY <1>1, FS_RemoveElement, FS_EmptySet
<1>3. P(0)
  <2> DEFINE g == [T \in SUBSET S |-> base]
  <2>1. g \in [SUBSET S -> V]
    OBVIOUS
  <2>2. \A T \in SUBSET S : Cardinality(T) <= 0 => T = {}
    <3>1. \A T \in SUBSET S : Cardinality(T) <= 0 => Cardinality(T) = 0
      BY <1>1
    <3>2. QED
      BY <1>1, <3>1, FS_EmptySet
  <2>3. IsFoldTo(0, g, S, base, pick, step)
    BY <2>2 DEF IsFoldTo
  <2>4. QED
    BY <2>1, <2>3
<1>4. ASSUME NEW m \in Nat, P(m) PROVE P(m + 1)
  <2>1. PICK g \in [SUBSET S -> V] : IsFoldTo(m, g, S, base, pick, step)
    BY <1>4
  <2> DEFINE h == [T \in SUBSET S |-> IF Cardinality(T) <= m THEN g[T]
                                      ELSE step[T][g[T \ {pick[T]}]]]
  <2>2. \A T \in SUBSET S : ~(Cardinality(T) <= m) => T # {}
    BY <1>1, FS_EmptySet
  <2>3. h \in [SUBSET S -> V]
    BY <1>2, <2>2
  <2>4. ASSUME NEW T \in SUBSET S, Cardinality(T) <= m + 1
        PROVE  h[T] = IF T = {} THEN base ELSE step[T][h[T \ {pick[T]}]]
    <3>1. CASE T = {}
      <4>1. Cardinality(T) = 0
        BY <3>1, FS_EmptySet
      <4>2. Cardinality(T) <= m
        BY <4>1
      <4>3. g[T] = base
        BY <2>1, <3>1, <4>2 DEF IsFoldTo
      <4>4. QED
        BY <3>1, <4>2, <4>3
    <3>2. CASE T # {}
      <4>1. T \ {pick[T]} \in SUBSET S /\ Cardinality(T \ {pick[T]}) = Cardinality(T) - 1
        BY <1>2, <3>2
      <4>2. Cardinality(T) \in Nat
        BY <1>1
      <4>3. Cardinality(T \ {pick[T]}) <= m
        BY <2>4, <4>1, <4>2
      <4>4. h[T \ {pick[T]}] = g[T \ {pick[T]}]
        BY <4>1, <4>3
      <4>5. h[T] = step[T][g[T \ {pick[T]}]]
        BY <2>1, <3>2 DEF IsFoldTo
      <4>6. QED
        BY <3>2, <4>4, <4>5
    <3>3. QED
      BY <3>1, <3>2
  <2> HIDE DEF h
  <2>5. IsFoldTo(m + 1, h, S, base, pick, step)
    BY <2>4 DEF IsFoldTo
  <2>6. QED
    BY <2>3, <2>5
<1> HIDE DEF P
<1>5. \A k \in Nat : P(k)
  <2> DEFINE Good == {k \in Nat : P(k)}
  <2>1. 0 \in Good /\ \A n \in Nat : n \in Good => n + 1 \in Good
    BY <1>3, <1>4
  <2> HIDE DEF Good
  <2>2. Nat \subseteq Good
    BY <2>1, NumberInduction
  <2>3. QED
    BY <2>2 DEF Good
<1>6. PICK g \in [SUBSET S -> V] : IsFoldTo(Cardinality(S), g, S, base, pick, step)
  BY <1>1, <1>5 DEF P
<1>7. IsFold(g, S, base, pick, step)
  BY <1>1, <1>6 DEF IsFold, IsFoldTo
<1>8. QED
  BY <1>7

-----------------------------------------------------------------------------
(* Sums.  CHOOSE takes the elements in an order of its own, and the sum is *)
(* the same in every order.                                                *)

IsSum(g, f, S) ==
    \A T \in SUBSET S :
        g[T] = IF T = {} THEN 0
               ELSE f[CHOOSE x \in T : TRUE] + g[T \ {CHOOSE x \in T : TRUE}]

Total(f, S) == (CHOOSE g : g \in [SUBSET S -> Nat] /\ IsSum(g, f, S))[S]

LEMMA SumExists ==
    ASSUME NEW S, IsFiniteSet(S), NEW f, \A x \in S : f[x] \in Nat
    PROVE  \E g \in [SUBSET S -> Nat] : IsSum(g, f, S)
<1> DEFINE pick == [T \in SUBSET S |-> CHOOSE x \in T : TRUE]
           step == [T \in SUBSET S |-> [v \in Nat |-> f[pick[T]] + v]]
<1>1. \A T \in SUBSET S : T # {} => pick[T] \in T
  OBVIOUS
<1>2. \A T \in SUBSET S : \A v \in Nat : step[T][v] = f[pick[T]] + v
  OBVIOUS
<1>3. \A T \in SUBSET S : T # {} => \A v \in Nat : step[T][v] \in Nat
  <2> SUFFICES ASSUME NEW T \in SUBSET S, T # {}, NEW v \in Nat PROVE step[T][v] \in Nat
    OBVIOUS
  <2>1. f[pick[T]] \in Nat
    BY <1>1
  <2>2. QED
    BY <1>2, <2>1
<1>4. \A T \in SUBSET S : pick[T] = CHOOSE x \in T : TRUE
  OBVIOUS
<1> HIDE DEF pick, step
<1>5. PICK g \in [SUBSET S -> Nat] : IsFold(g, S, 0, pick, step)
  BY <1>1, <1>3, FoldExists
<1>6. ASSUME NEW T \in SUBSET S, T # {}
      PROVE  g[T] = f[pick[T]] + g[T \ {pick[T]}]
  <2>1. g[T] = step[T][g[T \ {pick[T]}]]
    BY <1>5, <1>6 DEF IsFold
  <2>2. g[T \ {pick[T]}] \in Nat
    BY <1>5
  <2>3. QED
    BY <1>2, <2>1, <2>2
<1>7. g[{}] = 0
  BY <1>5 DEF IsFold
<1>8. IsSum(g, f, S)
  BY <1>4, <1>6, <1>7 DEF IsSum
<1>9. QED
  BY <1>5, <1>8

\* Any element may be taken first.
AnyFirst(g, f, S) == \A T \in SUBSET S : \A x \in T : g[T] = f[x] + g[T \ {x}]

LEMMA SumInAnyOrder ==
    ASSUME NEW S, IsFiniteSet(S), NEW f, \A x \in S : f[x] \in Nat,
           NEW g \in [SUBSET S -> Nat], IsSum(g, f, S)
    PROVE  AnyFirst(g, f, S)
<1> SUFFICES \A T \in SUBSET S : \A x \in T : g[T] = f[x] + g[T \ {x}]
  BY DEF AnyFirst
<1> DEFINE Good == {T \in SUBSET S : \A x \in T : g[T] = f[x] + g[T \ {x}]}
<1>1. {} \in Good
  OBVIOUS
<1>2. ASSUME NEW T \in SUBSET S, T # {}, \A x \in T : T \ {x} \in Good
      PROVE  T \in Good
  <2> DEFINE y == CHOOSE x \in T : TRUE
  <2>1. y \in T /\ g[T] = f[y] + g[T \ {y}]
    BY <1>2 DEF IsSum
  <2> HIDE DEF y
  <2>2. ASSUME NEW x \in T PROVE g[T] = f[x] + g[T \ {x}]
    <3>1. CASE x = y
      BY <2>1, <3>1
    <3>2. CASE x # y
      <4> DEFINE rest == g[T \ {x, y}]
      <4>1. /\ T \ {x, y} = (T \ {y}) \ {x} /\ T \ {x, y} = (T \ {x}) \ {y}
            /\ T \ {x, y} \in SUBSET S
        OBVIOUS
      <4>2. g[T \ {y}] = f[x] + rest
        BY <1>2, <2>1, <3>2, <4>1
      <4>3. g[T \ {x}] = f[y] + rest
        BY <1>2, <2>1, <3>2, <4>1
      <4>4. f[x] \in Nat /\ f[y] \in Nat /\ rest \in Nat
        BY <2>1, <4>1
      <4> HIDE DEF rest
      <4>5. QED
        BY <2>1, <4>2, <4>3, <4>4
    <3>3. QED
      BY <3>1, <3>2
  <2>3. QED
    BY <2>2
<1>3. SUBSET S \subseteq Good
  <2> HIDE DEF Good
  <2>1. QED
    BY <1>1, <1>2, SubsetInduction
<1>4. QED
  BY <1>3

\* Sums of the same numbers are the same.
LEMMA SumIsOne ==
    ASSUME NEW S, IsFiniteSet(S), NEW f, NEW h, \A x \in S : f[x] = h[x],
           NEW U, NEW g, IsSum(g, f, S), NEW k, IsSum(k, h, U), S \subseteq U
    PROVE  \A T \in SUBSET S : g[T] = k[T]
<1> DEFINE Good == {T \in SUBSET S : g[T] = k[T]}
<1>1. {} \in Good
  BY DEF IsSum
<1>2. ASSUME NEW T \in SUBSET S, T # {}, \A x \in T : T \ {x} \in Good
      PROVE  T \in Good
  <2> DEFINE y == CHOOSE x \in T : TRUE
  <2>1. y \in T /\ T \in SUBSET U
    BY <1>2
  <2>2. g[T] = f[y] + g[T \ {y}] /\ k[T] = h[y] + k[T \ {y}]
    BY <1>2, <2>1 DEF IsSum
  <2> HIDE DEF y
  <2>3. QED
    BY <1>2, <2>1, <2>2
<1>3. SUBSET S \subseteq Good
  <2> HIDE DEF Good
  <2>1. QED
    BY <1>1, <1>2, SubsetInduction
<1>4. QED
  BY <1>3

LEMMA SumIsTotal ==
    ASSUME NEW S, IsFiniteSet(S), NEW f, \A x \in S : f[x] \in Nat,
           NEW k, IsSum(k, f, S)
    PROVE  k[S] = Total(f, S)
<1>1. PICK g \in [SUBSET S -> Nat] : IsSum(g, f, S) /\ Total(f, S) = g[S]
  BY SumExists DEF Total
<1>2. \A T \in SUBSET S : k[T] = g[T]
  BY <1>1, SumIsOne
<1>3. QED
  BY <1>1, <1>2

LEMMA TotalIsSum ==
    ASSUME NEW S, IsFiniteSet(S), NEW f, \A x \in S : f[x] \in Nat
    PROVE  \E g \in [SUBSET S -> Nat] : IsSum(g, f, S) /\ Total(f, S) = g[S]
  BY SumExists DEF Total

LEMMA TotalOfNothing ==
    ASSUME NEW f
    PROVE  Total(f, {}) = 0
<1>1. PICK g \in [SUBSET {} -> Nat] : IsSum(g, f, {}) /\ Total(f, {}) = g[{}]
  BY FS_EmptySet, TotalIsSum
<1>2. {} \in SUBSET {}
  OBVIOUS
<1>3. g[{}] = 0
  BY <1>1, <1>2, Zenon DEF IsSum
<1>4. QED
  BY <1>1, <1>3

LEMMA TotalType ==
    ASSUME NEW S, IsFiniteSet(S), NEW f, \A x \in S : f[x] \in Nat
    PROVE  Total(f, S) \in Nat
<1>1. PICK g \in [SUBSET S -> Nat] : IsSum(g, f, S) /\ Total(f, S) = g[S]
  BY TotalIsSum
<1>2. QED
  BY <1>1

LEMMA TotalEqual ==
    ASSUME NEW S, IsFiniteSet(S), NEW f, NEW h, \A x \in S : f[x] \in Nat /\ f[x] = h[x]
    PROVE  Total(f, S) = Total(h, S)
<1>1. PICK g \in [SUBSET S -> Nat] : IsSum(g, f, S) /\ Total(f, S) = g[S]
  BY TotalIsSum
<1>2. PICK k \in [SUBSET S -> Nat] : IsSum(k, h, S) /\ Total(h, S) = k[S]
  BY TotalIsSum
<1>3. \A T \in SUBSET S : g[T] = k[T]
  BY <1>1, <1>2, SumIsOne
<1>4. QED
  BY <1>1, <1>2, <1>3

\* One element less.
LEMMA TotalWithout ==
    ASSUME NEW S, IsFiniteSet(S), NEW f, \A x \in S : f[x] \in Nat, NEW x \in S
    PROVE  Total(f, S) = f[x] + Total(f, S \ {x})
<1>1. PICK g \in [SUBSET S -> Nat] : IsSum(g, f, S) /\ Total(f, S) = g[S]
  BY TotalIsSum
<1>2. g[S] = f[x] + g[S \ {x}]
  <2>1. AnyFirst(g, f, S)
    BY <1>1, SumInAnyOrder
  <2>2. QED
    BY <2>1 DEF AnyFirst
<1>3. IsFiniteSet(S \ {x}) /\ \A y \in S \ {x} : f[y] \in Nat
  BY FS_Subset
<1>4. PICK k \in [SUBSET (S \ {x}) -> Nat] :
          IsSum(k, f, S \ {x}) /\ Total(f, S \ {x}) = k[S \ {x}]
  BY <1>3, TotalIsSum
<1>5. \A T \in SUBSET (S \ {x}) : k[T] = g[T]
  <2>1. \A y \in S \ {x} : f[y] = f[y]
    OBVIOUS
  <2>2. QED
    BY <1>1, <1>3, <1>4, <2>1, SumIsOne
<1>6. QED
  BY <1>1, <1>2, <1>4, <1>5

\* One element more.
LEMMA TotalWith ==
    ASSUME NEW S, IsFiniteSet(S), NEW f, \A x \in S : f[x] \in Nat,
           NEW x, x \notin S, f[x] \in Nat
    PROVE  Total(f, S \cup {x}) = f[x] + Total(f, S)
<1> DEFINE U == S \cup {x}
<1>1. IsFiniteSet(U) /\ x \in U /\ \A y \in U : f[y] \in Nat
  BY FS_AddElement
<1>2. U \ {x} = S
  OBVIOUS
<1>3. Total(f, U) = f[x] + Total(f, U \ {x})
  BY <1>1, TotalWithout
<1>4. QED
  BY <1>2, <1>3

\* Two sets that share nothing.
LEMMA TotalOfUnion ==
    ASSUME NEW A, IsFiniteSet(A), NEW B, IsFiniteSet(B), A \cap B = {},
           NEW f, \A x \in A \cup B : f[x] \in Nat
    PROVE  Total(f, A \cup B) = Total(f, A) + Total(f, B)
<1> DEFINE Good == {T \in SUBSET B : Total(f, A \cup T) = Total(f, A) + Total(f, T)}
<1>1. Total(f, A) \in Nat /\ \A T \in SUBSET B : IsFiniteSet(T) /\ Total(f, T) \in Nat
  BY TotalType, FS_Subset
<1>2. {} \in Good
  <2>1. A \cup {} = A
    OBVIOUS
  <2>2. QED
    BY <1>1, <2>1, TotalOfNothing
<1>3. ASSUME NEW T \in SUBSET B, T # {}, \A x \in T : T \ {x} \in Good
      PROVE  T \in Good
  <2>1. PICK x \in T : TRUE
    BY <1>3
  <2> DEFINE R == T \ {x}
  <2>2. IsFiniteSet(T) /\ IsFiniteSet(A \cup R)
    BY <1>1, FS_Union
  <2>3. x \notin A \cup R /\ (A \cup R) \cup {x} = A \cup T /\ f[x] \in Nat
    OBVIOUS
  <2>4. Total(f, A \cup T) = f[x] + Total(f, A \cup R)
    <3>1. \A y \in A \cup R : f[y] \in Nat
      OBVIOUS
    <3>2. Total(f, (A \cup R) \cup {x}) = f[x] + Total(f, A \cup R)
      BY <2>2, <2>3, <3>1, TotalWith
    <3>3. QED
      BY <2>3, <3>2
  <2>5. Total(f, A \cup R) = Total(f, A) + Total(f, R)
    BY <1>3
  <2>6. Total(f, T) = f[x] + Total(f, R)
    BY <2>2, TotalWithout
  <2>7. Total(f, R) \in Nat
    BY <1>1
  <2> HIDE DEF R
  <2>8. QED
    BY <1>1, <2>3, <2>4, <2>5, <2>6, <2>7
<1>4. SUBSET B \subseteq Good
  <2> HIDE DEF Good
  <2>1. QED
    BY <1>2, <1>3, SubsetInduction
<1>5. QED
  BY <1>4

LEMMA TotalOfZeros ==
    ASSUME NEW S, IsFiniteSet(S), NEW f, \A x \in S : f[x] = 0
    PROVE  Total(f, S) = 0
<1> DEFINE Good == {T \in SUBSET S : Total(f, T) = 0}
<1>1. {} \in Good
  BY TotalOfNothing
<1>2. ASSUME NEW T \in SUBSET S, T # {}, \A x \in T : T \ {x} \in Good
      PROVE  T \in Good
  <2>1. PICK x \in T : TRUE
    BY <1>2
  <2>2. IsFiniteSet(T) /\ \A y \in T : f[y] \in Nat
    BY FS_Subset
  <2>3. Total(f, T) = f[x] + Total(f, T \ {x})
    BY <2>2, TotalWithout
  <2>4. QED
    BY <1>2, <2>3
<1>3. SUBSET S \subseteq Good
  <2> HIDE DEF Good
  <2>1. QED
    BY <1>1, <1>2, SubsetInduction
<1>4. QED
  BY <1>3

\* The elements of a set under other names.
LEMMA TotalRenamed ==
    ASSUME NEW S, IsFiniteSet(S), NEW name, \A x, y \in S : name[x] = name[y] => x = y,
           NEW f, \A x \in S : f[name[x]] \in Nat
    PROVE  Total([x \in S |-> f[name[x]]], S) = Total(f, {name[x] : x \in S})
<1> DEFINE h == [x \in S |-> f[name[x]]]
           Named(T) == {name[x] : x \in T}
           Good == {T \in SUBSET S : IsFiniteSet(Named(T)) /\ Total(h, T) = Total(f, Named(T))}
<1>1. {} \in Good
  <2>1. Named({}) = {}
    OBVIOUS
  <2>2. QED
    BY <2>1, TotalOfNothing, FS_EmptySet
<1>2. ASSUME NEW T \in SUBSET S, T # {}, \A x \in T : T \ {x} \in Good
      PROVE  T \in Good
  <2>1. PICK x \in T : TRUE
    BY <1>2
  <2> DEFINE R == T \ {x}
  <2>2. /\ Named(T) = Named(R) \cup {name[x]} /\ name[x] \notin Named(R)
        /\ \A n \in Named(R) : f[n] \in Nat
        /\ f[name[x]] \in Nat
    OBVIOUS
  <2>3. IsFiniteSet(T) /\ (\A y \in T : h[y] \in Nat) /\ h[x] = f[name[x]]
    BY FS_Subset
  <2>4. IsFiniteSet(Named(R)) /\ Total(h, R) = Total(f, Named(R))
    BY <1>2
  <2>5. Total(h, T) = h[x] + Total(h, R)
    <3> HIDE DEF h
    <3>1. QED
      BY <2>3, TotalWithout
  <2> HIDE DEF h, Named, R
  <2>6. Total(f, Named(T)) = f[name[x]] + Total(f, Named(R)) /\ IsFiniteSet(Named(T))
    BY <2>2, <2>4, TotalWith, FS_AddElement
  <2>7. QED
    BY <2>3, <2>4, <2>5, <2>6
<1>3. SUBSET S \subseteq Good
  <2> HIDE DEF Good
  <2>1. QED
    BY <1>1, <1>2, SubsetInduction
<1>4. QED
  BY <1>3

\* A set counted in parts: what belongs to each k in K.
LEMMA TotalByParts ==
    ASSUME NEW S, IsFiniteSet(S), NEW K, IsFiniteSet(K), NEW f, \A x \in S : f[x] \in Nat,
           NEW of, \A x \in S : of[x] \in K
    PROVE  Total(f, S) = Total([k \in K |-> Total(f, {x \in S : of[x] = k})], K)
<1> DEFINE Part(k) == {x \in S : of[x] = k}
           parts == [k \in K |-> Total(f, Part(k))]
           Of(T) == {x \in S : of[x] \in T}
           Good == {T \in SUBSET K : Total(f, Of(T)) = Total(parts, T)}
<1>1. /\ \A T \in SUBSET K : IsFiniteSet(T) /\ IsFiniteSet(Of(T))
      /\ \A k \in K : IsFiniteSet(Part(k))
  BY FS_Subset
<1>2. \A k \in K : parts[k] \in Nat /\ parts[k] = Total(f, Part(k))
  BY <1>1, TotalType
<1>3. {} \in Good
  <2>1. Of({}) = {}
    OBVIOUS
  <2>2. QED
    BY <2>1, TotalOfNothing
<1>4. ASSUME NEW T \in SUBSET K, T # {}, \A k \in T : T \ {k} \in Good
      PROVE  T \in Good
  <2>1. PICK k \in T : TRUE
    BY <1>4
  <2> DEFINE R == T \ {k}
  <2>2. Of(T) = Of(R) \cup Part(k) /\ Of(R) \cap Part(k) = {}
    OBVIOUS
  <2>3. Total(f, Of(R)) = Total(parts, R)
    BY <1>4
  <2>4. \A x \in Of(R) \cup Part(k) : f[x] \in Nat
    OBVIOUS
  <2>5. IsFiniteSet(Of(R)) /\ IsFiniteSet(Part(k)) /\ IsFiniteSet(T) /\ \A j \in T : parts[j] \in Nat
    BY <1>1, <1>2
  <2>6. parts[k] = Total(f, Part(k))
    BY <1>2
  <2>7. Total(f, Of(R)) \in Nat /\ Total(f, Part(k)) \in Nat
    BY <2>4, <2>5, TotalType
  <2> HIDE DEF Part, Of, parts
  <2>8. Total(parts, T) = parts[k] + Total(parts, R)
    BY <2>5, TotalWithout
  <2> HIDE DEF R
  <2>9. Total(f, Of(T)) = Total(f, Of(R)) + Total(f, Part(k))
    BY <2>2, <2>4, <2>5, TotalOfUnion
  <2>10. QED
    BY <2>3, <2>6, <2>7, <2>8, <2>9
<1>5. SUBSET K \subseteq Good
  <2> HIDE DEF Good
  <2>1. QED
    BY <1>3, <1>4, SubsetInduction
<1>6. Of(K) = S
  OBVIOUS
<1>7. QED
  BY <1>5, <1>6

\* Adding up sums.
LEMMA TotalOfSums ==
    ASSUME NEW S, IsFiniteSet(S), NEW f, NEW h, \A x \in S : f[x] \in Nat /\ h[x] \in Nat,
           NEW e, \A x \in S : e[x] = f[x] + h[x]
    PROVE  Total(e, S) = Total(f, S) + Total(h, S)
<1> DEFINE Good == {T \in SUBSET S : Total(e, T) = Total(f, T) + Total(h, T)}
<1>1. {} \in Good
  BY TotalOfNothing
<1>2. ASSUME NEW T \in SUBSET S, T # {}, \A x \in T : T \ {x} \in Good
      PROVE  T \in Good
  <2>1. PICK x \in T : TRUE
    BY <1>2
  <2>2. IsFiniteSet(T) /\ IsFiniteSet(T \ {x}) /\ T \ {x} \in SUBSET S
    BY FS_Subset
  <2>3. /\ \A y \in T : f[y] \in Nat /\ h[y] \in Nat /\ e[y] \in Nat
        /\ e[x] = f[x] + h[x]
    OBVIOUS
  <2>4. /\ Total(e, T) = e[x] + Total(e, T \ {x})
        /\ Total(f, T) = f[x] + Total(f, T \ {x})
        /\ Total(h, T) = h[x] + Total(h, T \ {x})
    BY <2>2, <2>3, TotalWithout
  <2>5. Total(f, T \ {x}) \in Nat /\ Total(h, T \ {x}) \in Nat
    BY <2>2, <2>3, TotalType
  <2>6. Total(e, T \ {x}) = Total(f, T \ {x}) + Total(h, T \ {x})
    BY <1>2, <2>1
  <2>7. Total(e, T) = Total(f, T) + Total(h, T)
    <3> HIDE DEF Good
    <3>1. f[x] \in Nat /\ h[x] \in Nat
      BY <2>3
    <3>2. QED
      BY <2>3, <2>4, <2>5, <2>6, <3>1
  <2>8. QED
    BY <2>7
<1>3. SUBSET S \subseteq Good
  <2> HIDE DEF Good
  <2>1. QED
    BY <1>1, <1>2, SubsetInduction
<1>4. QED
  BY <1>3

-----------------------------------------------------------------------------
(* Folds of a sequence.  FoldLeft takes the greatest index first and       *)
(* FoldRight the least: each is a recursive function on the sets of        *)
(* indices, and such a function exists.                                    *)

LEMMA LeastOf ==
    ASSUME NEW S \in SUBSET Nat, S # {}
    PROVE  Min(S) \in S /\ \A k \in S : Min(S) <= k
<1>1. \E x \in S : \A y \in S : x <= y
  BY LeastNumber
<1>2. QED
  BY <1>1, Zenon DEF Min

LEMMA GreatestOf ==
    ASSUME NEW n \in Nat, NEW S \in SUBSET (1 .. n), S # {}
    PROVE  Max(S) \in S /\ \A k \in S : k <= Max(S)
<1> DEFINE R == {n - x : x \in S}
<1>0. \A x \in S : x \in Nat /\ n - x \in Nat
  OBVIOUS
<1>1. R \in SUBSET Nat /\ R # {}
  BY <1>0
<1>2. PICK k \in R : \A j \in R : k <= j
  <2> HIDE DEF R
  <2>1. QED
    BY <1>1, LeastNumber
<1>3. PICK x \in S : k = n - x
  OBVIOUS
<1>4. \A y \in S : n - y \in R
  OBVIOUS
<1>5. \A y \in S : x >= y
  <2> SUFFICES ASSUME NEW y \in S PROVE x >= y
    OBVIOUS
  <2>1. n - x <= n - y
    BY <1>2, <1>3, <1>4
  <2>2. x \in Nat /\ y \in Nat
    BY <1>0
  <2>3. QED
    BY <2>1, <2>2
<1>6. \E y \in S : \A z \in S : y >= z
  BY <1>5
<1>7. Max(S) \in S /\ \A y \in S : Max(S) >= y
  BY <1>6, Zenon DEF Max
<1>8. \A y \in S : y \in Int
  OBVIOUS
<1>9. QED
  BY <1>7, <1>8

LEMMA InitialIndices ==
    ASSUME NEW n \in Nat, NEW k \in 1 .. n
    PROVE  /\ 1 .. k \in SUBSET (1 .. n) /\ 1 .. k # {}
           /\ Max(1 .. k) = k /\ (1 .. k) \ {Max(1 .. k)} = 1 .. (k - 1)
<1>1. k \in Nat \ {0} /\ k \in 1 .. k
  OBVIOUS
<1>2. 1 .. k \in SUBSET (1 .. k) /\ 1 .. k # {}
  BY <1>1
<1>3. Max(1 .. k) \in 1 .. k /\ k <= Max(1 .. k)
  BY <1>1, <1>2, GreatestOf
<1>4. Max(1 .. k) = k
  BY <1>1, <1>3
<1>5. \A i \in 1 .. k : i \in 1 .. n
  OBVIOUS
<1>6. (1 .. k) \ {k} = 1 .. (k - 1)
  BY <1>1
<1>7. QED
  BY <1>2, <1>4, <1>5, <1>6

LEMMA InitialCount ==
    \A n \in Nat : IsFiniteSet(1 .. n) /\ Cardinality(1 .. n) = n
<1> SUFFICES ASSUME NEW n \in Nat PROVE IsFiniteSet(1 .. n) /\ Cardinality(1 .. n) = n
  OBVIOUS
<1>1. IsFiniteSet(1 .. n) /\ Cardinality(1 .. n) = IF 1 > n THEN 0 ELSE n - 1 + 1
  BY FS_Interval
<1>2. QED
  BY <1>1

\* g gives what folding the steps from base onwards makes of each set of indices.
IsLeftFold(g, n, base, step) ==
    \A T \in SUBSET (1 .. n) :
        g[T] = IF T = {} THEN base ELSE step[Max(T)][g[T \ {Max(T)}]]

LEMMA LeftFoldExists ==
    ASSUME NEW n \in Nat, NEW V, NEW base \in V, NEW step,
           \A k \in 1 .. n : \A v \in V : step[k][v] \in V
    PROVE  \E g \in [SUBSET (1 .. n) -> V] : IsLeftFold(g, n, base, step)
<1> DEFINE S == 1 .. n
           pick == [T \in SUBSET S |-> Max(T)]
           steps == [T \in SUBSET S |-> step[Max(T)]]
<1>1. IsFiniteSet(S)
  BY FS_Interval
<1>2. \A T \in SUBSET S : T # {} => Max(T) \in T
  BY GreatestOf
<1>3. \A T \in SUBSET S : pick[T] = Max(T) /\ steps[T] = step[Max(T)]
  OBVIOUS
<1>4. \A T \in SUBSET S : T # {} => pick[T] \in T /\ \A v \in V : steps[T][v] \in V
  BY <1>2, <1>3
<1> HIDE DEF pick, steps, S
<1>5. PICK g \in [SUBSET S -> V] : IsFold(g, S, base, pick, steps)
  BY <1>1, <1>4, FoldExists
<1>6. \A T \in SUBSET S : g[T] = IF T = {} THEN base ELSE step[Max(T)][g[T \ {Max(T)}]]
  BY <1>3, <1>5 DEF IsFold
<1>7. QED
  BY <1>5, <1>6 DEF S, IsLeftFold

\* What holds of 0, and of each number up to n if it holds of the one before.
LEMMA IndexInduction ==
    ASSUME NEW n \in Nat, NEW Good, 0 \in Good,
           \A k \in 1 .. n : k - 1 \in Good => k \in Good
    PROVE  \A k \in 0 .. n : k \in Good
<1> DEFINE Bad == (0 .. n) \ Good
<1> SUFFICES ASSUME Bad # {} PROVE FALSE
  OBVIOUS
<1>1. Bad \in SUBSET Nat
  OBVIOUS
<1>2. PICK k \in Bad : \A j \in Bad : k <= j
  <2> HIDE DEF Bad
  <2>1. QED
    BY <1>1, LeastNumber
<1>3. k \in 1 .. n
  OBVIOUS
<1>4. k - 1 \notin Bad
  <2>1. ~(k <= k - 1)
    BY <1>3
  <2>2. QED
    BY <1>2, <2>1
<1>5. k - 1 \in Good
  BY <1>3, <1>4
<1>6. QED
  BY <1>3, <1>5

\* What holds at the beginning of a run and is kept by its steps holds all along.
LEMMA RunInduction ==
    ASSUME NEW n \in Nat, NEW run, NEW Good, run[0] \in Good,
           \A k \in 1 .. n : run[k - 1] \in Good => run[k] \in Good
    PROVE  \A k \in 0 .. n : run[k] \in Good
<1> DEFINE Fine == {k \in 0 .. n : run[k] \in Good}
<1>1. 0 \in Fine
  OBVIOUS
<1>2. \A k \in 1 .. n : k - 1 \in Fine => k \in Fine
  OBVIOUS
<1> HIDE DEF Fine
<1>3. \A k \in 0 .. n : k \in Fine
  BY <1>1, <1>2, IndexInduction
<1>4. QED
  BY <1>3 DEF Fine

-----------------------------------------------------------------------------
(* The elements of a sequence that are in a set.                           *)

Sifted(out, x, S) == IF x \in S THEN Append(out, x) ELSE out

LEMMA SelectedRuns ==
    ASSUME NEW X, NEW s \in Seq(X), NEW S
    PROVE  \E run : /\ run[0] = << >>
                    /\ \A k \in 1 .. Len(s) : run[k] = Sifted(run[k - 1], s[k], S)
                    /\ Selected(s, S) = run[Len(s)]
<1> DEFINE V == Seq(X)
           n == Len(s)
           base == << >>
           step == [k \in 1 .. n |-> [v \in V |-> Sifted(v, s[k], S)]]
           F(f) == [T \in SUBSET (1 .. n) |->
                       IF T = {} THEN base
                       ELSE IF s[Max(T)] \in S THEN Append(f[T \ {Max(T)}], s[Max(T)])
                                               ELSE f[T \ {Max(T)}]]
<1>1. n \in Nat /\ DOMAIN s = 1 .. n /\ base \in V
  OBVIOUS
<1>2. \A k \in 1 .. n : \A v \in V : step[k][v] = Sifted(v, s[k], S) /\ step[k][v] \in V
  <2>1. \A k \in 1 .. n : s[k] \in X
    OBVIOUS
  <2>2. \A k \in 1 .. n : \A v \in V : Sifted(v, s[k], S) \in V
    BY <2>1 DEF Sifted
  <2>3. QED
    BY <2>2
<1> HIDE DEF step, V, n, base
<1>3. PICK g \in [SUBSET (1 .. n) -> V] : IsLeftFold(g, n, base, step)
  BY <1>1, <1>2, LeftFoldExists
<1>4. \A T \in SUBSET (1 .. n) : T # {} => Max(T) \in 1 .. n /\ g[T \ {Max(T)}] \in V
  <2>1. \A T \in SUBSET (1 .. n) : T # {} => Max(T) \in T
    BY <1>1, GreatestOf
  <2>2. QED
    BY <2>1
<1>5. \A T \in SUBSET (1 .. n) :
          g[T] = IF T = {} THEN base ELSE Sifted(g[T \ {Max(T)}], s[Max(T)], S)
  BY <1>2, <1>3, <1>4 DEF IsLeftFold
<1>6. g = F(g)
  BY <1>5, Zenon DEF Sifted
<1>7. PICK p : p = CHOOSE f : f = F(f)
  OBVIOUS
<1>8. p = F(p)
  <2> HIDE DEF F
  <2>1. \E f : f = F(f)
    BY <1>6
  <2>2. QED
    BY <1>7, <2>1, Zenon
<1>9. Selected(s, S) = p[1 .. n]
  BY <1>1, <1>7 DEF Selected, FoldLeft, MapThenFoldSet, base
<1>10. p[{}] = base
  BY <1>8
<1>11. \A k \in 1 .. n : p[1 .. k] = Sifted(p[1 .. (k - 1)], s[k], S)
  <2> SUFFICES ASSUME NEW k \in 1 .. n PROVE p[1 .. k] = Sifted(p[1 .. (k - 1)], s[k], S)
    OBVIOUS
  <2>1. /\ 1 .. k \in SUBSET (1 .. n) /\ 1 .. k # {}
        /\ Max(1 .. k) = k /\ (1 .. k) \ {Max(1 .. k)} = 1 .. (k - 1)
    BY <1>1, InitialIndices
  <2>2. p[1 .. k] = Sifted(p[(1 .. k) \ {Max(1 .. k)}], s[Max(1 .. k)], S)
    BY <1>8, <2>1, Zenon DEF Sifted
  <2>3. QED
    BY <2>1, <2>2
<1> DEFINE run == [k \in 0 .. n |-> p[1 .. k]]
<1>12. /\ run[0] = base /\ run[n] = p[1 .. n]
       /\ \A k \in 1 .. n : run[k] = Sifted(run[k - 1], s[k], S)
  <2>1. 1 .. 0 = {} /\ 0 \in 0 .. n /\ n \in 0 .. n
    BY <1>1
  <2>2. \A k \in 1 .. n : k \in 0 .. n /\ k - 1 \in 0 .. n
    BY <1>1
  <2>3. QED
    BY <1>10, <1>11, <2>1, <2>2
<1>13. QED
  BY <1>9, <1>12 DEF n, base

\* out has, in their order, those of the first n elements of s that are in S: h says
\* where each comes from.
IsSelection(out, h, s, n, S) ==
    /\ h \in [DOMAIN out -> 1 .. n]
    /\ \A k \in DOMAIN out : out[k] = s[h[k]] /\ out[k] \in S
    /\ \A j, k \in DOMAIN out : j < k => h[j] < h[k]
    /\ \A i \in 1 .. n : s[i] \in S => \E k \in DOMAIN out : h[k] = i

LEMMA SelectionExists ==
    ASSUME NEW X, NEW s \in Seq(X), NEW S
    PROVE  Selected(s, S) \in Seq(X) /\ \E h : IsSelection(Selected(s, S), h, s, Len(s), S)
<1>1. PICK run : /\ run[0] = << >>
                 /\ \A k \in 1 .. Len(s) : run[k] = Sifted(run[k - 1], s[k], S)
                 /\ Selected(s, S) = run[Len(s)]
  BY SelectedRuns
<1> DEFINE Good == {k \in 0 .. Len(s) :
                       run[k] \in Seq(X) /\ \E h : IsSelection(run[k], h, s, k, S)}
<1>2. 0 \in Good
  <2>1. IsSelection(<< >>, << >>, s, 0, S)
    BY DEF IsSelection
  <2>2. 0 \in 0 .. Len(s) /\ << >> \in Seq(X) /\ run[0] = << >>
    BY <1>1
  <2>3. \E h : IsSelection(run[0], h, s, 0, S)
    BY <2>1, <2>2
  <2>4. QED
    BY <2>2, <2>3
<1>3. ASSUME NEW k \in 1 .. Len(s), k - 1 \in Good PROVE k \in Good
  <2>1. run[k - 1] \in Seq(X) /\ run[k] = Sifted(run[k - 1], s[k], S) /\ s[k] \in X
    BY <1>1, <1>3
  <2>2. PICK out \in Seq(X) : out = run[k - 1]
    BY <2>1
  <2>3. PICK h : IsSelection(out, h, s, k - 1, S)
    BY <1>3, <2>2
  <2>4. PICK m \in Nat : m = Len(out) /\ DOMAIN out = 1 .. m
    OBVIOUS
  <2>5. CASE s[k] \notin S
    <3>1. IsSelection(out, h, s, k, S)
      BY <2>3, <2>5 DEF IsSelection
    <3>2. QED
      BY <2>1, <2>2, <2>5, <3>1 DEF Sifted
  <2>6. CASE s[k] \in S
    <3> DEFINE new == Append(out, s[k])
               g == [j \in 1 .. m + 1 |-> IF j = m + 1 THEN k ELSE h[j]]
    <3>11. k \in 1 .. k /\ \A j \in 1 .. k - 1 : j \in 1 .. k /\ j < k
      OBVIOUS
    <3>1. /\ new \in Seq(X) /\ DOMAIN new = 1 .. m + 1 /\ new[m + 1] = s[k]
          /\ \A j \in 1 .. m : new[j] = out[j]
      BY <2>1, <2>4
    <3>2. /\ g[m + 1] = k /\ m + 1 \in 1 .. m + 1
          /\ \A j \in 1 .. m : /\ j \in 1 .. m + 1 /\ g[j] = h[j] /\ g[j] \in 1 .. k - 1
                               /\ g[j] \in 1 .. k /\ g[j] < k
      BY <2>3, <2>4, <3>11 DEF IsSelection
    <3>3. \A j \in 1 .. m + 1 : j = m + 1 \/ j \in 1 .. m
      OBVIOUS
    <3>4. g \in [DOMAIN new -> 1 .. k]
      <4>1. \A j \in 1 .. m + 1 : g[j] \in 1 .. k
        BY <3>2, <3>3, <3>11
      <4>2. QED
        BY <3>1, <4>1
    <3> HIDE DEF g, new
    <3>5. \A j \in DOMAIN new : new[j] = s[g[j]] /\ new[j] \in S
      BY <2>3, <2>4, <2>6, <3>1, <3>2, <3>3 DEF IsSelection
    <3>6. \A i, j \in DOMAIN new : i < j => g[i] < g[j]
      <4>1. \A i, j \in 1 .. m : i < j => g[i] < g[j]
        BY <2>3, <2>4, <3>2 DEF IsSelection
      <4>2. \A j \in 1 .. m + 1 : ~(m + 1 < j)
        OBVIOUS
      <4>3. QED
        BY <3>1, <3>2, <3>3, <4>1, <4>2
    <3>7. \A i \in 1 .. k : s[i] \in S => \E j \in DOMAIN new : g[j] = i
      <4>1. \A i \in 1 .. k : i = k \/ i \in 1 .. k - 1
        OBVIOUS
      <4>2. \A i \in 1 .. k - 1 : s[i] \in S => \E j \in 1 .. m : g[j] = i
        BY <2>3, <2>4, <3>2 DEF IsSelection
      <4>3. QED
        BY <3>1, <3>2, <4>1, <4>2
    <3>8. IsSelection(new, g, s, k, S)
      BY <3>4, <3>5, <3>6, <3>7 DEF IsSelection
    <3>9. run[k] = new
      BY <2>1, <2>2, <2>6 DEF Sifted, new
    <3>10. QED
      BY <3>1, <3>8, <3>9
  <2>7. QED
    BY <2>5, <2>6
<1> HIDE DEF Good
<1>4. Len(s) \in Nat /\ \A k \in 1 .. Len(s) : k - 1 \in Good => k \in Good
  BY <1>3
<1>5. \A k \in 0 .. Len(s) : k \in Good
  BY <1>2, <1>4, IndexInduction
<1>6. Len(s) \in Good
  BY <1>5
<1>7. QED
  BY <1>1, <1>6 DEF Good
================================================================================
