----------------------------- MODULE FoldFacts -----------------------------
(***************************************************************************)
(* Facts about the folds of the community modules, by which the models add *)
(* up alerts and run through lists of invoices.  A fold is defined by      *)
(* recursion over the parts of a finite set, as a function that is CHOSEN  *)
(* among the solutions of its equation: first that there is a solution,    *)
(* then what it is, by induction on the number of elements.  Induction is  *)
(* said of a set of numbers here, for no prover instantiates an operator.  *)
(***************************************************************************)
EXTENDS FiniteSetsExt, SequencesExt, FiniteSetTheorems, TLAPS

-----------------------------------------------------------------------------
(* Induction, and the recursion of a fold.                                 *)

\* A set of natural numbers that is not empty has a least element.
LEMMA LeastElement ==
    ASSUME NEW B \in SUBSET Nat, B # {}
    PROVE  \E n \in B : \A m \in B : n <= m
<1> DEFINE R == {ss \in Nat \X Nat : ss[1] < ss[2]}
<1>1. IsWellFoundedOn(R, Nat)
  BY NatLessThanWellFounded DEF OpToRel
<1> HIDE DEF R
<1>2. PICK n \in B : \A m \in B : ~(<<m, n>> \in R)
  BY <1>1, WFMin
<1>3. ASSUME NEW m \in B  PROVE n <= m
  <2>1. ~(<<m, n>> \in R)
    BY <1>2
  <2>2. ~(m < n)
    BY <2>1 DEF R
  <2> QED  BY <2>2
<1> QED  BY <1>3

\* Induction over the natural numbers, said of the set for which it holds.
LEMMA Inductive ==
    ASSUME NEW B \in SUBSET Nat, 0 \in B, \A n \in B : n + 1 \in B
    PROVE  B = Nat
<1>1. SUFFICES ASSUME B # Nat PROVE FALSE
  OBVIOUS
<1>2. PICK n \in Nat \ B : \A m \in Nat \ B : n <= m
  BY <1>1, LeastElement
<1>3. n # 0 /\ n - 1 \in Nat /\ n - 1 \in B
  BY <1>2
<1> QED  BY <1>2, <1>3

\* A set that loses an element has one element less.
LEMMA CardinalityRemove ==
    ASSUME NEW s, IsFiniteSet(s), NEW x \in s, NEW n \in Nat, Cardinality(s) = n + 1
    PROVE  Cardinality(s \ {x}) = n
<1>1. Cardinality(s \ {x}) = Cardinality(s) - 1
  BY FS_RemoveElement
<1> QED  BY <1>1

\* The fold of base with G over every part of S, taking elements as c does.
Picks(c, S) == \A s \in SUBSET S : s # {} => c[s] \in s
IsFold(g, S, base, G, c) ==
    \A s \in SUBSET S : g[s] = IF s = {} THEN base ELSE G[<<c[s], g[s \ {c[s]}]>>]

\* A fold is defined: the recursion that takes the element c[s] from a
\* finite set s until none is left, and combines it with G, has a solution.
LEMMA FoldExists ==
    ASSUME NEW S, IsFiniteSet(S), NEW V, NEW base \in V, NEW G \in [S \X V -> V],
           NEW c, Picks(c, S)
    PROVE  \E g \in [SUBSET S -> V] : IsFold(g, S, base, G, c)
<1> DEFINE Small(n) == {s \in SUBSET S : Cardinality(s) <= n}
           Solves(g, n) == \A s \in Small(n) :
               g[s] = IF s = {} THEN base ELSE G[<<c[s], g[s \ {c[s]}]>>]
           B == {n \in Nat : \E g \in [Small(n) -> V] : Solves(g, n)}
<1>0. \A s \in SUBSET S : IsFiniteSet(s) /\ Cardinality(s) \in Nat
  BY FS_Subset, FS_CardinalityType
<1>1. 0 \in B
  <2> DEFINE g == [s \in Small(0) |-> base]
  <2>1. \A s \in Small(0) : s = {}
    BY <1>0, FS_EmptySet
  <2>2. g \in [Small(0) -> V] /\ Solves(g, 0)
    BY <2>1
  <2> HIDE DEF g, Small
  <2> QED  BY <2>2
<1>2. ASSUME NEW n \in B  PROVE n + 1 \in B
  <2>1. PICK g \in [Small(n) -> V] : Solves(g, n)
    OBVIOUS
  <2> DEFINE h == [s \in Small(n + 1) |-> IF s = {} THEN base ELSE G[<<c[s], g[s \ {c[s]}]>>]]
  <2>2. Small(n) \subseteq Small(n + 1)
    BY <1>0
  <2>3. \A s \in Small(n + 1) : s # {} => c[s] \in S /\ s \ {c[s]} \in Small(n)
    <3>1. ASSUME NEW s \in Small(n + 1), s # {}  PROVE s \ {c[s]} \in Small(n)
      <4>1. c[s] \in s /\ Cardinality(s) \in Nat /\ Cardinality(s) <= n + 1 /\ IsFiniteSet(s)
        BY <1>0, <3>1 DEF Picks
      <4>2. ASSUME NEW x \in s  PROVE Cardinality(s \ {x}) = Cardinality(s) - 1
        BY <4>1, FS_RemoveElement
      <4> QED  BY <4>1, <4>2
    <3> QED  BY <3>1 DEF Picks
  <2> HIDE DEF Small
  <2>4. h \in [Small(n + 1) -> V]
    BY <2>3
  <2>5. \A s \in Small(n) : h[s] = g[s]
    BY <2>1, <2>2
  <2>6. \A s \in Small(n + 1) : s # {} => h[s \ {c[s]}] = g[s \ {c[s]}]
    BY <2>3, <2>5
  <2>7. \A s \in Small(n + 1) :
           h[s] = IF s = {} THEN base ELSE G[<<c[s], g[s \ {c[s]}]>>]
    OBVIOUS
  <2> HIDE DEF h
  <2>8. Solves(h, n + 1)
    BY <2>6, <2>7
  <2> HIDE DEF Solves
  <2> QED  BY <2>4, <2>8
<1>3. B = Nat
  <2>1. B \in SUBSET Nat
    OBVIOUS
  <2> HIDE DEF B
  <2> QED  BY <1>1, <1>2, <2>1, Inductive
<1>4. Cardinality(S) \in B
  BY <1>0, <1>3
<1>5. Small(Cardinality(S)) = SUBSET S
  BY <1>0, FS_Subset
<1> HIDE DEF Small
<1> QED  BY <1>4, <1>5 DEF IsFold

-----------------------------------------------------------------------------
(* Sums.                                                                   *)

\* The sum of f over a finite set.
SumOver(f, S) == MapThenSumSet(LAMBDA x : f[x], S)

\* g is the sum of f over every part of S.
Sums(f, S, g) ==
    g = [s \in SUBSET S |->
           IF s = {} THEN 0
           ELSE f[CHOOSE x \in s : TRUE] + g[s \ {CHOOSE x \in s : TRUE}]]

\* There is one.
LEMMA SumsExists ==
    ASSUME NEW f, NEW S, IsFiniteSet(S), \A x \in S : f[x] \in Int
    PROVE  \E g : Sums(f, S, g)
<1> DEFINE c == [s \in SUBSET S |-> CHOOSE x \in s : TRUE]
           G == [p \in S \X Int |-> f[p[1]] + p[2]]
<1>1. Picks(c, S)
  BY DEF Picks
<1>2. G \in [S \X Int -> Int]
  OBVIOUS
<1>3. \A x \in S, n \in Int : G[<<x, n>>] = f[x] + n
  OBVIOUS
<1>4. \A s \in SUBSET S : c[s] = CHOOSE x \in s : TRUE
  OBVIOUS
<1> HIDE DEF c, G
<1>5. PICK g \in [SUBSET S -> Int] : IsFold(g, S, 0, G, c)
  <2>1. 0 \in Int
    OBVIOUS
  <2> QED  BY <1>1, <1>2, <2>1, FoldExists
<1>6. \A s \in SUBSET S : g[s] = IF s = {} THEN 0 ELSE f[c[s]] + g[s \ {c[s]}]
  <2>1. \A s \in SUBSET S : s # {} => c[s] \in S /\ g[s \ {c[s]}] \in Int
    BY <1>1 DEF Picks
  <2> QED  BY <1>3, <1>5, <2>1 DEF IsFold
<1>7. \A s \in SUBSET S : g[s] = IF s = {} THEN 0
           ELSE f[CHOOSE x \in s : TRUE] + g[s \ {CHOOSE x \in s : TRUE}]
  BY <1>4, <1>6
<1>8. Sums(f, S, g)
  BY <1>7 DEF Sums
<1> QED  BY <1>8

\* The sum over S is what such a g has there.
LEMMA SumOverSums ==
    ASSUME NEW f, NEW S, IsFiniteSet(S), \A x \in S : f[x] \in Int
    PROVE  \E g : Sums(f, S, g) /\ SumOver(f, S) = g[S]
<1> DEFINE g == CHOOSE h : Sums(f, S, h)
<1>1. SumOver(f, S) = g[S]
  BY DEF Sums, SumOver, MapThenSumSet, MapThenFoldSet
<1>2. Sums(f, S, g)
  BY SumsExists
<1> QED  BY <1>1, <1>2

\* It takes an element from every part that has one.
LEMMA SumsStep ==
    ASSUME NEW f, NEW S, NEW g, Sums(f, S, g)
    PROVE  /\ g[{}] = 0
           /\ \A s \in SUBSET S : s # {} =>
                \E x \in s : g[s] = f[x] + g[s \ {x}]
<1>1. \A s \in SUBSET S : g[s] = IF s = {} THEN 0
           ELSE f[CHOOSE x \in s : TRUE] + g[s \ {CHOOSE x \in s : TRUE}]
  BY DEF Sums
<1> QED  BY <1>1

\* A sum of integers is one.
LEMMA SumsInt ==
    ASSUME NEW f, NEW S, IsFiniteSet(S), NEW g, Sums(f, S, g), \A x \in S : f[x] \in Int
    PROVE  \A s \in SUBSET S : g[s] \in Int
<1> DEFINE B == {n \in Nat : \A s \in SUBSET S : Cardinality(s) = n => g[s] \in Int}
<1>0. \A s \in SUBSET S : IsFiniteSet(s) /\ Cardinality(s) \in Nat
  BY FS_Subset, FS_CardinalityType
<1>1. 0 \in B
  <2>1. \A s \in SUBSET S : Cardinality(s) = 0 => s = {}
    BY <1>0, FS_EmptySet
  <2>2. g[{}] \in Int
    BY SumsStep
  <2> QED  BY <2>1, <2>2
<1>2. ASSUME NEW n \in B  PROVE n + 1 \in B
  <2>1. ASSUME NEW s \in SUBSET S, Cardinality(s) = n + 1  PROVE g[s] \in Int
    <3>1. s # {}
      <4>1. Cardinality(s) # 0
        BY <2>1
      <4> QED  BY <4>1, FS_EmptySet
    <3>2. PICK x \in s : g[s] = f[x] + g[s \ {x}]
      BY <3>1, SumsStep
    <3>3. s \ {x} \in SUBSET S /\ Cardinality(s \ {x}) = n
      BY <1>0, <2>1, FS_RemoveElement
    <3> QED  BY <3>2, <3>3
  <2> QED  BY <2>1
<1>3. B = Nat
  <2>1. B \in SUBSET Nat
    OBVIOUS
  <2> HIDE DEF B
  <2> QED  BY <1>1, <1>2, <2>1, Inductive
<1> QED  BY <1>0, <1>3

\* A sum is the same whichever element is taken first.
LEMMA SumsRemove ==
    ASSUME NEW f, NEW S, IsFiniteSet(S), NEW g, Sums(f, S, g), \A x \in S : f[x] \in Int
    PROVE  \A s \in SUBSET S : \A x \in s : g[s] = f[x] + g[s \ {x}]
<1> DEFINE B == {n \in Nat : \A s \in SUBSET S : Cardinality(s) = n =>
                                \A x \in s : g[s] = f[x] + g[s \ {x}]}
<1>0. \A s \in SUBSET S : IsFiniteSet(s) /\ Cardinality(s) \in Nat
  BY FS_Subset, FS_CardinalityType
<1>1. 0 \in B
  BY <1>0, FS_EmptySet
<1>2. ASSUME NEW n \in B  PROVE n + 1 \in B
  <2>1. ASSUME NEW s \in SUBSET S, Cardinality(s) = n + 1, NEW x \in s
        PROVE  g[s] = f[x] + g[s \ {x}]
    <3>1. PICK c \in s : g[s] = f[c] + g[s \ {c}]
      BY SumsStep
    <3>2. CASE c = x
      BY <3>1, <3>2
    <3>3. CASE c # x
      <4>1. /\ s \ {x} \in SUBSET S /\ Cardinality(s \ {x}) = n
            /\ s \ {c} \in SUBSET S /\ Cardinality(s \ {c}) = n
        BY <1>0, <2>1, CardinalityRemove
      <4>2. g[s \ {c}] = f[x] + g[(s \ {c}) \ {x}]
        BY <3>3, <4>1
      <4>3. g[s \ {x}] = f[c] + g[(s \ {x}) \ {c}]
        BY <3>3, <4>1
      <4>4. (s \ {c}) \ {x} = (s \ {x}) \ {c}
        OBVIOUS
      <4>5. f[x] \in Int /\ f[c] \in Int /\ g[(s \ {x}) \ {c}] \in Int
        BY SumsInt
      <4>6. g[s] = f[c] + (f[x] + g[(s \ {x}) \ {c}])
        BY <3>1, <4>2, <4>4
      <4> HIDE DEF B
      <4> QED  BY <4>3, <4>5, <4>6
    <3> QED  BY <3>2, <3>3
  <2> QED  BY <2>1
<1>3. B = Nat
  <2>1. B \in SUBSET Nat
    OBVIOUS
  <2> HIDE DEF B
  <2> QED  BY <1>1, <1>2, <2>1, Inductive
<1> QED  BY <1>0, <1>3

\* Functions that agree on a set have the same sum over it.
LEMMA SumsSame ==
    ASSUME NEW f, NEW S, NEW g, Sums(f, S, g), NEW k, NEW T, NEW h, Sums(k, T, h),
           IsFiniteSet(S), IsFiniteSet(T), S \subseteq T,
           \A x \in S : f[x] = k[x] /\ f[x] \in Int, \A x \in T : k[x] \in Int
    PROVE  g[S] = h[S]
<1> DEFINE B == {n \in Nat : \A s \in SUBSET S : Cardinality(s) = n => g[s] = h[s]}
<1>0. \A s \in SUBSET S : IsFiniteSet(s) /\ Cardinality(s) \in Nat
  BY FS_Subset, FS_CardinalityType
<1>1. 0 \in B
  BY <1>0, FS_EmptySet, SumsStep
<1>2. ASSUME NEW n \in B  PROVE n + 1 \in B
  <2>1. ASSUME NEW s \in SUBSET S, Cardinality(s) = n + 1  PROVE g[s] = h[s]
    <3>1. s # {}
      <4>1. Cardinality(s) # 0
        BY <2>1
      <4> QED  BY <4>1, FS_EmptySet
    <3>2. PICK x \in s : g[s] = f[x] + g[s \ {x}]
      BY <3>1, SumsStep
    <3>3. h[s] = k[x] + h[s \ {x}]
      BY SumsRemove
    <3>4. s \ {x} \in SUBSET S /\ Cardinality(s \ {x}) = n
      BY <1>0, <2>1, CardinalityRemove
    <3> QED  BY <3>2, <3>3, <3>4
  <2> QED  BY <2>1
<1>3. B = Nat
  <2>1. B \in SUBSET Nat
    OBVIOUS
  <2> HIDE DEF B
  <2> QED  BY <1>1, <1>2, <2>1, Inductive
<1> QED  BY <1>0, <1>3

-----------------------------------------------------------------------------
(* The facts about sums that other modules cite.                           *)

\* A sum of integers is an integer.
LEMMA SumOverInt ==
    ASSUME NEW S, IsFiniteSet(S), NEW f, \A x \in S : f[x] \in Int
    PROVE  SumOver(f, S) \in Int
BY SumOverSums, SumsInt

\* The sum over no element is 0.
LEMMA SumOverNone ==
    ASSUME NEW f  PROVE SumOver(f, {}) = 0
BY SumOverSums, SumsStep, FS_EmptySet

\* The sum over a set is that of any of its elements and of the others.
LEMMA SumOverRemove ==
    ASSUME NEW S, IsFiniteSet(S), NEW f, \A x \in S : f[x] \in Int, NEW e \in S
    PROVE  SumOver(f, S) = f[e] + SumOver(f, S \ {e})
<1>1. PICK g : Sums(f, S, g) /\ SumOver(f, S) = g[S]
  BY SumOverSums
<1>2. IsFiniteSet(S \ {e})
  BY FS_RemoveElement
<1>3. PICK h : Sums(f, S \ {e}, h) /\ SumOver(f, S \ {e}) = h[S \ {e}]
  BY <1>2, SumOverSums
<1>4. h[S \ {e}] = g[S \ {e}]
  BY <1>1, <1>2, <1>3, SumsSame
<1>5. g[S] = f[e] + g[S \ {e}]
  BY <1>1, SumsRemove
<1> QED  BY <1>1, <1>3, <1>4, <1>5

\* ... and of a new element as well.
LEMMA SumOverAdd ==
    ASSUME NEW S, IsFiniteSet(S), NEW f, NEW e, e \notin S, \A x \in S \cup {e} : f[x] \in Int
    PROVE  SumOver(f, S \cup {e}) = f[e] + SumOver(f, S)
<1>1. IsFiniteSet(S \cup {e}) /\ (S \cup {e}) \ {e} = S
  BY FS_AddElement
<1> QED  BY <1>1, SumOverRemove

\* The sum depends on the values over the set alone.
LEMMA SumOverSame ==
    ASSUME NEW S, IsFiniteSet(S), NEW f, NEW k, \A x \in S : f[x] = k[x] /\ f[x] \in Int
    PROVE  SumOver(f, S) = SumOver(k, S)
BY SumOverSums, SumsSame

\* Values that are c times as large have a sum that is.
LEMMA SumOverAtLeast ==
    ASSUME NEW S, IsFiniteSet(S), NEW f, NEW k, NEW c \in Int,
           \A x \in S : f[x] \in Int /\ k[x] \in Int /\ f[x] >= c * k[x]
    PROVE  SumOver(f, S) >= c * SumOver(k, S)
<1> DEFINE B == {n \in Nat : \A s \in SUBSET S : Cardinality(s) = n =>
                                SumOver(f, s) >= c * SumOver(k, s)}
<1>0. \A s \in SUBSET S : IsFiniteSet(s) /\ Cardinality(s) \in Nat
  BY FS_Subset, FS_CardinalityType
<1>1. 0 \in B
  <2>1. ASSUME NEW s \in SUBSET S, Cardinality(s) = 0
        PROVE  SumOver(f, s) >= c * SumOver(k, s)
    <3>1. s = {}
      BY <1>0, <2>1, FS_EmptySet
    <3>2. SumOver(f, s) = 0 /\ SumOver(k, s) = 0
      BY <3>1, SumOverNone
    <3> QED  BY <3>2
  <2> QED  BY <2>1
<1>2. ASSUME NEW n \in B  PROVE n + 1 \in B
  <2>1. ASSUME NEW s \in SUBSET S, Cardinality(s) = n + 1
        PROVE  SumOver(f, s) >= c * SumOver(k, s)
    <3>1. s # {}
      <4>1. Cardinality(s) # 0
        BY <2>1
      <4> QED  BY <4>1, FS_EmptySet
    <3>2. PICK e \in s : TRUE
      BY <3>1
    <3>3. s \ {e} \in SUBSET S /\ Cardinality(s \ {e}) = n /\ IsFiniteSet(s)
      BY <1>0, <2>1, CardinalityRemove
    <3>4. SumOver(f, s) = f[e] + SumOver(f, s \ {e})
      BY <3>3, SumOverRemove
    <3>5. SumOver(k, s) = k[e] + SumOver(k, s \ {e})
      BY <3>3, SumOverRemove
    <3>6. SumOver(f, s \ {e}) \in Int /\ SumOver(k, s \ {e}) \in Int
      BY <1>0, <3>3, SumOverInt
    <3>7. SumOver(f, s \ {e}) >= c * SumOver(k, s \ {e})
      BY <3>3
    <3>8. f[e] \in Int /\ k[e] \in Int /\ f[e] >= c * k[e]
      OBVIOUS
    <3>9. \A v, w, x, y \in Int : v >= c * w /\ x >= c * y => v + x >= c * (w + y)
      OBVIOUS
    <3> HIDE DEF B
    <3> QED  BY <3>4, <3>5, <3>6, <3>7, <3>8, <3>9
  <2> QED  BY <2>1
<1>3. B = Nat
  <2>1. B \in SUBSET Nat
    OBVIOUS
  <2> HIDE DEF B
  <2> QED  BY <1>1, <1>2, <2>1, Inductive
<1>4. \A s \in SUBSET S : Cardinality(s) \in B
  BY <1>0, <1>3
<1> QED  BY <1>4

\* A sum of natural numbers is a natural number.
LEMMA SumOverNat ==
    ASSUME NEW S, IsFiniteSet(S), NEW f, \A x \in S : f[x] \in Nat
    PROVE  SumOver(f, S) \in Nat
<1>1. SumOver(f, S) >= 0 * SumOver(f, S)
  BY SumOverAtLeast
<1>2. SumOver(f, S) \in Int
  BY SumOverInt
<1> QED  BY <1>1, <1>2

\* ... and none of them is more than their sum.
LEMMA SumOverElement ==
    ASSUME NEW S, IsFiniteSet(S), NEW f, \A x \in S : f[x] \in Nat, NEW e \in S
    PROVE  f[e] <= SumOver(f, S)
<1>1. IsFiniteSet(S \ {e})
  BY FS_RemoveElement
<1>2. SumOver(f, S) = f[e] + SumOver(f, S \ {e})
  BY SumOverRemove
<1>3. SumOver(f, S \ {e}) \in Nat
  BY <1>1, SumOverNat
<1> QED  BY <1>2, <1>3

\* Elements that each have one of their own in T, no smaller, have a sum
\* that is no larger.
LEMMA SumOverInjection ==
    ASSUME NEW S, IsFiniteSet(S), NEW T, IsFiniteSet(T), NEW m \in Injection(S, T),
           NEW f, \A x \in S : f[x] \in Nat, NEW k, \A y \in T : k[y] \in Nat,
           \A x \in S : f[x] <= k[m[x]]
    PROVE  SumOver(f, S) <= SumOver(k, T)
<1> DEFINE Image(s) == {m[x] : x \in s}
           B == {n \in Nat : \A s \in SUBSET S, t \in SUBSET T :
                    Cardinality(s) = n /\ Image(s) \subseteq t => SumOver(f, s) <= SumOver(k, t)}
<1>0. /\ \A s \in SUBSET S : IsFiniteSet(s) /\ Cardinality(s) \in Nat
      /\ \A t \in SUBSET T : IsFiniteSet(t)
      /\ m \in [S -> T] /\ \A x, y \in S : m[x] = m[y] => x = y
  BY FS_Subset, FS_CardinalityType DEF Injection, IsInjective
<1>1. 0 \in B
  <2>1. ASSUME NEW s \in SUBSET S, NEW t \in SUBSET T, Cardinality(s) = 0
        PROVE  SumOver(f, s) <= SumOver(k, t)
    <3>1. s = {}
      BY <1>0, <2>1, FS_EmptySet
    <3>2. SumOver(k, t) \in Nat
      BY <1>0, SumOverNat
    <3>3. SumOver(f, s) = 0
      BY <3>1, SumOverNone
    <3> QED  BY <3>2, <3>3
  <2> QED  BY <2>1
<1>2. ASSUME NEW n \in B  PROVE n + 1 \in B
  <2>1. ASSUME NEW s \in SUBSET S, NEW t \in SUBSET T, Cardinality(s) = n + 1,
               Image(s) \subseteq t
        PROVE  SumOver(f, s) <= SumOver(k, t)
    <3>1. PICK x : x \in s
      BY <1>0, <2>1, FS_EmptySet
    <3>2. Cardinality(s \ {x}) = n
      BY <1>0, <2>1, <3>1, CardinalityRemove
    <3>3. m[x] \in t /\ Image(s \ {x}) \subseteq t \ {m[x]}
      BY <1>0, <2>1, <3>1
    <3>4. SumOver(f, s \ {x}) <= SumOver(k, t \ {m[x]})
      BY <3>2, <3>3
    <3>5. SumOver(f, s) = f[x] + SumOver(f, s \ {x})
      <4>1. \A y \in s : f[y] \in Int
        OBVIOUS
      <4> QED  BY <1>0, <3>1, <4>1, SumOverRemove
    <3>6. SumOver(k, t) = k[m[x]] + SumOver(k, t \ {m[x]})
      <4>1. \A y \in t : k[y] \in Int
        OBVIOUS
      <4> QED  BY <1>0, <3>3, <4>1, SumOverRemove
    <3>7. SumOver(f, s \ {x}) \in Nat /\ SumOver(k, t \ {m[x]}) \in Nat
      <4>1. IsFiniteSet(s \ {x}) /\ IsFiniteSet(t \ {m[x]})
        BY <1>0
      <4> QED  BY <4>1, SumOverNat
    <3>8. f[x] \in Nat /\ k[m[x]] \in Nat /\ f[x] <= k[m[x]]
      BY <1>0, <3>1
    <3> QED  BY <3>4, <3>5, <3>6, <3>7, <3>8
  <2> QED  BY <2>1
<1>3. B = Nat
  <2>1. B \in SUBSET Nat
    OBVIOUS
  <2> HIDE DEF B
  <2> QED  BY <1>1, <1>2, <2>1, Inductive
<1>4. Cardinality(S) \in B
  BY <1>0, <1>3
<1>5. Image(S) \subseteq T
  BY <1>0
<1> HIDE DEF Image
<1> QED  BY <1>4, <1>5

\* ... and a renaming of the elements leaves the sum alone.
LEMMA SumOverRenamed ==
    ASSUME NEW S, IsFiniteSet(S), NEW m, \A x, y \in S : m[x] = m[y] => x = y,
           NEW f, NEW k, \A x \in S : f[x] \in Int /\ f[x] = k[m[x]]
    PROVE  SumOver(f, S) = SumOver(k, {m[x] : x \in S})
<1> DEFINE Image(s) == {m[x] : x \in s}
           Same(s) == IsFiniteSet(Image(s)) /\ SumOver(f, s) = SumOver(k, Image(s))
           B == {n \in Nat : \A s \in SUBSET S : Cardinality(s) = n => Same(s)}
<1>0. \A s \in SUBSET S : IsFiniteSet(s) /\ Cardinality(s) \in Nat
  BY FS_Subset, FS_CardinalityType
<1>1. 0 \in B
  <2>1. ASSUME NEW s \in SUBSET S, Cardinality(s) = 0  PROVE Same(s)
    <3>1. s = {}
      BY <1>0, <2>1, FS_EmptySet
    <3>2. Image(s) = {}
      BY <3>1
    <3> QED  BY <3>1, <3>2, SumOverNone, FS_EmptySet
  <2> HIDE DEF Same
  <2> QED  BY <2>1
<1>2. ASSUME NEW n \in B  PROVE n + 1 \in B
  <2>1. ASSUME NEW s \in SUBSET S, Cardinality(s) = n + 1  PROVE Same(s)
    <3>1. PICK x : x \in s
      BY <1>0, <2>1, FS_EmptySet
    <3> DEFINE rest == s \ {x}
    <3>2. Cardinality(rest) = n
      BY <1>0, <2>1, <3>1, CardinalityRemove
    <3>3. Same(rest)
      <4> HIDE DEF Same
      <4> QED  BY <3>2
    <3>4. Image(s) = Image(rest) \cup {m[x]} /\ m[x] \notin Image(rest)
      BY <3>1
    <3>5. SumOver(f, s) = f[x] + SumOver(f, rest)
      <4>1. \A y \in s : f[y] \in Int
        OBVIOUS
      <4> QED  BY <1>0, <3>1, <4>1, SumOverRemove
    <3>6. \A y \in Image(rest) \cup {m[x]} : k[y] \in Int
      <4>1. ASSUME NEW y \in s  PROVE k[m[y]] \in Int
        OBVIOUS
      <4> QED  BY <3>1, <4>1
    <3>7. SumOver(k, Image(s)) = k[m[x]] + SumOver(k, Image(rest))
      <4> DEFINE part == Image(rest)
                 e == m[x]
      <4>1. IsFiniteSet(part) /\ e \notin part /\ \A y \in part \cup {e} : k[y] \in Int
        BY <3>3, <3>4, <3>6
      <4>2. Image(s) = part \cup {e}
        BY <3>4
      <4> HIDE DEF part, e, Image
      <4>3. SumOver(k, part \cup {e}) = k[e] + SumOver(k, part)
        BY <4>1, SumOverAdd
      <4> QED  BY <4>2, <4>3 DEF part, e
    <3>8. IsFiniteSet(Image(s))
      <4>1. IsFiniteSet(Image(rest) \cup {m[x]})
        BY <3>3, FS_AddElement
      <4> QED  BY <3>4, <4>1
    <3>9. f[x] = k[m[x]]
      BY <3>1
    <3> QED  BY <3>3, <3>5, <3>7, <3>8, <3>9
  <2> HIDE DEF Same
  <2> QED  BY <2>1
<1>3. B = Nat
  <2>1. B \in SUBSET Nat
    OBVIOUS
  <2> HIDE DEF B
  <2> QED  BY <1>1, <1>2, <2>1, Inductive
<1>4. Same(S)
  <2> HIDE DEF Same
  <2>1. Cardinality(S) \in B
    BY <1>0, <1>3
  <2> QED  BY <2>1
<1> QED  BY <1>4

\* The sum of a function is that over its domain.
LEMMA SumFunctionIs ==
    ASSUME NEW f  PROVE SumFunction(f) = SumOver(f, DOMAIN f)
BY DEF SumFunction, SumFunctionOnSet, FoldFunctionOnSet, SumOver, MapThenSumSet, MapThenFoldSet

-----------------------------------------------------------------------------
(* Folds from left to right.                                               *)

\* A finite set of integers that is not empty has a greatest element.
LEMMA MaxOfFinite ==
    ASSUME NEW S \in SUBSET Int, IsFiniteSet(S), S # {}
    PROVE  Max(S) \in S /\ \A y \in S : Max(S) >= y
<1> DEFINE Greatest(s) == \E x \in s : \A y \in s : x >= y
           B == {n \in Nat : \A s \in SUBSET S : Cardinality(s) = n + 1 => Greatest(s)}
<1>0. \A s \in SUBSET S : IsFiniteSet(s) /\ Cardinality(s) \in Nat
  BY FS_Subset, FS_CardinalityType
<1>1. 0 \in B
  <2>1. ASSUME NEW s \in SUBSET S, Cardinality(s) = 1  PROVE Greatest(s)
    <3>1. PICK x : s = {x}
      BY <1>0, <2>1, FS_Singleton
    <3>2. x \in Int
      BY <3>1
    <3> QED  BY <3>1, <3>2
  <2> HIDE DEF Greatest
  <2> QED  BY <2>1
<1>2. ASSUME NEW n \in B  PROVE n + 1 \in B
  <2>1. ASSUME NEW s \in SUBSET S, Cardinality(s) = (n + 1) + 1  PROVE Greatest(s)
    <3>1. PICK z : z \in s
      BY <1>0, <2>1, FS_EmptySet
    <3>2. Cardinality(s \ {z}) = n + 1
      BY <1>0, <2>1, <3>1, CardinalityRemove
    <3>3. PICK x \in s \ {z} : \A y \in s \ {z} : x >= y
      BY <3>2
    <3>4. CASE x >= z
      BY <3>3, <3>4
    <3>5. CASE ~(x >= z)
      <4>1. \A y \in s : z >= y
        BY <3>1, <3>3, <3>5
      <4> QED  BY <3>1, <4>1
    <3> QED  BY <3>4, <3>5
  <2> HIDE DEF Greatest
  <2> QED  BY <2>1
<1>3. B = Nat
  <2>1. B \in SUBSET Nat
    OBVIOUS
  <2> HIDE DEF B
  <2> QED  BY <1>1, <1>2, <2>1, Inductive
<1>4. PICK n \in Nat : Cardinality(S) = n + 1
  <2>1. Cardinality(S) \in Nat /\ Cardinality(S) # 0
    BY <1>0, FS_EmptySet
  <2>2. Cardinality(S) - 1 \in Nat /\ Cardinality(S) = (Cardinality(S) - 1) + 1
    BY <2>1
  <2> QED  BY <2>2
<1>5. Greatest(S)
  <2>1. n \in B
    BY <1>3
  <2> HIDE DEF Greatest
  <2> QED  BY <1>4, <2>1
<1> QED  BY <1>5 DEF Max

\* So has a part of 1 .. n.
LEMMA MaxOfPart ==
    ASSUME NEW n \in Nat, NEW s \in SUBSET (1 .. n), s # {}
    PROVE  Max(s) \in s /\ \A y \in s : Max(s) >= y
<1>1. IsFiniteSet(1 .. n)
  BY FS_Interval
<1>2. IsFiniteSet(s)
  BY <1>1, FS_Subset
<1>3. s \in SUBSET Int
  OBVIOUS
<1> QED  BY <1>2, <1>3, MaxOfFinite

\* What is last of a prefix, and what is before it.
LEMMA MaxOfPrefix ==
    ASSUME NEW k \in Nat, k # 0
    PROVE  Max(1 .. k) = k /\ (1 .. k) \ {k} = 1 .. (k - 1)
<1> DEFINE s == 1 .. k
<1>1. Max(s) \in s /\ \A y \in s : Max(s) >= y
  <2>1. s \in SUBSET (1 .. k) /\ s # {}
    OBVIOUS
  <2> HIDE DEF s
  <2> QED  BY <2>1, MaxOfPart
<1>2. k \in 1 .. k
  OBVIOUS
<1> QED  BY <1>1, <1>2

\* The fold of every part of the sequence q, of which the last element is
\* taken first.
IsFoldLeft(g, q, base, F) ==
    \A s \in SUBSET (DOMAIN q) :
        g[s] = IF s = {} THEN base ELSE F[<<g[s \ {Max(s)}], q[Max(s)]>>]

\* It is defined for a sequence of elements of I and a combination F of such
\* elements with the values in A.
LEMMA FoldLeftExists ==
    ASSUME NEW I, NEW q \in Seq(I), NEW A, NEW base \in A, NEW F \in [A \X I -> A]
    PROVE  \E g \in [SUBSET (DOMAIN q) -> A] : IsFoldLeft(g, q, base, F)
<1> DEFINE S == DOMAIN q
           c == [s \in SUBSET S |-> Max(s)]
           G == [p \in S \X A |-> F[<<p[2], q[p[1]]>>]]
<1>1. S = 1 .. Len(q) /\ Len(q) \in Nat /\ \A x \in S : q[x] \in I
  OBVIOUS
<1>2. IsFiniteSet(S)
  BY <1>1, FS_Interval
<1>3. \A s \in SUBSET S : s # {} => c[s] \in s /\ c[s] = Max(s)
  BY <1>1, MaxOfPart
<1>4. G \in [S \X A -> A] /\ \A x \in S, a \in A : G[<<x, a>>] = F[<<a, q[x]>>]
  BY <1>1
<1> HIDE DEF S, c, G
<1>5. Picks(c, S)
  BY <1>3 DEF Picks
<1>6. PICK g \in [SUBSET S -> A] : IsFold(g, S, base, G, c)
  BY <1>2, <1>4, <1>5, FoldExists
<1>7. \A s \in SUBSET S :
         g[s] = IF s = {} THEN base ELSE F[<<g[s \ {Max(s)}], q[Max(s)]>>]
  <2>1. ASSUME NEW s \in SUBSET S, s # {}
        PROVE  g[s] = F[<<g[s \ {Max(s)}], q[Max(s)]>>]
    <3>1. c[s] \in S /\ c[s] = Max(s) /\ g[s \ {c[s]}] \in A
      BY <1>3, <2>1
    <3>2. g[s] = G[<<c[s], g[s \ {c[s]}]>>]
      BY <1>6, <2>1 DEF IsFold
    <3> QED  BY <1>4, <3>1, <3>2
  <2>2. g[{}] = base
    BY <1>6 DEF IsFold
  <2> QED  BY <2>1, <2>2
<1> QED  BY <1>7 DEF S, IsFoldLeft

\* The parts of a sequence that are not empty have a last element, and the
\* prefixes are parts.
LEMMA PartsOfSequence ==
    ASSUME NEW I, NEW q \in Seq(I)
    PROVE  /\ DOMAIN q = 1 .. Len(q) /\ Len(q) \in Nat
           /\ \A s \in SUBSET (DOMAIN q) : s # {} => Max(s) \in DOMAIN q /\ q[Max(s)] \in I
           /\ 1 .. 0 = {}
           /\ \A k \in 0 .. Len(q) : 1 .. k \in SUBSET (DOMAIN q)
           /\ \A k \in 1 .. Len(q) : /\ 1 .. k # {} /\ Max(1 .. k) = k
                                     /\ (1 .. k) \ {k} = 1 .. (k - 1)
<1>1. DOMAIN q = 1 .. Len(q) /\ Len(q) \in Nat
  OBVIOUS
<1>2. ASSUME NEW s \in SUBSET (DOMAIN q), s # {}
      PROVE  Max(s) \in DOMAIN q /\ q[Max(s)] \in I
  <2>1. Max(s) \in s
    BY <1>1, <1>2, MaxOfPart
  <2> QED  BY <2>1
<1>3. 1 .. 0 = {} /\ \A k \in 0 .. Len(q) : 1 .. k \in SUBSET (DOMAIN q)
  OBVIOUS
<1>4. ASSUME NEW k \in 1 .. Len(q)
      PROVE  1 .. k # {} /\ Max(1 .. k) = k /\ (1 .. k) \ {k} = 1 .. (k - 1)
  <2>1. k \in Nat /\ k # 0 /\ k \in 1 .. k
    OBVIOUS
  <2> QED  BY <2>1, MaxOfPrefix
<1> QED  BY <1>1, <1>2, <1>3, <1>4
=============================================================================
