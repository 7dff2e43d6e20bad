------------------------------- MODULE Induction -------------------------------
(***************************************************************************)
(* Induction and recursion over naturals and finite sets, stated for sets  *)
(* and functions: the theorems of the library state it for operators,      *)
(* which the provers cannot instantiate.                                   *)
(***************************************************************************)
EXTENDS Integers, Functions, FiniteSetTheorems, WellFoundedInduction, TLAPS

-------------------------------------------------------------------------------
(* Induction along 0 .. n, from the order of finite sets.                    *)

(* A set of natural numbers has a least one.                                 *)
LEMMA Least ==
    ASSUME NEW T \in SUBSET Nat, T # {}
    PROVE  \E m \in T : \A k \in T : m <= k
<1>1. PICK n \in T : TRUE
  OBVIOUS
<1> DEFINE S == 0 .. n
           Ts == {0 .. k : k \in {j \in T : j <= n}}
<1>2. IsWellFoundedOn(StrictSubsetOrdering(S), SUBSET S)
  <2>1. IsFiniteSet(S)
    BY FS_Interval
  <2> HIDE DEF S
  <2> QED  BY <2>1, FS_StrictSubsetOrderingWellFounded, FS_FiniteSubsetsOfFinite
<1>3. Ts \subseteq SUBSET S /\ Ts # {}
  <2>1. 0 .. n \in Ts
    BY <1>1
  <2> QED  BY <2>1
<1>4. \E x \in Ts : \A y \in Ts : ~ (<<y, x>> \in StrictSubsetOrdering(S))
  <2> HIDE DEF Ts, S
  <2> QED  BY <1>2, <1>3, WFMin
<1>5. PICK m \in T : m <= n /\ \A y \in Ts : ~ (<<y, 0 .. m>> \in StrictSubsetOrdering(S))
  BY <1>4
<1>6. ASSUME NEW k \in T, k < m PROVE FALSE
  <2>1. 0 .. k \in Ts
    BY <1>5, <1>6
  <2>2. 0 .. k \subseteq 0 .. m /\ m \in 0 .. m /\ m \notin 0 .. k
    BY <1>5, <1>6
  <2>3. <<0 .. k, 0 .. m>> \in (SUBSET S) \X (SUBSET S)
    BY <1>5, <1>6
  <2> QED  BY <1>5, <2>1, <2>2, <2>3 DEF StrictSubsetOrdering
<1> QED  BY <1>5, <1>6

(* Induction up to n, for a set.                                             *)
LEMMA UpTo ==
    ASSUME NEW n \in Nat, NEW S, 0 \in S, \A k \in 1 .. n : k - 1 \in S => k \in S
    PROVE  0 .. n \subseteq S
<1> SUFFICES ASSUME (0 .. n) \ S # {} PROVE FALSE
  OBVIOUS
<1>1. PICK m \in (0 .. n) \ S : \A k \in (0 .. n) \ S : m <= k
  <2> DEFINE T == (0 .. n) \ S
  <2>1. T \in SUBSET Nat /\ T # {}
    OBVIOUS
  <2> HIDE DEF T
  <2>2. \E m \in T : \A k \in T : m <= k
    BY <2>1, Least
  <2> QED  BY <2>2 DEF T
<1>2. m \in 1 .. n /\ m - 1 \in 0 .. n /\ ~ (m <= m - 1)
  BY <1>1
<1> QED  BY <1>1, <1>2

(* What follows from a base by a step for each of 1 .. n.                     *)
Steps(n, V) == [1 .. n -> [V -> V]]
Along(g, n, V, base, step) ==
    g \in [0 .. n -> V] /\ g[0] = base /\ \A i \in 1 .. n : g[i] = step[i][g[i - 1]]

(* There is such a function: what a recursive definition chooses exists.     *)
LEMMA Recursion ==
    ASSUME NEW n \in Nat, NEW V, NEW base \in V, NEW step \in Steps(n, V)
    PROVE  \E g : Along(g, n, V, base, step)
<1> DEFINE Holds(m, g) == /\ g \in [0 .. m -> V] /\ g[0] = base
                         /\ \A i \in 1 .. m : g[i] = step[i][g[i - 1]]
           S == {m \in 0 .. n : \E g \in [0 .. m -> V] : Holds(m, g)}
<1> USE DEF Steps
<1>1. 0 \in S
  <2> DEFINE h == [i \in 0 .. 0 |-> base]
  <2>1. h \in [0 .. 0 -> V] /\ Holds(0, h)
    OBVIOUS
  <2> HIDE DEF h
  <2> QED  BY <2>1
<1>2. ASSUME NEW m \in 1 .. n, m - 1 \in S PROVE m \in S
  <2>1. PICK g \in [0 .. m - 1 -> V] : Holds(m - 1, g)
    BY <1>2
  <2> DEFINE h == [i \in 0 .. m |-> IF i = m THEN step[m][g[m - 1]] ELSE g[i]]
  <2>2. g[m - 1] \in V
    BY <2>1
  <2>3. step[m][g[m - 1]] \in V
    BY <2>2
  <2>4. h \in [0 .. m -> V]
    BY <2>1, <2>3
  <2>5. h[0] = base /\ h[m] = step[m][h[m - 1]]
    <3>1. /\ h[0] = g[0] /\ h[m - 1] = g[m - 1] /\ h[m] = step[m][g[m - 1]]
      OBVIOUS
    <3> QED  BY <2>1, <3>1
  <2>6. ASSUME NEW i \in 1 .. m - 1 PROVE h[i] = step[i][h[i - 1]]
    <3>1. h[i] = g[i] /\ h[i - 1] = g[i - 1]
      OBVIOUS
    <3> QED  BY <2>1, <3>1
  <2>7. Holds(m, h)
    <3> HIDE DEF h
    <3> QED  BY <2>4, <2>5, <2>6
  <2> HIDE DEF h
  <2> QED  BY <2>4, <2>7
<1>3. n \in S
  <2> HIDE DEF S
  <2>1. 0 .. n \subseteq S
    BY <1>1, <1>2, UpTo
  <2> QED  BY <2>1
<1>4. PICK g \in [0 .. n -> V] : Holds(n, g)
  BY <1>3
<1> QED  BY <1>4 DEF Along

-------------------------------------------------------------------------------
(* Sums over a finite set.                                                   *)

(* The element that a fold takes first, and the sums of all subsets.         *)
Pick(s) == CHOOSE x \in s : TRUE
Sums(g, S, f) ==
    g = [s \in SUBSET S |-> IF s = {} THEN 0 ELSE f[Pick(s)] + g[s \ {Pick(s)}]]

(* An element is taken from a set, which has one less.                       *)
LEMMA Picked ==
    ASSUME NEW s, s # {}, IsFiniteSet(s)
    PROVE  /\ Pick(s) \in s /\ IsFiniteSet(s \ {Pick(s)})
           /\ Cardinality(s) \in Nat /\ Cardinality(s \ {Pick(s)}) \in Nat
           /\ Cardinality(s \ {Pick(s)}) = Cardinality(s) - 1
<1>1. Pick(s) \in s
  BY DEF Pick
<1> QED  BY <1>1, FS_RemoveElement, FS_CardinalityType

(* There are such sums.                                                      *)
LEMMA SumsExist ==
    ASSUME NEW S, IsFiniteSet(S), NEW f \in [S -> Nat]
    PROVE  \E g \in [SUBSET S -> Nat] : Sums(g, S, f)
<1> DEFINE n == Cardinality(S)
           V == [SUBSET S -> Nat]
           zero == [s \in SUBSET S |-> 0]
           Next(v) == [s \in SUBSET S |-> IF s = {} THEN 0 ELSE f[Pick(s)] + v[s \ {Pick(s)}]]
           step == [i \in 1 .. n |-> [v \in V |-> Next(v)]]
<1>1. n \in Nat /\ \A s \in SUBSET S : IsFiniteSet(s) /\ Cardinality(s) \in Nat /\ Cardinality(s) <= n
  BY FS_CardinalityType, FS_Subset
<1>2. \A s \in SUBSET S : s # {} => /\ Pick(s) \in S /\ s \ {Pick(s)} \in SUBSET S
                                    /\ Cardinality(s \ {Pick(s)}) = Cardinality(s) - 1
  BY <1>1, Picked
<1>3. \A v \in V : Next(v) \in V
  <2> SUFFICES ASSUME NEW v \in V, NEW s \in SUBSET S
               PROVE  (IF s = {} THEN 0 ELSE f[Pick(s)] + v[s \ {Pick(s)}]) \in Nat
    OBVIOUS
  <2>1. CASE s = {}
    BY <2>1
  <2>2. CASE s # {}
    <3>1. f[Pick(s)] \in Nat /\ v[s \ {Pick(s)}] \in Nat
      BY <1>2, <2>2
    <3> QED  BY <2>2, <3>1
  <2> QED  BY <2>1, <2>2
<1>4. zero \in V /\ step \in Steps(n, V)
  <2> HIDE DEF Next
  <2> QED  BY <1>3 DEF Steps
<1>5. PICK g : Along(g, n, V, zero, step)
  <2> HIDE DEF n, V, zero, step
  <2> QED  BY <1>1, <1>4, Recursion
<1>6. g \in [0 .. n -> V] /\ g[0] = zero /\ \A i \in 1 .. n : g[i] = Next(g[i - 1])
  <2> HIDE DEF V, zero, Next, n
  <2>1. g \in [0 .. n -> V] /\ g[0] = zero /\ \A i \in 1 .. n : g[i] = step[i][g[i - 1]]
    BY <1>5 DEF Along
  <2>2. ASSUME NEW i \in 1 .. n PROVE g[i - 1] \in V
    BY <1>1, <2>1
  <2> QED  BY <2>1, <2>2
<1>7. \A i \in 0 .. n : g[i] \in V
  BY <1>6
<1>8. \A i \in 1 .. n, s \in SUBSET S :
         g[i][s] = IF s = {} THEN 0 ELSE f[Pick(s)] + g[i - 1][s \ {Pick(s)}]
  <2> SUFFICES ASSUME NEW i \in 1 .. n
               PROVE  \A s \in SUBSET S :
                         g[i][s] = IF s = {} THEN 0 ELSE f[Pick(s)] + g[i - 1][s \ {Pick(s)}]
    OBVIOUS
  <2>1. g[i] = Next(g[i - 1])
    BY <1>6
  <2> HIDE DEF V, n
  <2> QED  BY <2>1
<1>9. \A i \in 0 .. n : g[i][{}] = 0
  <2> HIDE DEF V, n
  <2>1. ASSUME NEW i \in 1 .. n PROVE g[i][{}] = 0
    BY <1>8
  <2>2. g[0][{}] = 0
    BY <1>6
  <2> QED  BY <1>1, <2>1, <2>2
<1> DEFINE T == {k \in 0 .. n : \A s \in SUBSET S : \A j \in k .. n :
                                   Cardinality(s) <= k => g[j][s] = g[k][s]}
<1>10. 0 \in T
  <2> HIDE DEF V, n
  <2>1. \A s \in SUBSET S : Cardinality(s) <= 0 => s = {}
    BY <1>1, FS_EmptySet
  <2> QED  BY <1>1, <1>9, <2>1
<1>11. ASSUME NEW k \in 1 .. n, k - 1 \in T PROVE k \in T
  <2> SUFFICES ASSUME NEW s \in SUBSET S, NEW j \in k .. n, Cardinality(s) <= k
               PROVE  g[j][s] = g[k][s]
    BY DEF T
  <2>1. CASE s = {}
    BY <2>1, <1>9
  <2>2. CASE s # {}
    <3>1. s \ {Pick(s)} \in SUBSET S /\ Cardinality(s \ {Pick(s)}) <= k - 1
      BY <1>1, <1>2, <2>2
    <3>2. j - 1 \in k - 1 .. n /\ k - 1 \in k - 1 .. n /\ j \in 1 .. n
      BY <1>1
    <3>3. g[j - 1][s \ {Pick(s)}] = g[k - 1][s \ {Pick(s)}]
      BY <1>11, <3>1, <3>2
    <3> QED  BY <1>8, <2>2, <3>2, <3>3
  <2> QED  BY <2>1, <2>2
<1>12. 0 .. n \subseteq T
  <2> HIDE DEF T, n
  <2> QED  BY <1>1, <1>10, <1>11, UpTo
<1>13. \A s \in SUBSET S : g[n][s] = IF s = {} THEN 0 ELSE f[Pick(s)] + g[n][s \ {Pick(s)}]
  <2> SUFFICES ASSUME NEW s \in SUBSET S, s # {}
               PROVE  g[n][s] = f[Pick(s)] + g[n][s \ {Pick(s)}]
    <3> HIDE DEF n
    <3>1. n \in 0 .. n
      BY <1>1
    <3> QED  BY <1>9, <3>1
  <2>1. n \in 1 .. n /\ n \in n - 1 .. n /\ n - 1 \in 0 .. n
    <3>1. Cardinality(s) # 0
      BY <1>1, FS_EmptySet
    <3> HIDE DEF n
    <3> QED  BY <1>1, <3>1
  <2>2. s \ {Pick(s)} \in SUBSET S /\ Cardinality(s \ {Pick(s)}) <= n - 1
    <3> HIDE DEF n
    <3> QED  BY <1>1, <1>2
  <2>3. g[n][s \ {Pick(s)}] = g[n - 1][s \ {Pick(s)}]
    <3>1. n - 1 \in T
      BY <1>12, <2>1
    <3> QED  BY <2>1, <2>2, <3>1
  <2> QED  BY <1>8, <2>1, <2>3
<1>14. g[n] \in [SUBSET S -> Nat]
  <2>1. n \in 0 .. n
    <3> HIDE DEF n
    <3> QED  BY <1>1
  <2> HIDE DEF n
  <2> QED  BY <1>7, <2>1
<1> HIDE DEF n
<1>15. g[n] = [s \in SUBSET S |-> IF s = {} THEN 0 ELSE f[Pick(s)] + g[n][s \ {Pick(s)}]]
  BY <1>13, <1>14
<1> QED  BY <1>14, <1>15 DEF Sums

(* They are naturals.                                                        *)
LEMMA SumsType ==
    ASSUME NEW S, IsFiniteSet(S), NEW f \in [S -> Nat], NEW g, Sums(g, S, f)
    PROVE  g \in [SUBSET S -> Nat]
<1> DEFINE n == Cardinality(S)
           T == {k \in 0 .. n : \A s \in SUBSET S : Cardinality(s) = k => g[s] \in Nat}
<1>1. n \in Nat /\ \A s \in SUBSET S : IsFiniteSet(s) /\ Cardinality(s) \in 0 .. n
  BY FS_CardinalityType, FS_Subset
<1>2. 0 \in T
  <2> HIDE DEF n
  <2>1. \A s \in SUBSET S : Cardinality(s) = 0 => s = {}
    BY <1>1, FS_EmptySet
  <2>2. g[{}] = 0
    BY DEF Sums
  <2> QED  BY <1>1, <2>1, <2>2
<1>3. ASSUME NEW k \in 1 .. n, k - 1 \in T PROVE k \in T
  <2> SUFFICES ASSUME NEW s \in SUBSET S, Cardinality(s) = k
               PROVE  g[s] \in Nat
    BY DEF T
  <2>1. s # {}
    BY <1>1, FS_EmptySet
  <2>2. Pick(s) \in s /\ Cardinality(s \ {Pick(s)}) = k - 1
    BY <1>1, <2>1, Picked
  <2>3. f[Pick(s)] \in Nat /\ g[s \ {Pick(s)}] \in Nat
    BY <1>3, <2>2
  <2>4. g[s] = f[Pick(s)] + g[s \ {Pick(s)}]
    BY <2>1 DEF Sums
  <2> QED  BY <2>3, <2>4
<1>4. 0 .. n \subseteq T
  <2> HIDE DEF T, n
  <2> QED  BY <1>1, <1>2, <1>3, UpTo
<1>5. \A s \in SUBSET S : g[s] \in Nat
  <2> SUFFICES ASSUME NEW s \in SUBSET S PROVE g[s] \in Nat
    OBVIOUS
  <2>1. Cardinality(s) \in T
    <3> HIDE DEF T, n
    <3> QED  BY <1>1, <1>4
  <2> QED  BY <2>1
<1> QED  BY <1>5 DEF Sums

(* A sum is any of its numbers and the sum of the others.                    *)
AddUp(g, S, f) == \A s \in SUBSET S : \A y \in s : g[s] = f[y] + g[s \ {y}]

(* They add up in any order.                                                 *)
(* They add up in any order.                                                 *)
LEMMA AnyOrder ==
    ASSUME NEW S, IsFiniteSet(S), NEW f \in [S -> Nat], NEW g \in [SUBSET S -> Nat], Sums(g, S, f)
    PROVE  AddUp(g, S, f)
<1> DEFINE n == Cardinality(S)
           T == {k \in 0 .. n : \A s \in SUBSET S : Cardinality(s) = k =>
                                   \A y \in s : g[s] = f[y] + g[s \ {y}]}
<1>1. n \in Nat /\ \A s \in SUBSET S : IsFiniteSet(s) /\ Cardinality(s) \in 0 .. n
  BY FS_CardinalityType, FS_Subset
<1>2. 0 \in T
  <2> HIDE DEF n
  <2>1. \A s \in SUBSET S : Cardinality(s) = 0 => s = {}
    BY <1>1, FS_EmptySet
  <2> QED  BY <1>1, <2>1
<1>3. ASSUME NEW k \in 1 .. n, k - 1 \in T PROVE k \in T
  <2> SUFFICES ASSUME NEW s \in SUBSET S, Cardinality(s) = k, NEW y \in s
               PROVE  g[s] = f[y] + g[s \ {y}]
    BY DEF T
  <2> DEFINE x == Pick(s)
  <2>1. x \in s /\ g[s] = f[x] + g[s \ {x}]
    BY Picked, <1>1 DEF Sums
  <2>2. CASE x = y
    BY <2>1, <2>2
  <2>3. CASE x # y
    <3>1. Cardinality(s \ {x}) = k - 1 /\ Cardinality(s \ {y}) = k - 1
      BY <1>1, <2>1, FS_RemoveElement
    <3>2. g[s \ {x}] = f[y] + g[(s \ {x}) \ {y}]
      BY <1>3, <2>3, <3>1
    <3>3. g[s \ {y}] = f[x] + g[(s \ {y}) \ {x}]
      BY <1>3, <2>1, <2>3, <3>1
    <3>4. (s \ {x}) \ {y} = s \ {x, y} /\ (s \ {y}) \ {x} = s \ {x, y}
      OBVIOUS
    <3>5. f[x] \in Nat /\ f[y] \in Nat /\ g[s \ {x, y}] \in Nat
      BY <2>1
    <3> HIDE DEF x
    <3>6. g[s \ {x}] = f[y] + g[s \ {x, y}] /\ g[s \ {y}] = f[x] + g[s \ {x, y}]
      BY <3>2, <3>3, <3>4
    <3> QED  BY <2>1, <3>5, <3>6
  <2> QED  BY <2>2, <2>3
<1>4. 0 .. n \subseteq T
  <2> HIDE DEF T, n
  <2> QED  BY <1>1, <1>2, <1>3, UpTo
<1>5. ASSUME NEW s \in SUBSET S
      PROVE  \A y \in s : g[s] = f[y] + g[s \ {y}]
  <2>1. Cardinality(s) \in T
    <3> HIDE DEF T, n
    <3> QED  BY <1>1, <1>4
  <2> QED  BY <2>1
<1> QED  BY <1>5 DEF AddUp

(* Fewer and smaller numbers have a sum that is not greater.                 *)
LEMMA Smaller ==
    ASSUME NEW S, IsFiniteSet(S), NEW f \in [S -> Nat], NEW g \in [SUBSET S -> Nat], Sums(g, S, f),
           NEW R \in SUBSET S, NEW f2 \in [R -> Nat], NEW g2 \in [SUBSET R -> Nat], Sums(g2, R, f2),
           \A x \in R : f2[x] <= f[x]
    PROVE  g2[R] <= g[S]
<1> DEFINE n == Cardinality(S)
           T == {k \in 0 .. n : \A s \in SUBSET S, t \in SUBSET R :
                                   Cardinality(s) = k /\ t \subseteq s => g2[t] <= g[s]}
<1>1. n \in Nat /\ \A s \in SUBSET S : IsFiniteSet(s) /\ Cardinality(s) \in 0 .. n
  BY FS_CardinalityType, FS_Subset
<1>2. IsFiniteSet(R)
  BY <1>1
<1>3. AddUp(g, S, f) /\ AddUp(g2, R, f2)
  BY <1>2, AnyOrder
<1>4. 0 \in T
  <2> HIDE DEF n
  <2>1. \A s \in SUBSET S : Cardinality(s) = 0 => s = {}
    BY <1>1, FS_EmptySet
  <2>2. g2[{}] = 0 /\ g[{}] = 0
    BY DEF Sums
  <2>3. \A s \in SUBSET S, t \in SUBSET R : Cardinality(s) = 0 /\ t \subseteq s => g2[t] <= g[s]
    <3> SUFFICES ASSUME NEW s \in SUBSET S, NEW t \in SUBSET R, Cardinality(s) = 0, t \subseteq s
                 PROVE  g2[t] <= g[s]
      OBVIOUS
    <3>1. s = {} /\ t = {}
      BY <2>1
    <3> QED  BY <2>2, <3>1
  <2> QED  BY <1>1, <2>3
<1>5. ASSUME NEW k \in 1 .. n, k - 1 \in T PROVE k \in T
  <2> SUFFICES ASSUME NEW s \in SUBSET S, NEW t \in SUBSET R, Cardinality(s) = k, t \subseteq s
               PROVE  g2[t] <= g[s]
    BY DEF T
  <2>1. PICK x : x \in s
    <3>1. s # {}
      BY <1>1, FS_EmptySet
    <3> QED  BY <3>1
  <2>2. Cardinality(s \ {x}) = k - 1
    BY <1>1, <2>1, FS_RemoveElement
  <2>3. g[s] = f[x] + g[s \ {x}]
    BY <1>3, <2>1 DEF AddUp
  <2>4. f[x] \in Nat /\ g[s \ {x}] \in Nat
    BY <2>1
  <2>5. CASE x \in t
    <3>1. g2[t] = f2[x] + g2[t \ {x}]
      BY <1>3, <2>5 DEF AddUp
    <3>2. g2[t \ {x}] <= g[s \ {x}]
      BY <1>5, <2>2
    <3>3. f2[x] <= f[x] /\ f2[x] \in Nat /\ g2[t \ {x}] \in Nat
      BY <2>5
    <3> QED  BY <2>3, <2>4, <3>1, <3>2, <3>3
  <2>6. CASE x \notin t
    <3>1. g2[t] <= g[s \ {x}]
      BY <1>5, <2>2, <2>6
    <3>2. g2[t] \in Nat
      OBVIOUS
    <3> QED  BY <2>3, <2>4, <3>1, <3>2
  <2> QED  BY <2>5, <2>6
<1>6. 0 .. n \subseteq T
  <2> HIDE DEF T, n
  <2> QED  BY <1>1, <1>4, <1>5, UpTo
<1>7. n \in T
  <2> HIDE DEF T, n
  <2> QED  BY <1>1, <1>6
<1> QED  BY <1>7

(* What the sum of the library is.                                           *)
LEMMA SumIs ==
    ASSUME NEW S, IsFiniteSet(S), NEW f \in [S -> Nat]
    PROVE  \E g \in [SUBSET S -> Nat] : Sums(g, S, f) /\ SumFunctionOnSet(f, S) = g[S]
<1> DEFINE g == CHOOSE g : Sums(g, S, f)
<1>1. SumFunctionOnSet(f, S) = g[S]
  BY DEF SumFunctionOnSet, FoldFunctionOnSet, MapThenFoldSet, Sums, Pick
<1>2. Sums(g, S, f)
  <2>1. \E h : Sums(h, S, f)
    BY SumsExist
  <2> HIDE DEF g
  <2>2. Sums(CHOOSE h : Sums(h, S, f), S, f)
    BY <2>1
  <2> QED  BY <2>2 DEF g
<1>3. g \in [SUBSET S -> Nat]
  <2> HIDE DEF g
  <2> QED  BY <1>2, SumsType
<1> HIDE DEF g
<1> QED  BY <1>1, <1>2, <1>3

(* A sum of naturals is one; the empty sum is 0.                             *)
LEMMA SumFacts ==
    ASSUME NEW S, IsFiniteSet(S), NEW f \in [S -> Nat]
    PROVE  /\ SumFunction(f) \in Nat
           /\ S = {} => SumFunction(f) = 0
<1>1. PICK g \in [SUBSET S -> Nat] : Sums(g, S, f) /\ SumFunctionOnSet(f, S) = g[S]
  BY SumIs
<1>2. SumFunction(f) = g[S]
  BY <1>1 DEF SumFunction
<1> QED  BY <1>1, <1>2 DEF Sums

(* A sum of fewer or smaller numbers is not greater.                         *)
(* A sum of fewer or smaller numbers is not greater.                         *)
LEMMA SumOfFewer ==
    ASSUME NEW S, IsFiniteSet(S), NEW f \in [S -> Nat], NEW R \in SUBSET S, NEW f2 \in [R -> Nat],
           \A x \in R : f2[x] <= f[x]
    PROVE  SumFunction(f2) <= SumFunction(f)
<1>1. PICK g \in [SUBSET S -> Nat] : Sums(g, S, f) /\ SumFunctionOnSet(f, S) = g[S]
  BY SumIs
<1>2. IsFiniteSet(R)
  BY FS_Subset
<1>3. PICK g2 \in [SUBSET R -> Nat] : Sums(g2, R, f2) /\ SumFunctionOnSet(f2, R) = g2[R]
  BY <1>2, SumIs
<1>4. SumFunction(f) = g[S] /\ SumFunction(f2) = g2[R]
  BY <1>1, <1>3 DEF SumFunction
<1>5. g2[R] <= g[S]
  BY <1>1, <1>3, Smaller
<1> QED  BY <1>4, <1>5

(* One number adds no more than itself.                                      *)
(* One number adds no more than itself.                                      *)
LEMMA SumWithOneMore ==
    ASSUME NEW S, IsFiniteSet(S), NEW f \in [S -> Nat], NEW x \in S
    PROVE  SumFunction(f) <= f[x] + SumFunction([y \in S \ {x} |-> f[y]])
<1> DEFINE R == S \ {x}
           h == [y \in R |-> f[y]]
<1>1. PICK g \in [SUBSET S -> Nat] : Sums(g, S, f) /\ SumFunctionOnSet(f, S) = g[S]
  BY SumIs
<1>2. IsFiniteSet(R)
  BY FS_Subset
<1>3. PICK g2 \in [SUBSET R -> Nat] : Sums(g2, R, h) /\ SumFunctionOnSet(h, R) = g2[R]
  BY <1>2, SumIs
<1>4. SumFunction(f) = g[S] /\ SumFunction(h) = g2[R]
  BY <1>1, <1>3 DEF SumFunction
<1>5. g[S] = f[x] + g[R]
  <2>1. AddUp(g, S, f)
    BY <1>1, AnyOrder
  <2> QED  BY <2>1 DEF AddUp
<1> DEFINE g3 == [s \in SUBSET R |-> g[s]]
<1>6. Sums(g3, R, h) /\ g3 \in [SUBSET R -> Nat]
  <2>1. \A s \in SUBSET R : s # {} => Pick(s) \in s
    BY DEF Pick
  <2> QED  BY <1>1, <2>1 DEF Sums
<1>7. g3[R] <= g2[R]
  <2> HIDE DEF g3, R
  <2>1. \A y \in R : h[y] <= h[y]
    BY DEF R
  <2>2. h \in [R -> Nat]
    BY DEF R
  <2> HIDE DEF h
  <2> QED  BY <1>2, <1>3, <1>6, <2>1, <2>2, Smaller
<1>8. g3[R] = g[R] /\ g[R] \in Nat /\ g2[R] \in Nat /\ f[x] \in Nat
  OBVIOUS
<1> HIDE DEF g3, h, R
<1> QED  BY <1>4, <1>5, <1>7, <1>8 DEF h, R
================================================================================
