------------------------------ MODULE Balances_proofs ------------------------------
(***************************************************************************)
(* Proofs about Balances, for any accounts, purchases and shares: whatever *)
(* is recorded, and in whatever order the clearing accounts are emptied,   *)
(* nothing appears or is lost, and the plan of payments settles the group. *)
(* Without a circle the balances, and the histories, are those of the      *)
(* reference definition.  A line of the plan that is paid takes nobody     *)
(* beyond zero.                                                            *)
(***************************************************************************)
EXTENDS Balances, FiniteSetTheorems, SequenceTheorems, NaturalsInduction, WellFoundedInduction, TLAPS

-----------------------------------------------------------------------------
(* Induction, with sets in place of predicates. *)

\* A set with 0 and the successor of each of its naturals has all naturals.
LEMMA Induction ==
    ASSUME NEW P, 0 \in P, \A n \in Nat : n \in P => n + 1 \in P
    PROVE  \A n \in Nat : n \in P
<1> DEFINE T == {n \in Nat : n \notin P}
           R == {p \in Nat \X Nat : p[1] < p[2]}
<1>1. IsWellFoundedOn(R, Nat)
  BY NatLessThanWellFounded DEF OpToRel
<1>2. \A x, y \in Nat : y < x => <<y, x>> \in R
  OBVIOUS
<1> HIDE DEF R
<1>3. SUFFICES ASSUME T # {} PROVE FALSE
  OBVIOUS
<1>4. PICK x \in T : \A y \in T : <<y, x>> \notin R
  <2>1. T \in SUBSET Nat
    OBVIOUS
  <2> HIDE DEF T
  <2> QED
    BY <2>1, <1>1, <1>3, WFMin, Zenon
<1>5. x # 0 /\ x - 1 \in Nat /\ x - 1 < x
  BY <1>4
<1>6. x - 1 \in P
  BY <1>2, <1>4, <1>5
<1> QED
  BY <1>4, <1>5, <1>6

\* A set with the empty set, and with every set whose elements can each be taken
\* away to get a set it has, has all subsets of S.
LEMMA SetInduction ==
    ASSUME NEW S, IsFiniteSet(S), NEW P, {} \in P,
           \A s \in SUBSET S : s # {} /\ (\A x \in s : s \ {x} \in P) => s \in P
    PROVE  \A s \in SUBSET S : s \in P
<1> DEFINE Q == {n \in Nat : \A s \in SUBSET S : Cardinality(s) = n => s \in P}
<1>1. \A s \in SUBSET S : IsFiniteSet(s) /\ Cardinality(s) \in Nat
  BY FS_Subset, FS_CardinalityType
<1>2. 0 \in Q
  BY <1>1, FS_EmptySet
<1>3. ASSUME NEW n \in Nat, n \in Q PROVE n + 1 \in Q
  <2> SUFFICES ASSUME NEW s \in SUBSET S, Cardinality(s) = n + 1 PROVE s \in P
    OBVIOUS
  <2>1. s # {}
    BY FS_EmptySet
  <2>2. ASSUME NEW x \in s PROVE s \ {x} \in P
    <3>1. s \ {x} \in SUBSET S /\ IsFiniteSet(s)
      BY <1>1
    <3>2. Cardinality(s \ {x}) = Cardinality(s) - 1
      BY <3>1, FS_RemoveElement
    <3> QED
      BY <1>3, <3>1, <3>2
  <2> QED
    BY <2>1, <2>2
<1> HIDE DEF Q
<1>4. \A n \in Nat : n \in Q
  BY <1>2, <1>3, Induction
<1> QED
  BY <1>1, <1>4 DEF Q

-----------------------------------------------------------------------------
(* Sums.  Sum goes through a set in an order that is not known. *)

\* Computing a value first does not change it.
LEMMA ComputedIs == ASSUME NEW x PROVE Computed(x) = x
  BY DEF Computed

Pick(s) == CHOOSE x \in s : TRUE
Step(f, S, g) == [s \in SUBSET S |-> IF s = {} THEN 0 ELSE f[Pick(s)] + g[s \ {Pick(s)}]]
Iter(f, S) == CHOOSE g : g = Step(f, S, g)

\* Sum as the fold of the library defines it.
LEMMA SumUnfolds == ASSUME NEW f PROVE Sum(f) = Iter(f, DOMAIN f)[DOMAIN f]
<1>1. FoldFunction(+, 0, f) = Iter(f, DOMAIN f)[DOMAIN f]
  BY DEF FoldFunction, FoldFunctionOnSet, MapThenFoldSet, Iter, Step, Pick
<1> QED
  BY <1>1, ComputedIs DEF Sum

\* The sums of all subsets, of which Sum takes the largest, exist.
LEMMA StepsExist ==
    ASSUME NEW S, IsFiniteSet(S), NEW f, \A x \in S : f[x] \in Int
    PROVE  \E g \in [SUBSET S -> Int] : g = Step(f, S, g)
<1> DEFINE E(g, s) == g[s] = IF s = {} THEN 0 ELSE f[Pick(s)] + g[s \ {Pick(s)}]
           Q == {n \in Nat : \E g \in [SUBSET S -> Int] : \A s \in SUBSET S : Cardinality(s) <= n => E(g, s)}
<1>1. \A s \in SUBSET S : IsFiniteSet(s) /\ Cardinality(s) \in Nat /\ Cardinality(s) <= Cardinality(S)
  BY FS_Subset, FS_CardinalityType
<1>2. \A s \in SUBSET S : s # {} => Pick(s) \in s
  BY DEF Pick
<1>3. 0 \in Q
  <2> DEFINE g == [s \in SUBSET S |-> 0]
  <2>1. \A s \in SUBSET S : Cardinality(s) <= 0 => s = {}
    BY <1>1, FS_EmptySet
  <2>2. g \in [SUBSET S -> Int] /\ \A s \in SUBSET S : Cardinality(s) <= 0 => E(g, s)
    BY <2>1
  <2> QED
    BY <2>2
<1>4. ASSUME NEW n \in Nat, n \in Q PROVE n + 1 \in Q
  <2>1. PICK g \in [SUBSET S -> Int] : \A s \in SUBSET S : Cardinality(s) <= n => E(g, s)
    BY <1>4
  <2> DEFINE h == Step(f, S, g)
  <2>2. h \in [SUBSET S -> Int]
    <3> SUFFICES ASSUME NEW s \in SUBSET S, s # {} PROVE f[Pick(s)] + g[s \ {Pick(s)}] \in Int
      BY DEF Step
    <3>1. f[Pick(s)] \in Int /\ g[s \ {Pick(s)}] \in Int
      BY <1>2
    <3> QED
      BY <3>1
  <2>3. ASSUME NEW s \in SUBSET S, Cardinality(s) <= n + 1 PROVE E(h, s)
    <3>1. CASE s = {}
      BY <3>1 DEF Step
    <3>2. CASE s # {}
      <4> DEFINE u == s \ {Pick(s)}
      <4>1. Pick(s) \in s /\ u \in SUBSET S
        BY <1>2, <3>2
      <4>2. Cardinality(u) <= n
        BY <1>1, <2>3, <4>1, FS_RemoveElement
      <4>3. E(g, u)
        BY <2>1, <4>1, <4>2
      <4> HIDE DEF u
      <4>4. g[u] = h[u]
        BY <4>1, <4>3 DEF Step
      <4>5. h[s] = f[Pick(s)] + g[s \ {Pick(s)}]
        BY <3>2 DEF Step
      <4> QED
        BY <3>2, <4>4, <4>5 DEF u
    <3> QED
      BY <3>1, <3>2
  <2> HIDE DEF h, E
  <2>4. \E k \in [SUBSET S -> Int] : \A s \in SUBSET S : Cardinality(s) <= n + 1 => E(k, s)
    BY <2>2, <2>3
  <2> QED
    BY <2>4
<1> HIDE DEF Q
<1>5. \A n \in Nat : n \in Q
  BY <1>3, <1>4, Induction
<1>6. PICK g \in [SUBSET S -> Int] : \A s \in SUBSET S : Cardinality(s) <= Cardinality(S) => E(g, s)
  BY <1>5, FS_CardinalityType DEF Q
<1>7. \A s \in SUBSET S : E(g, s)
  BY <1>1, <1>6
<1>8. g = [s \in SUBSET S |-> g[s]]
  OBVIOUS
<1>9. g = Step(f, S, g)
  BY <1>7, <1>8 DEF Step
<1> QED
  BY <1>9

\* They are sums, each of the one with an element less.
LEMMA IterIs ==
    ASSUME NEW S, IsFiniteSet(S), NEW f, \A x \in S : f[x] \in Int
    PROVE  /\ Iter(f, S) \in [SUBSET S -> Int]
           /\ \A s \in SUBSET S : Iter(f, S)[s] = IF s = {} THEN 0 ELSE f[Pick(s)] + Iter(f, S)[s \ {Pick(s)}]
<1> DEFINE h == Iter(f, S)
<1>1. \E g : g = Step(f, S, g)
  BY StepsExist
<1>2. h = Step(f, S, h)
  BY <1>1 DEF Iter
<1> HIDE DEF h
<1>3. \A s \in SUBSET S : h[s] = IF s = {} THEN 0 ELSE f[Pick(s)] + h[s \ {Pick(s)}]
  BY <1>2 DEF Step
<1> DEFINE P == {s \in SUBSET S : h[s] \in Int}
<1>4. {} \in P
  <2>1. {} \in SUBSET S
    OBVIOUS
  <2>2. h[{}] = 0
    BY <1>3, <2>1
  <2> QED
    BY <2>1, <2>2
<1>5. ASSUME NEW s \in SUBSET S, s # {}, \A x \in s : s \ {x} \in P PROVE s \in P
  <2>1. Pick(s) \in s /\ f[Pick(s)] \in Int
    BY <1>5 DEF Pick
  <2>2. h[s \ {Pick(s)}] \in Int
    BY <1>5, <2>1
  <2>3. h[s] = f[Pick(s)] + h[s \ {Pick(s)}]
    BY <1>3, <1>5
  <2>4. h[s] \in Int
    BY <2>1, <2>2, <2>3
  <2> QED
    BY <2>4
<1>6. \A s \in SUBSET S : s \in P
  <2> HIDE DEF P
  <2> QED
    BY <1>4, <1>5, SetInduction
<1>7. h = [s \in SUBSET S |-> h[s]]
  BY <1>2 DEF Step
<1> QED
  BY <1>3, <1>6, <1>7 DEF h

\* Any element may be added last.
LEMMA IterElement ==
    ASSUME NEW S, IsFiniteSet(S), NEW f, \A x \in S : f[x] \in Int,
           NEW s \in SUBSET S, NEW x \in s
    PROVE  Iter(f, S)[s] = f[x] + Iter(f, S)[s \ {x}]
<1> DEFINE h == Iter(f, S)
           P == {u \in SUBSET S : \A y \in u : h[u] = f[y] + h[u \ {y}]}
<1>1. \A u \in SUBSET S : h[u] \in Int /\ h[u] = IF u = {} THEN 0 ELSE f[Pick(u)] + h[u \ {Pick(u)}]
  BY IterIs
<1> HIDE DEF h
<1>2. {} \in P
  OBVIOUS
<1>3. ASSUME NEW u \in SUBSET S, u # {}, \A y \in u : u \ {y} \in P PROVE u \in P
  <2> SUFFICES ASSUME NEW y \in u PROVE h[u] = f[y] + h[u \ {y}]
    OBVIOUS
  <2> DEFINE p == Pick(u)
  <2>1. p \in u /\ h[u] = f[p] + h[u \ {p}]
    BY <1>1, <1>3 DEF Pick
  <2> HIDE DEF p
  <2>2. CASE y = p
    BY <2>1, <2>2
  <2>3. CASE y # p
    <3>1. h[u \ {p}] = f[y] + h[(u \ {p}) \ {y}]
      BY <1>3, <2>1, <2>3
    <3>2. h[u \ {y}] = f[p] + h[(u \ {y}) \ {p}]
      BY <1>3, <2>1, <2>3
    <3>3. (u \ {y}) \ {p} = (u \ {p}) \ {y} /\ (u \ {p}) \ {y} \in SUBSET S
      OBVIOUS
    <3>4. f[p] \in Int /\ f[y] \in Int /\ h[(u \ {p}) \ {y}] \in Int
      BY <1>1, <2>1, <3>3
    <3> DEFINE c == h[(u \ {p}) \ {y}]
    <3>5. f[p] + (f[y] + c) = f[y] + (f[p] + c)
      <4> HIDE DEF c
      <4>1. c \in Int
        BY <3>4 DEF c
      <4> QED
        BY <3>4, <4>1
    <3>6. h[u \ {y}] = f[p] + c
      BY <3>2, <3>3, Zenon
    <3> QED
      BY <2>1, <3>1, <3>5, <3>6, Zenon
  <2> QED
    BY <2>2, <2>3
<1>4. \A u \in SUBSET S : u \in P
  <2> HIDE DEF P
  <2> QED
    BY <1>2, <1>3, SetInduction
<1> QED
  BY <1>4 DEF h

\* The sum of a part does not depend on the rest.
LEMMA IterSame ==
    ASSUME NEW S, IsFiniteSet(S), NEW f, \A x \in S : f[x] \in Int,
           NEW T \in SUBSET S, NEW g, \A x \in T : g[x] = f[x]
    PROVE  Iter(g, T)[T] = Iter(f, S)[T]
<1> DEFINE h == Iter(f, S)
           k == Iter(g, T)
           P == {u \in SUBSET T : k[u] = h[u]}
<1>1. IsFiniteSet(T) /\ SUBSET T \subseteq SUBSET S
  BY FS_Subset
<1>2. \A u \in SUBSET T : h[u] = IF u = {} THEN 0 ELSE f[Pick(u)] + h[u \ {Pick(u)}]
  <2>1. \A u \in SUBSET S : h[u] = IF u = {} THEN 0 ELSE f[Pick(u)] + h[u \ {Pick(u)}]
    BY IterIs
  <2> HIDE DEF h
  <2> QED
    BY <1>1, <2>1
<1>3. \A u \in SUBSET T : k[u] = IF u = {} THEN 0 ELSE g[Pick(u)] + k[u \ {Pick(u)}]
  <2>1. \A x \in T : g[x] \in Int
    OBVIOUS
  <2> QED
    BY <1>1, <2>1, IterIs
<1> HIDE DEF h, k
<1>4. {} \in P
  BY <1>2, <1>3, {} \in SUBSET T
<1>5. ASSUME NEW u \in SUBSET T, u # {}, \A y \in u : u \ {y} \in P PROVE u \in P
  <2>1. Pick(u) \in u
    BY <1>5 DEF Pick
  <2>2. k[u \ {Pick(u)}] = h[u \ {Pick(u)}] /\ g[Pick(u)] = f[Pick(u)]
    BY <1>5, <2>1
  <2> QED
    BY <1>2, <1>3, <1>5, <2>2
<1>6. \A u \in SUBSET T : u \in P
  <2> HIDE DEF P
  <2> QED
    BY <1>1, <1>4, <1>5, SetInduction
<1> QED
  BY <1>6 DEF h, k

\* Sum is the one of the whole domain.
LEMMA SumIs ==
    ASSUME NEW S, NEW f \in [S -> Int]
    PROVE  Sum(f) = Iter(f, S)[S] /\ \A x \in S : f[x] \in Int
<1>1. DOMAIN f = S /\ \A x \in S : f[x] \in Int
  OBVIOUS
<1>2. Sum(f) = Iter(f, DOMAIN f)[DOMAIN f]
  BY SumUnfolds
<1> QED
  BY <1>1, <1>2

\* A sum of integers is an integer.
LEMMA SumInt ==
    ASSUME NEW S, IsFiniteSet(S), NEW f \in [S -> Int]
    PROVE  Sum(f) \in Int
<1>1. Sum(f) = Iter(f, S)[S] /\ \A x \in S : f[x] \in Int
  BY SumIs
<1>2. Iter(f, S) \in [SUBSET S -> Int]
  BY <1>1, IterIs
<1> QED
  BY <1>1, <1>2

\* The sum of nothing.
LEMMA SumEmpty ==
    ASSUME NEW f, DOMAIN f = {} PROVE Sum(f) = 0
<1>1. IsFiniteSet({}) /\ \A x \in {} : f[x] \in Int
  BY FS_EmptySet
<1> QED
  BY <1>1, SumUnfolds, IterIs, {} \in SUBSET {}

\* One element and the sum of the others.
LEMMA SumElement ==
    ASSUME NEW S, IsFiniteSet(S), NEW f \in [S -> Int], NEW x \in S
    PROVE  Sum(f) = f[x] + Sum([y \in S \ {x} |-> f[y]])
<1> DEFINE T == S \ {x}
           g == [y \in T |-> f[y]]
<1>1. Sum(f) = Iter(f, S)[S] /\ (\A y \in S : f[y] \in Int) /\ T \in SUBSET S /\ S \in SUBSET S
  BY SumIs
<1>2. Iter(f, S)[S] = f[x] + Iter(f, S)[T]
  BY <1>1, IterElement
<1>3. g \in [T -> Int] /\ \A y \in T : g[y] = f[y]
  OBVIOUS
<1>4. Sum(g) = Iter(f, S)[T]
  <2> HIDE DEF g, T
  <2>1. Sum(g) = Iter(g, T)[T]
    BY <1>3, SumIs
  <2> QED
    BY <1>1, <1>3, <2>1, IterSame
<1> QED
  BY <1>1, <1>2, <1>4

\* What a sum adds for an element, for all its parts.
LEMMA IterGrows ==
    ASSUME NEW S, IsFiniteSet(S), NEW f \in [S -> Int]
    PROVE  /\ Sum(f) = Iter(f, S)[S] /\ Iter(f, S)[{}] = 0
           /\ \A u \in SUBSET S : Iter(f, S)[u] \in Int
           /\ \A u \in SUBSET S : \A x \in u : f[x] \in Int /\ Iter(f, S)[u] = f[x] + Iter(f, S)[u \ {x}]
<1>1. Sum(f) = Iter(f, S)[S] /\ \A x \in S : f[x] \in Int
  BY SumIs
<1>2. /\ Iter(f, S) \in [SUBSET S -> Int]
      /\ \A s \in SUBSET S : Iter(f, S)[s] = IF s = {} THEN 0 ELSE f[Pick(s)] + Iter(f, S)[s \ {Pick(s)}]
  BY <1>1, IterIs
<1>3. {} \in SUBSET S
  OBVIOUS
<1>4. \A u \in SUBSET S : \A x \in u : f[x] \in Int /\ Iter(f, S)[u] = f[x] + Iter(f, S)[u \ {x}]
  <2> SUFFICES ASSUME NEW u \in SUBSET S, NEW x \in u
               PROVE  f[x] \in Int /\ Iter(f, S)[u] = f[x] + Iter(f, S)[u \ {x}]
    OBVIOUS
  <2> QED
    BY <1>1, IterElement
<1> QED
  BY <1>1, <1>2, <1>3, <1>4

\* h grows with every element of S as the sum of f does.
Grows(h, f, S) == h[{}] = 0 /\ \A u \in SUBSET S : \A x \in u : h[u] = f[x] + h[u \ {x}]

\* What grows like it is the sum.
LEMMA SumUnique ==
    ASSUME NEW S, IsFiniteSet(S), NEW f \in [S -> Int], NEW h, Grows(h, f, S)
    PROVE  Sum(f) = h[S]
<1> DEFINE g == Iter(f, S)
           P == {u \in SUBSET S : g[u] = h[u]}
<1>1. /\ Sum(f) = g[S] /\ g[{}] = 0
      /\ \A u \in SUBSET S : \A x \in u : f[x] \in Int /\ g[u] = f[x] + g[u \ {x}]
  BY IterGrows
<1> HIDE DEF g
<1>2. {} \in P
  BY <1>1 DEF Grows
<1>3. ASSUME NEW u \in SUBSET S, u # {}, \A x \in u : u \ {x} \in P PROVE u \in P
  <2>1. PICK x \in u : TRUE
    BY <1>3
  <2>2. g[u] = f[x] + g[u \ {x}]
    BY <1>1, <2>1
  <2>3. h[u] = f[x] + h[u \ {x}]
    BY <2>1 DEF Grows
  <2>4. g[u \ {x}] = h[u \ {x}]
    BY <1>3, <2>1
  <2> QED
    BY <2>2, <2>3, <2>4
<1>4. \A u \in SUBSET S : u \in P
  <2> HIDE DEF P
  <2> QED
    BY <1>2, <1>3, SetInduction
<1> QED
  BY <1>1, <1>4

\* The sum of two functions.
LEMMA SumPlus ==
    ASSUME NEW S, IsFiniteSet(S), NEW f \in [S -> Int], NEW g \in [S -> Int]
    PROVE  Sum([x \in S |-> f[x] + g[x]]) = Sum(f) + Sum(g)
<1> DEFINE b == [x \in S |-> f[x] + g[x]]
           F == Iter(f, S)
           G == Iter(g, S)
           h == [u \in SUBSET S |-> F[u] + G[u]]
<1>1. /\ Sum(f) = F[S] /\ F[{}] = 0 /\ \A u \in SUBSET S : F[u] \in Int
      /\ \A u \in SUBSET S : \A x \in u : f[x] \in Int /\ F[u] = f[x] + F[u \ {x}]
  BY IterGrows
<1>2. /\ Sum(g) = G[S] /\ G[{}] = 0 /\ \A u \in SUBSET S : G[u] \in Int
      /\ \A u \in SUBSET S : \A x \in u : g[x] \in Int /\ G[u] = g[x] + G[u \ {x}]
  BY IterGrows
<1> HIDE DEF F, G
<1>3. b \in [S -> Int]
  OBVIOUS
<1>4. h[{}] = 0
  <2>1. {} \in SUBSET S
    OBVIOUS
  <2> QED
    BY <1>1, <1>2, <2>1
<1>5. ASSUME NEW u \in SUBSET S, NEW x \in u PROVE h[u] = b[x] + h[u \ {x}]
  <2> DEFINE v == u \ {x}
  <2>1. v \in SUBSET S /\ x \in S
    OBVIOUS
  <2>2. F[u] = f[x] + F[v] /\ G[u] = g[x] + G[v]
    BY <1>1, <1>2
  <2>3. f[x] \in Int /\ g[x] \in Int /\ F[v] \in Int /\ G[v] \in Int
    BY <1>1, <1>2, <2>1
  <2> HIDE DEF v
  <2>4. h[u] = F[u] + G[u] /\ h[v] = F[v] + G[v] /\ b[x] = f[x] + g[x]
    BY <2>1
  <2>5. h[u] = b[x] + h[v]
    BY <2>2, <2>3, <2>4
  <2> QED
    BY <2>5 DEF v
<1>6. h[S] = F[S] + G[S]
  <2>1. S \in SUBSET S
    OBVIOUS
  <2> QED
    BY <2>1
<1> HIDE DEF b, h
<1>7. Sum(b) = h[S]
  <2>1. Grows(h, b, S)
    BY <1>4, <1>5 DEF Grows
  <2> QED
    BY <1>3, <2>1, SumUnique
<1> QED
  BY <1>1, <1>2, <1>6, <1>7 DEF b

\* The sum of a multiple.
LEMMA SumTimes ==
    ASSUME NEW S, IsFiniteSet(S), NEW f \in [S -> Int], NEW k \in Int
    PROVE  Sum([x \in S |-> k * f[x]]) = k * Sum(f)
<1> DEFINE b == [x \in S |-> k * f[x]]
           F == Iter(f, S)
           h == [u \in SUBSET S |-> k * F[u]]
<1>1. /\ Sum(f) = F[S] /\ F[{}] = 0 /\ \A u \in SUBSET S : F[u] \in Int
      /\ \A u \in SUBSET S : \A x \in u : f[x] \in Int /\ F[u] = f[x] + F[u \ {x}]
  BY IterGrows
<1> HIDE DEF F
<1>2. \A m, n \in Int : k * m \in Int /\ k * (m + n) = k * m + k * n
  OBVIOUS
<1>3. b \in [S -> Int]
  BY <1>2
<1>4. h[{}] = 0
  <2>1. {} \in SUBSET S
    OBVIOUS
  <2> QED
    BY <1>1, <2>1
<1>5. ASSUME NEW u \in SUBSET S, NEW x \in u PROVE h[u] = b[x] + h[u \ {x}]
  <2> DEFINE v == u \ {x}
  <2>1. v \in SUBSET S /\ x \in S
    OBVIOUS
  <2>2. F[u] = f[x] + F[v] /\ f[x] \in Int
    BY <1>1
  <2>3. F[v] \in Int
    BY <1>1, <2>1
  <2> HIDE DEF v
  <2>4. h[u] = k * F[u] /\ h[v] = k * F[v] /\ b[x] = k * f[x]
    BY <2>1
  <2>5. h[u] = b[x] + h[v]
    BY <1>2, <2>2, <2>3, <2>4
  <2> QED
    BY <2>5 DEF v
<1>6. h[S] = k * F[S]
  <2>1. S \in SUBSET S
    OBVIOUS
  <2> QED
    BY <2>1
<1> HIDE DEF b, h
<1>7. Sum(b) = h[S]
  <2>1. Grows(h, b, S)
    BY <1>4, <1>5 DEF Grows
  <2> QED
    BY <1>3, <2>1, SumUnique
<1> QED
  BY <1>1, <1>6, <1>7 DEF b

\* The sum of zeros.
LEMMA SumZero ==
    ASSUME NEW S, IsFiniteSet(S), NEW f, f = [x \in S |-> 0]
    PROVE  Sum(f) = 0
<1> DEFINE h == [u \in SUBSET S |-> 0]
<1>1. f \in [S -> Int] /\ h[{}] = 0 /\ h[S] = 0
  OBVIOUS
<1>2. \A u \in SUBSET S : \A x \in u : h[u] = f[x] + h[u \ {x}]
  OBVIOUS
<1> HIDE DEF h
<1>3. Grows(h, f, S)
  BY <1>1, <1>2 DEF Grows
<1> QED
  BY <1>1, <1>3, SumUnique

\* The sum of a difference.
LEMMA SumMinus ==
    ASSUME NEW S, IsFiniteSet(S), NEW f \in [S -> Int], NEW g \in [S -> Int]
    PROVE  Sum([x \in S |-> f[x] - g[x]]) = Sum(f) - Sum(g)
<1> DEFINE m == [x \in S |-> (-1) * g[x]]
<1>1. m \in [S -> Int] /\ Sum(m) = (-1) * Sum(g)
  BY SumTimes
<1>2. Sum(f) \in Int /\ Sum(g) \in Int
  BY SumInt
<1>3. [x \in S |-> f[x] - g[x]] = [x \in S |-> f[x] + m[x]]
  OBVIOUS
<1> HIDE DEF m
<1>4. Sum([x \in S |-> f[x] + m[x]]) = Sum(f) + Sum(m)
  BY <1>1, SumPlus
<1> QED
  BY <1>1, <1>2, <1>3, <1>4

\* Zeros change no sum.
LEMMA SumPadded ==
    ASSUME NEW S, IsFiniteSet(S), NEW T \in SUBSET S, NEW g \in [T -> Int]
    PROVE  Sum([x \in S |-> IF x \in T THEN g[x] ELSE 0]) = Sum(g)
<1> DEFINE b == [x \in S |-> IF x \in T THEN g[x] ELSE 0]
           G == Iter(g, T)
           h == [u \in SUBSET S |-> G[u \cap T]]
<1>1. IsFiniteSet(T)
  BY FS_Subset
<1>2. /\ Sum(g) = G[T] /\ G[{}] = 0 /\ \A u \in SUBSET T : G[u] \in Int
      /\ \A u \in SUBSET T : \A x \in u : g[x] \in Int /\ G[u] = g[x] + G[u \ {x}]
  BY <1>1, IterGrows
<1> HIDE DEF G
<1>3. b \in [S -> Int]
  OBVIOUS
<1>4. h[{}] = 0
  <2>1. {} \in SUBSET S /\ {} \cap T = {}
    OBVIOUS
  <2> QED
    BY <1>2, <2>1
<1>5. ASSUME NEW u \in SUBSET S, NEW x \in u PROVE h[u] = b[x] + h[u \ {x}]
  <2> DEFINE v == u \ {x}
             w == u \cap T
  <2>1. v \in SUBSET S /\ x \in S /\ w \in SUBSET T /\ v \cap T \in SUBSET T
    OBVIOUS
  <2>2. h[u] = G[w] /\ h[v] = G[v \cap T]
    BY <2>1
  <2>3. CASE x \in T
    <3>1. x \in w /\ v \cap T = w \ {x} /\ b[x] = g[x]
      BY <2>1, <2>3
    <3>2. G[w] = g[x] + G[w \ {x}]
      BY <1>2, <2>1, <3>1
    <3> QED
      BY <2>2, <3>1, <3>2
  <2>4. CASE x \notin T
    <3>1. v \cap T = w /\ b[x] = 0
      BY <2>1, <2>4
    <3>2. G[w] \in Int
      BY <1>2, <2>1
    <3> HIDE DEF b, h, v, w
    <3>3. h[u] = b[x] + h[v]
      BY <2>2, <3>1, <3>2
    <3> QED
      BY <3>3 DEF v
  <2> QED
    BY <2>3, <2>4
<1>6. h[S] = G[T]
  <2>1. S \in SUBSET S /\ S \cap T = T
    OBVIOUS
  <2> QED
    BY <2>1
<1> HIDE DEF b, h
<1>7. Sum(b) = h[S]
  <2>1. Grows(h, b, S)
    BY <1>4, <1>5 DEF Grows
  <2> QED
    BY <1>3, <2>1, SumUnique
<1> QED
  BY <1>2, <1>6, <1>7 DEF b

\* The order of two sums does not matter.
LEMMA SumSwap ==
    ASSUME NEW S, IsFiniteSet(S), NEW T, IsFiniteSet(T), NEW f \in [S -> [T -> Int]]
    PROVE  Sum([x \in S |-> Sum(f[x])]) = Sum([y \in T |-> Sum([x \in S |-> f[x][y]])])
<1> DEFINE col(y) == [x \in S |-> f[x][y]]
           h == [u \in SUBSET S |-> Sum([y \in T |-> Iter(col(y), S)[u]])]
           b == [x \in S |-> Sum(f[x])]
<1>1. \A x \in S : f[x] \in [T -> Int] /\ Sum(f[x]) \in Int
  BY SumInt
<1>2. b \in [S -> Int]
  BY <1>1
<1>3. ASSUME NEW y \in T
      PROVE  /\ col(y) \in [S -> Int] /\ Sum(col(y)) = Iter(col(y), S)[S] /\ Iter(col(y), S)[{}] = 0
             /\ \A u \in SUBSET S : Iter(col(y), S)[u] \in Int
             /\ \A u \in SUBSET S : \A x \in u : Iter(col(y), S)[u] = f[x][y] + Iter(col(y), S)[u \ {x}]
  <2>1. col(y) \in [S -> Int]
    BY <1>1
  <2>2. \A x \in S : col(y)[x] = f[x][y]
    OBVIOUS
  <2> HIDE DEF col
  <2> QED
    BY <2>1, <2>2, IterGrows
<1> HIDE DEF col
<1>4. h[{}] = 0
  <2>1. {} \in SUBSET S
    OBVIOUS
  <2>2. h[{}] = Sum([y \in T |-> Iter(col(y), S)[{}]])
    BY <2>1
  <2>3. [y \in T |-> Iter(col(y), S)[{}]] = [y \in T |-> 0]
    BY <1>3
  <2> QED
    BY <2>2, <2>3, SumZero
<1>5. ASSUME NEW u \in SUBSET S, NEW x \in u PROVE h[u] = b[x] + h[u \ {x}]
  <2> DEFINE v == u \ {x}
             rest == [y \in T |-> Iter(col(y), S)[v]]
  <2>1. v \in SUBSET S /\ x \in S
    OBVIOUS
  <2>2. rest \in [T -> Int]
    BY <1>3, <2>1
  <2>3. [y \in T |-> Iter(col(y), S)[u]] = [y \in T |-> f[x][y] + rest[y]]
    BY <1>3
  <2>4. h[u] = Sum([y \in T |-> f[x][y] + rest[y]]) /\ h[v] = Sum(rest) /\ b[x] = Sum(f[x])
    BY <2>1, <2>3
  <2> HIDE DEF rest
  <2>5. Sum([y \in T |-> f[x][y] + rest[y]]) = Sum(f[x]) + Sum(rest)
    BY <1>1, <2>1, <2>2, SumPlus
  <2> QED
    BY <2>4, <2>5
<1>6. h[S] = Sum([y \in T |-> Sum(col(y))])
  <2>1. [y \in T |-> Iter(col(y), S)[S]] = [y \in T |-> Sum(col(y))]
    BY <1>3
  <2>2. S \in SUBSET S
    OBVIOUS
  <2> QED
    BY <2>1, <2>2
<1> HIDE DEF b, h
<1>7. Sum(b) = h[S]
  <2>1. Grows(h, b, S)
    BY <1>4, <1>5 DEF Grows
  <2> QED
    BY <1>2, <2>1, SumUnique
<1> QED
  BY <1>6, <1>7 DEF b, col

\* A sum of naturals is at least each of them.
LEMMA SumNat ==
    ASSUME NEW S, IsFiniteSet(S), NEW f \in [S -> Nat]
    PROVE  Sum(f) \in Nat /\ \A x \in S : f[x] <= Sum(f)
<1> DEFINE g == Iter(f, S)
           P == {u \in SUBSET S : g[u] \in Nat}
<1>1. f \in [S -> Int]
  OBVIOUS
<1>2. /\ Sum(f) = g[S] /\ g[{}] = 0 /\ \A u \in SUBSET S : g[u] \in Int
      /\ \A u \in SUBSET S : \A x \in u : f[x] \in Int /\ g[u] = f[x] + g[u \ {x}]
  BY <1>1, IterGrows
<1> HIDE DEF g
<1>3. {} \in P
  BY <1>2
<1>4. ASSUME NEW u \in SUBSET S, u # {}, \A x \in u : u \ {x} \in P PROVE u \in P
  <2>1. PICK x \in u : TRUE
    BY <1>4
  <2>2. g[u] = f[x] + g[u \ {x}] /\ g[u \ {x}] \in Nat /\ f[x] \in Nat
    BY <1>2, <1>4, <2>1
  <2> QED
    BY <2>2
<1>5. \A u \in SUBSET S : u \in P
  <2> HIDE DEF P
  <2> QED
    BY <1>3, <1>4, SetInduction
<1>6. ASSUME NEW x \in S PROVE f[x] <= Sum(f)
  <2>1. g[S] = f[x] + g[S \ {x}] /\ g[S \ {x}] \in Nat /\ f[x] \in Nat
    BY <1>2, <1>5
  <2> QED
    BY <1>2, <2>1
<1>7. S \in SUBSET S
  OBVIOUS
<1> QED
  BY <1>2, <1>5, <1>6, <1>7

-----------------------------------------------------------------------------
(* Parts of an amount. *)

\* A division without a remainder.
LEMMA WholeQuotient ==
    ASSUME NEW x \in Int, NEW d \in Int, d > 0
    PROVE  x \div d \in Int /\ (x % d = 0 => d * (x \div d) = x)
<1>1. x \div d \in Int /\ x % d \in Int /\ x = d * (x \div d) + (x % d)
  OBVIOUS
<1> DEFINE q == x \div d
           r == x % d
           m == d * q
<1>2. m \in Int
  BY <1>1
<1>3. x = m + r
  BY <1>1
<1> HIDE DEF m, r
<1>4. r = 0 => x = m
  BY <1>2, <1>3
<1> QED
  BY <1>1, <1>4 DEF m, r

\* Equal products of a positive factor.
LEMMA Cancel ==
    ASSUME NEW a \in Int, NEW b \in Int, NEW c \in Int, c > 0, c * a = c * b
    PROVE  a = b
<1>1. c * (a - b) = 0
  OBVIOUS
<1>2. \A y \in Int : y # 0 => c * y # 0
  OBVIOUS
<1> QED
  BY <1>1, <1>2

Parts(amount, n, total) == [x \in DOMAIN n |-> Part(amount, n[x], total)]

\* Parts without a remainder, of any shares.
LEMMA PartsOf ==
    ASSUME NEW S, IsFiniteSet(S), NEW n \in [S -> Nat], NEW amount \in Int, NEW total \in Nat,
           \A x \in S : Whole(amount, n[x], total)
    PROVE  /\ Parts(amount, n, total) \in [S -> Int] /\ Sum(Parts(amount, n, total)) \in Int
           /\ total > 0 => total * Sum(Parts(amount, n, total)) = amount * Sum(n)
           /\ total = 0 => Sum(Parts(amount, n, total)) = 0
<1> DEFINE parts == [x \in S |-> Part(amount, n[x], total)]
<1>0. parts = Parts(amount, n, total)
  BY DEF Parts
<1>1. \A x \in S : n[x] \in Nat /\ amount * n[x] \in Int
  OBVIOUS
<1>2. CASE total = 0
  <2>1. parts = [x \in S |-> 0]
    BY <1>2 DEF Part
  <2>2. parts \in [S -> Int]
    BY <2>1
  <2> HIDE DEF parts
  <2>3. Sum(parts) = 0
    BY <2>1, SumZero
  <2> QED
    BY <1>0, <1>2, <2>2, <2>3
<1>3. CASE total > 0
  <2>1. \A x \in S : Part(amount, n[x], total) \in Int /\ total * Part(amount, n[x], total) = amount * n[x]
    <3> SUFFICES ASSUME NEW x \in S
                 PROVE  Part(amount, n[x], total) \in Int /\ total * Part(amount, n[x], total) = amount * n[x]
      OBVIOUS
    <3> DEFINE y == amount * n[x]
    <3>1. y \in Int /\ y % total = 0 /\ Part(amount, n[x], total) = y \div total
      BY <1>1, <1>3 DEF Whole, Part
    <3> HIDE DEF y
    <3>2. y \div total \in Int /\ total * (y \div total) = y
      BY <1>3, <3>1, WholeQuotient
    <3> QED
      BY <3>1, <3>2 DEF y
  <2>2. parts \in [S -> Int]
    BY <2>1
  <2>3. [x \in S |-> total * parts[x]] = [x \in S |-> amount * n[x]]
    BY <2>1
  <2>4. n \in [S -> Int]
    OBVIOUS
  <2>5. Sum([x \in S |-> amount * n[x]]) = amount * Sum(n)
    BY <2>4, SumTimes
  <2> HIDE DEF parts
  <2>6. Sum([x \in S |-> total * parts[x]]) = total * Sum(parts)
    BY <2>2, SumTimes
  <2>7. Sum(parts) \in Int
    BY <2>2, SumInt
  <2> QED
    BY <1>0, <1>3, <2>2, <2>3, <2>5, <2>6, <2>7
<1> QED
  BY <1>2, <1>3

\* The parts of those who share an amount are all of it.
LEMMA PartsAddUp ==
    ASSUME NEW S, IsFiniteSet(S), NEW n \in [S -> Nat], NEW amount \in Int, amount # 0 => Sum(n) > 0,
           \A x \in S : Whole(amount, n[x], Sum(n))
    PROVE  Sum(Parts(amount, n, Sum(n))) = amount
<1> DEFINE sum == Sum(Parts(amount, n, Sum(n)))
           total == Sum(n)
<1>1. total \in Nat
  BY SumNat
<1>2. sum \in Int /\ (total > 0 => total * sum = amount * total) /\ (total = 0 => sum = 0)
  BY <1>1, PartsOf
<1> HIDE DEF sum, total
<1>3. amount * total = total * amount
  BY <1>1
<1>4. total > 0 => sum = amount
  BY <1>1, <1>2, <1>3, Cancel
<1>5. total = 0 => amount = 0
  BY DEF total
<1> QED
  BY <1>1, <1>2, <1>4, <1>5 DEF sum, total

Padded(amount, f, total, S) == [a \in S |-> Part(amount, At(f, a), total)]

\* Who has no share gets no part.
LEMMA PartsPadded ==
    ASSUME NEW S, IsFiniteSet(S), NEW f, DOMAIN f \in SUBSET S, f \in [DOMAIN f -> Nat],
           NEW amount \in Int, NEW total \in Nat, \A x \in DOMAIN f : Whole(amount, f[x], total)
    PROVE  Padded(amount, f, total, S) \in [S -> Int] /\ Sum(Padded(amount, f, total, S)) = Sum(Parts(amount, f, total))
<1> DEFINE D == DOMAIN f
           g == Parts(amount, f, total)
           h == Padded(amount, f, total, S)
<1>1. IsFiniteSet(D)
  BY FS_Subset
<1>2. g \in [D -> Int]
  BY <1>1, PartsOf
<1>3. Part(amount, 0, total) = 0
  <2>1. amount * 0 = 0
    OBVIOUS
  <2>2. total > 0 => 0 \div total = 0
    OBVIOUS
  <2> QED
    BY <2>1, <2>2 DEF Part
<1>4. h = [a \in S |-> IF a \in D THEN g[a] ELSE 0]
  <2> SUFFICES ASSUME NEW a \in S PROVE Part(amount, At(f, a), total) = IF a \in D THEN g[a] ELSE 0
    BY DEF Padded
  <2>1. CASE a \in D
    BY <2>1 DEF At, Parts
  <2>2. CASE a \notin D
    BY <1>3, <2>2 DEF At
  <2> QED
    BY <2>1, <2>2
<1> HIDE DEF g, h
<1>5. h \in [S -> Int]
  BY <1>2, <1>4
<1>6. Sum([a \in S |-> IF a \in D THEN g[a] ELSE 0]) = Sum(g)
  BY <1>2, SumPadded
<1> QED
  BY <1>4, <1>5, <1>6 DEF g, h

-----------------------------------------------------------------------------
(* The effect of a transaction. *)

Involved(t) == DOMAIN computeTransactionBalanceEffect(t)
Positions(t) == [a \in Involved(t) |-> Sum([i \in Alive(t) |-> Used(t.positions[i], a)])]
Debit(t) == [a \in Involved(t) |-> Part(Remaining(t), At(t.debitor_shares, a), Sum(t.debitor_shares))]
Credit(t) == [a \in Involved(t) |-> Part(t.value, At(t.creditor_shares, a), Sum(t.creditor_shares))]
\* What the users of a position pay for it.
UsedTotal(t) == [i \in Alive(t) |-> Sum([a \in Involved(t) |-> Used(t.positions[i], a)])]

\* What an account has of a transaction.
LEMMA EffectIs ==
    ASSUME NEW t, IsTransaction(t)
    PROVE  /\ Involved(t) \in SUBSET Accounts /\ IsFiniteSet(Involved(t))
           /\ IsFiniteSet(Alive(t)) /\ Alive(t) \in SUBSET DOMAIN t.positions
           /\ DOMAIN t.creditor_shares \in SUBSET Involved(t) /\ DOMAIN t.debitor_shares \in SUBSET Involved(t)
           /\ \A i \in Alive(t) : DOMAIN t.positions[i].usages \in SUBSET Involved(t)
           /\ \A a \in Involved(t) :
                 computeTransactionBalanceEffect(t)[a].total = Credit(t)[a] - Positions(t)[a] - Debit(t)[a]
<1>1. Involved(t) = DOMAIN t.creditor_shares \cup DOMAIN t.debitor_shares
                    \cup UNION {DOMAIN t.positions[i].usages : i \in Alive(t)}
  BY DEF Involved, computeTransactionBalanceEffect
<1>2. Alive(t) \in SUBSET DOMAIN t.positions
  BY DEF Alive
<1>3. Involved(t) \in SUBSET Accounts
  BY <1>1, <1>2 DEF IsTransaction, IsShares
<1>4. IsFiniteSet(Involved(t)) /\ IsFiniteSet(Alive(t))
  BY <1>2, <1>3, FS_Subset, BalanceBounds DEF IsTransaction
<1>5. \A a \in Involved(t) :
         computeTransactionBalanceEffect(t)[a].total = Credit(t)[a] - Positions(t)[a] - Debit(t)[a]
  BY <1>1 DEF computeTransactionBalanceEffect, Credit, Positions, Debit
<1> QED
  BY <1>1, <1>2, <1>3, <1>4, <1>5

\* The shares of a transaction are naturals, and so are their sums.
LEMMA SharesSum ==
    ASSUME NEW f, IsShares(f)
    PROVE  f \in [DOMAIN f -> Nat] /\ IsFiniteSet(DOMAIN f) /\ Sum(f) \in Nat
<1>1. f \in [DOMAIN f -> Nat] /\ IsFiniteSet(DOMAIN f)
  BY FS_Subset, BalanceBounds DEF IsShares
<1> QED
  BY <1>1, SumNat

\* A part is an integer, with a remainder or without.
LEMMA PartType ==
    ASSUME NEW amount \in Int, NEW n \in Nat, NEW total \in Nat
    PROVE  Part(amount, n, total) \in Int
<1> DEFINE x == amount * n
<1>1. x \in Int
  OBVIOUS
<1> HIDE DEF x
<1>2. total > 0 => x \div total \in Int
  BY <1>1, WholeQuotient
<1> QED
  BY <1>2 DEF Part, x

\* The parts that an account has of a transaction are integers, with remainders or
\* without.
LEMMA EffectParts ==
    ASSUME NEW t, IsTransaction(t), NEW a \in Involved(t)
    PROVE  Credit(t)[a] \in Int /\ Positions(t)[a] \in Int /\ Debit(t)[a] \in Int
<1>1. \A f, x : IsShares(f) => At(f, x) \in Nat
  BY SharesSum DEF At
<1>2. ASSUME NEW i \in Alive(t), NEW x
      PROVE  /\ Used(t.positions[i], x) \in Int /\ Common(t.positions[i]) \in Int
             /\ t.positions[i].price \in Int
  <2> DEFINE p == t.positions[i]
  <2>1. p.price \in Int /\ p.communist_shares \in Nat /\ IsShares(p.usages)
    BY EffectIs DEF IsTransaction
  <2>2. Usages(p) \in Nat /\ At(p.usages, x) \in Nat
    BY <1>1, <2>1, SharesSum DEF Usages
  <2> HIDE DEF p
  <2> QED
    BY <2>1, <2>2, PartType DEF Used, Common, p
<1>3. t.value \in Int /\ IsShares(t.creditor_shares) /\ IsShares(t.debitor_shares)
  BY DEF IsTransaction
<1>4. Credit(t)[a] \in Int
  BY <1>1, <1>3, SharesSum, PartType DEF Credit
<1>5. Positions(t)[a] \in Int
  <2>1. IsFiniteSet(Alive(t)) /\ [i \in Alive(t) |-> Used(t.positions[i], a)] \in [Alive(t) -> Int]
    BY <1>2, EffectIs
  <2>2. Sum([i \in Alive(t) |-> Used(t.positions[i], a)]) \in Int
    BY <2>1, SumInt
  <2> QED
    BY <2>2 DEF Positions
<1>6. Remaining(t) \in Int
  <2> DEFINE left == [i \in Alive(t) |-> Common(t.positions[i]) - t.positions[i].price]
  <2>1. \A i \in Alive(t) : Common(t.positions[i]) - t.positions[i].price \in Int
    BY <1>2
  <2>2. IsFiniteSet(Alive(t)) /\ left \in [Alive(t) -> Int]
    BY <2>1, EffectIs
  <2> HIDE DEF left
  <2>3. Sum(left) \in Int
    BY <2>2, SumInt
  <2> QED
    BY <1>3, <2>3 DEF Remaining, left
<1>7. Debit(t)[a] \in Int
  BY <1>1, <1>3, <1>6, SharesSum, PartType DEF Debit
<1> QED
  BY <1>4, <1>5, <1>7

\* What an account has of a transaction is an integer too.
LEMMA EffectType ==
    ASSUME NEW t, IsTransaction(t), NEW a \in Involved(t)
    PROVE  computeTransactionBalanceEffect(t)[a].total \in Int
<1>1. computeTransactionBalanceEffect(t)[a].total = Credit(t)[a] - Positions(t)[a] - Debit(t)[a]
  BY EffectIs
<1> QED
  BY <1>1, EffectParts

\* What is used of a position and what is left of it for everybody are its price.
LEMMA PositionAddsUp ==
    ASSUME NEW t, IsTransaction(t), Consumed(t), WholeParts(t), NEW i \in Alive(t)
    PROVE  /\ \A a \in Involved(t) : Used(t.positions[i], a) \in Int
           /\ Common(t.positions[i]) \in Int /\ t.positions[i].price \in Int
           /\ UsedTotal(t)[i] \in Int
           /\ UsedTotal(t)[i] + Common(t.positions[i]) = t.positions[i].price
<1> DEFINE p == t.positions[i]
           D == DOMAIN p.usages
           S == Involved(t)
           total == Usages(p)
           used == Padded(p.price, p.usages, total, S)
<1>1. i \in DOMAIN t.positions /\ IsFiniteSet(S) /\ D \in SUBSET S
  BY EffectIs
<1>2. p.price \in Int /\ p.communist_shares \in Nat /\ IsShares(p.usages)
  BY <1>1 DEF IsTransaction
<1>3. p.usages \in [D -> Nat] /\ IsFiniteSet(D) /\ Sum(p.usages) \in Nat
  BY <1>2, SharesSum
<1>4. total \in Nat /\ total = p.communist_shares + Sum(p.usages)
  BY <1>2, <1>3 DEF Usages
<1>5. /\ p.price # 0 => total > 0
      /\ Whole(p.price, p.communist_shares, total) /\ \A a \in D : Whole(p.price, p.usages[a], total)
  BY DEF Consumed, WholeParts
<1>6. UsedTotal(t)[i] = Sum(used) /\ \A a \in S : Used(p, a) = used[a]
  <2>1. used = [a \in S |-> Used(p, a)]
    BY DEF Padded, Used
  <2>2. UsedTotal(t)[i] = Sum([a \in S |-> Used(p, a)])
    BY DEF UsedTotal
  <2> HIDE DEF used
  <2> QED
    BY <2>1, <2>2
<1>7. Common(p) = Part(p.price, p.communist_shares, total)
  BY DEF Common
<1> HIDE DEF total, D, S, p
<1>8. /\ used \in [S -> Int] /\ Sum(used) = Sum(Parts(p.price, p.usages, total))
  BY <1>1, <1>2, <1>3, <1>4, <1>5, PartsPadded DEF D
<1>9. /\ Sum(used) \in Int
      /\ total > 0 => total * Sum(used) = p.price * Sum(p.usages)
      /\ total = 0 => Sum(used) = 0
  BY <1>2, <1>3, <1>4, <1>5, <1>8, PartsOf
<1> HIDE DEF used
<1>10. CASE total = 0
  <2>1. Common(p) = 0 /\ p.price = 0
    BY <1>2, <1>5, <1>7, <1>10 DEF Part
  <2> QED
    BY <1>6, <1>8, <1>9, <1>10, <2>1 DEF p, S
<1>11. CASE total > 0
  <2> DEFINE y == p.price * p.communist_shares
  <2>1. y \in Int /\ y % total = 0 /\ Common(p) = y \div total
    BY <1>2, <1>5, <1>7, <1>11 DEF Whole, Part
  <2> HIDE DEF y
  <2>2. Common(p) \in Int /\ total * Common(p) = y
    BY <1>4, <1>11, <2>1, WholeQuotient
  <2> DEFINE s == Sum(used)
             n == Sum(p.usages)
             q == Common(p)
             z == p.price
             c == p.communist_shares
  <2>3. s \in Int /\ n \in Nat /\ q \in Int /\ z \in Int /\ c \in Nat
    BY <1>2, <1>3, <1>9, <2>2
  <2>4. total * s = z * n /\ total * q = z * c
    BY <1>9, <1>11, <2>2 DEF y
  <2>5. total = c + n
    BY <1>4
  <2>6. UsedTotal(t)[i] = s
    BY <1>6
  <2> HIDE DEF s, n, q, z, c
  <2>7. total * (s + q) = total * s + total * q
    BY <1>4, <2>3
  <2>8. z * n + z * c = total * z
    BY <2>3, <2>5
  <2>9. total * (s + q) = total * z
    BY <2>4, <2>7, <2>8
  <2>10. s + q = z
    BY <1>4, <1>11, <2>3, <2>9, Cancel
  <2> QED
    BY <1>6, <1>8, <2>3, <2>6, <2>10 DEF s, q, z, p, S
<1> QED
  BY <1>4, <1>10, <1>11

\* What the positions take is what is not left to share.
LEMMA PositionsAddUp ==
    ASSUME NEW t, IsTransaction(t), Consumed(t), WholeParts(t)
    PROVE  /\ Positions(t) \in [Involved(t) -> Int] /\ Sum(Positions(t)) \in Int
           /\ Remaining(t) \in Int /\ Remaining(t) = t.value - Sum(Positions(t))
<1> DEFINE S == Alive(t)
           T == Involved(t)
           F == [i \in S |-> [a \in T |-> Used(t.positions[i], a)]]
           used == UsedTotal(t)
           left == [i \in S |-> Common(t.positions[i]) - t.positions[i].price]
<1>1. IsFiniteSet(S) /\ IsFiniteSet(T)
  BY EffectIs
<1>2. \A i \in S : /\ \A a \in T : Used(t.positions[i], a) \in Int
                   /\ Common(t.positions[i]) \in Int /\ t.positions[i].price \in Int
                   /\ used[i] \in Int /\ used[i] + Common(t.positions[i]) = t.positions[i].price
  BY PositionAddsUp
<1>3. F \in [S -> [T -> Int]]
  BY <1>2
<1>4. used = [i \in S |-> Sum(F[i])]
  BY DEF UsedTotal
<1>5. Positions(t) = [a \in T |-> Sum([i \in S |-> F[i][a]])]
  <2>1. \A a \in T : [i \in S |-> F[i][a]] = [i \in S |-> Used(t.positions[i], a)]
    OBVIOUS
  <2> QED
    BY <2>1 DEF Positions
<1>6. \A a \in T : [i \in S |-> F[i][a]] \in [S -> Int]
  BY <1>3
<1>7. left \in [S -> Int] /\ used \in [S -> Int]
  <2>1. left \in [S -> Int]
    <3> SUFFICES ASSUME NEW i \in S PROVE Common(t.positions[i]) - t.positions[i].price \in Int
      OBVIOUS
    <3> QED
      BY <1>2
  <2>2. used = [i \in S |-> used[i]]
    BY DEF UsedTotal
  <2> HIDE DEF used
  <2>3. used \in [S -> Int]
    BY <1>2, <2>2
  <2> QED
    BY <2>1, <2>3
<1>8. [i \in S |-> left[i] + used[i]] = [i \in S |-> 0]
  BY <1>2
<1>9. Remaining(t) = t.value + Sum(left)
  BY DEF Remaining
<1> HIDE DEF S, T, F, used, left
<1>10. Positions(t) \in [T -> Int]
  BY <1>1, <1>5, <1>6, SumInt
<1>11. Sum(used) = Sum(Positions(t))
  BY <1>1, <1>3, <1>4, <1>5, SumSwap
<1>12. Sum(left) \in Int /\ Sum(used) \in Int
  BY <1>1, <1>7, SumInt
<1>13. Sum(left) + Sum(used) = 0
  <2>1. Sum([i \in S |-> left[i] + used[i]]) = Sum(left) + Sum(used)
    BY <1>1, <1>7, SumPlus
  <2>2. Sum([i \in S |-> left[i] + used[i]]) = 0
    BY <1>1, <1>8, SumZero
  <2> QED
    BY <2>1, <2>2
<1>14. t.value \in Int
  BY DEF IsTransaction
<1> QED
  BY <1>9, <1>10, <1>11, <1>12, <1>13, <1>14 DEF T

\* The effect of a transaction adds up to zero.
LEMMA EffectAddsUp ==
    ASSUME NEW t, IsTransaction(t), Consumed(t), WholeParts(t)
    PROVE  /\ [a \in Involved(t) |-> computeTransactionBalanceEffect(t)[a].total] \in [Involved(t) -> Int]
           /\ Sum([a \in Involved(t) |-> computeTransactionBalanceEffect(t)[a].total]) = 0
<1> DEFINE T == Involved(t)
           credit == Credit(t)
           debit == Debit(t)
           pos == Positions(t)
           rest == [a \in T |-> credit[a] - pos[a]]
           all == [a \in T |-> computeTransactionBalanceEffect(t)[a].total]
<1>1. IsFiniteSet(T) /\ DOMAIN t.creditor_shares \in SUBSET T /\ DOMAIN t.debitor_shares \in SUBSET T
  BY EffectIs
<1>2. pos \in [T -> Int] /\ Sum(pos) \in Int /\ Remaining(t) \in Int /\ Remaining(t) = t.value - Sum(pos)
  BY PositionsAddUp
<1>3. /\ t.value \in Int /\ IsShares(t.creditor_shares) /\ IsShares(t.debitor_shares)
  BY DEF IsTransaction
<1>4. credit \in [T -> Int] /\ Sum(credit) = t.value
  <2> DEFINE f == t.creditor_shares
  <2>1. f \in [DOMAIN f -> Nat] /\ IsFiniteSet(DOMAIN f) /\ Sum(f) \in Nat
    BY <1>3, SharesSum
  <2>2. Sum(f) > 0 /\ \A a \in DOMAIN f : Whole(t.value, f[a], Sum(f))
    BY DEF Consumed, WholeParts
  <2>3. credit = Padded(t.value, f, Sum(f), T)
    BY DEF Credit, Padded
  <2>4. DOMAIN f \in SUBSET T
    BY <1>1
  <2> HIDE DEF f, credit, T
  <2>5. credit \in [T -> Int] /\ Sum(credit) = Sum(Parts(t.value, f, Sum(f)))
    BY <1>1, <1>3, <2>1, <2>2, <2>3, <2>4, PartsPadded
  <2>6. Sum(Parts(t.value, f, Sum(f))) = t.value
    BY <1>3, <2>1, <2>2, PartsAddUp
  <2> QED
    BY <2>5, <2>6
<1>5. debit \in [T -> Int] /\ Sum(debit) = Remaining(t)
  <2> DEFINE f == t.debitor_shares
             r == Remaining(t)
  <2>1. f \in [DOMAIN f -> Nat] /\ IsFiniteSet(DOMAIN f) /\ Sum(f) \in Nat
    BY <1>3, SharesSum
  <2>2. (r # 0 => Sum(f) > 0) /\ \A a \in DOMAIN f : Whole(r, f[a], Sum(f))
    BY DEF Consumed, WholeParts
  <2>3. debit = Padded(r, f, Sum(f), T)
    BY DEF Debit, Padded
  <2>4. DOMAIN f \in SUBSET T /\ r \in Int
    BY <1>1, <1>2
  <2> HIDE DEF f, debit, T, r
  <2>5. debit \in [T -> Int] /\ Sum(debit) = Sum(Parts(r, f, Sum(f)))
    BY <1>1, <2>1, <2>2, <2>3, <2>4, PartsPadded
  <2>6. Sum(Parts(r, f, Sum(f))) = r
    BY <2>1, <2>2, <2>4, PartsAddUp
  <2> QED
    BY <2>5, <2>6 DEF r
<1>6. rest \in [T -> Int]
  BY <1>2, <1>4
<1>7. all = [a \in T |-> rest[a] - debit[a]]
  BY EffectIs
<1> HIDE DEF T, credit, debit, pos
<1>8. Sum(rest) = Sum(credit) - Sum(pos)
  BY <1>1, <1>2, <1>4, SumMinus
<1> HIDE DEF rest, all
<1>9. all \in [T -> Int]
  BY <1>5, <1>6, <1>7
<1>10. Sum(all) = Sum(rest) - Sum(debit)
  BY <1>1, <1>5, <1>6, <1>7, SumMinus
<1>11. Sum(all) = 0
  BY <1>2, <1>3, <1>4, <1>5, <1>8, <1>10
<1> QED
  BY <1>9, <1>11 DEF all, T

-----------------------------------------------------------------------------
(* Balances, before and after a clearing account is emptied. *)

\* Every account has a balance, and their sum.
HasBalances(b) == DOMAIN b = Accounts /\ \A a \in Accounts : "balance" \in DOMAIN b[a] /\ b[a].balance \in Int
Amounts(b) == [a \in Accounts |-> b[a].balance]

\* Transactions, and those that are consumed and shared without a remainder.
AreTransactions(ts) == IsFiniteSet(DOMAIN ts) /\ \A i \in DOMAIN ts : IsTransaction(ts[i])
Sound(ts) == AreTransactions(ts) /\ \A i \in DOMAIN ts : Consumed(ts[i]) /\ WholeParts(ts[i])

\* What a transaction changes, for every account.
Change(t) == [a \in Accounts |-> IF a \in Involved(t) THEN computeTransactionBalanceEffect(t)[a].total ELSE 0]

\* It is an integer.
LEMMA ChangeType ==
    ASSUME NEW t, IsTransaction(t)
    PROVE  Change(t) \in [Accounts -> Int]
  BY EffectType DEF Change

\* It adds up to zero over all accounts too.
LEMMA ChangeAddsUp ==
    ASSUME NEW t, IsTransaction(t), Consumed(t), WholeParts(t)
    PROVE  Change(t) \in [Accounts -> Int] /\ Sum(Change(t)) = 0
<1> DEFINE T == Involved(t)
           all == [a \in T |-> computeTransactionBalanceEffect(t)[a].total]
<1>1. all \in [T -> Int] /\ Sum(all) = 0
  BY EffectAddsUp
<1>2. T \in SUBSET Accounts /\ IsFiniteSet(Accounts)
  BY EffectIs, BalanceBounds
<1>3. Change(t) = [a \in Accounts |-> IF a \in T THEN all[a] ELSE 0]
  BY DEF Change
<1> HIDE DEF T, all
<1>4. Sum([a \in Accounts |-> IF a \in T THEN all[a] ELSE 0]) = Sum(all)
  BY <1>1, <1>2, SumPadded
<1> QED
  BY <1>1, <1>3, <1>4

\* The balance of an account is the sum of the changes.
LEMMA BeforeClearingIs ==
    ASSUME NEW ts, AreTransactions(ts)
    PROVE  /\ HasBalances(BeforeClearing(ts))
           /\ \A a \in Accounts : BeforeClearing(ts)[a].balance = Sum([i \in DOMAIN ts |-> Change(ts[i])[a]])
<1> DEFINE b == BeforeClearing(ts)
           S == DOMAIN ts
           effects == Map(computeTransactionBalanceEffect, ts)
<1>1. effects = [i \in S |-> computeTransactionBalanceEffect(ts[i])]
  BY ComputedIs DEF Map
<1>2. /\ DOMAIN b = Accounts
      /\ \A a \in Accounts : /\ "balance" \in DOMAIN b[a]
                             /\ b[a].balance = Sum([i \in {j \in S : a \in DOMAIN effects[j]} |-> effects[i][a].total])
  BY DEF BeforeClearing
<1> HIDE DEF b, effects
<1>3. ASSUME NEW a \in Accounts
      PROVE  b[a].balance \in Int /\ b[a].balance = Sum([i \in S |-> Change(ts[i])[a]])
  <2> DEFINE T == {j \in S : a \in DOMAIN effects[j]}
             g == [i \in T |-> effects[i][a].total]
  <2>1. T \in SUBSET S /\ IsFiniteSet(S) /\ \A i \in S : i \in T <=> a \in Involved(ts[i])
    BY <1>1 DEF AreTransactions, Involved
  <2>2. \A i \in T : g[i] = Change(ts[i])[a] /\ Change(ts[i])[a] \in Int
    <3> SUFFICES ASSUME NEW i \in T PROVE effects[i][a].total = Change(ts[i])[a] /\ Change(ts[i])[a] \in Int
      OBVIOUS
    <3>1. Change(ts[i]) \in [Accounts -> Int]
      BY ChangeType DEF AreTransactions
    <3>2. a \in Involved(ts[i])
      BY <2>1
    <3>3. Change(ts[i])[a] = computeTransactionBalanceEffect(ts[i])[a].total
      BY <3>2 DEF Change
    <3>4. effects[i] = computeTransactionBalanceEffect(ts[i])
      BY <1>1
    <3> QED
      BY <3>1, <3>3, <3>4
  <2>3. g \in [T -> Int]
    BY <2>2
  <2>4. [i \in S |-> Change(ts[i])[a]] = [i \in S |-> IF i \in T THEN g[i] ELSE 0]
    <3> SUFFICES ASSUME NEW i \in S PROVE Change(ts[i])[a] = IF i \in T THEN g[i] ELSE 0
      OBVIOUS
    <3>1. CASE i \in T
      BY <2>2, <3>1
    <3>2. CASE i \notin T
      <4>1. a \notin Involved(ts[i])
        BY <2>1, <3>2
      <4> HIDE DEF T, g
      <4> QED
        BY <3>2, <4>1 DEF Change
    <3> QED
      BY <3>1, <3>2
  <2>5. b[a].balance = Sum(g)
    BY <1>2
  <2> HIDE DEF T, g
  <2>6. Sum([i \in S |-> IF i \in T THEN g[i] ELSE 0]) = Sum(g)
    BY <2>1, <2>3, SumPadded
  <2>7. IsFiniteSet(T)
    BY <2>1, FS_Subset
  <2>8. Sum(g) \in Int
    BY <2>3, <2>7, SumInt
  <2> QED
    BY <2>4, <2>5, <2>6, <2>8
<1> QED
  BY <1>2, <1>3 DEF HasBalances, b

\* Transactions alone leave balances that add up to zero.
LEMMA BeforeClearingAddsUp ==
    ASSUME NEW ts, Sound(ts)
    PROVE  Sum(Amounts(BeforeClearing(ts))) = 0
<1> DEFINE S == DOMAIN ts
           F == [i \in S |-> Change(ts[i])]
<1>1. IsFiniteSet(S) /\ IsFiniteSet(Accounts)
  BY BalanceBounds DEF Sound, AreTransactions
<1>2. \A i \in S : Change(ts[i]) \in [Accounts -> Int] /\ Sum(Change(ts[i])) = 0
  BY ChangeAddsUp DEF Sound, AreTransactions
<1>3. F \in [S -> [Accounts -> Int]]
  BY <1>2
<1>4. [i \in S |-> Sum(F[i])] = [i \in S |-> 0]
  BY <1>2
<1>5. Amounts(BeforeClearing(ts)) = [a \in Accounts |-> Sum([i \in S |-> F[i][a]])]
  <2>1. ASSUME NEW a \in Accounts PROVE BeforeClearing(ts)[a].balance = Sum([i \in S |-> F[i][a]])
    <3>1. [i \in S |-> F[i][a]] = [i \in S |-> Change(ts[i])[a]]
      OBVIOUS
    <3> QED
      BY <3>1, BeforeClearingIs DEF Sound
  <2> QED
    BY <2>1 DEF Amounts
<1> HIDE DEF S, F
<1>6. Sum([i \in S |-> Sum(F[i])]) = Sum([a \in Accounts |-> Sum([i \in S |-> F[i][a]])])
  BY <1>1, <1>3, SumSwap
<1>7. Sum([i \in S |-> Sum(F[i])]) = 0
  BY <1>1, <1>4, SumZero
<1> QED
  BY <1>5, <1>6, <1>7

\* The shares of a clearing account that has some are more than zero.
LEMMA SharesPositive ==
    ASSUME NEW sh, IsClearing(sh), NEW c \in Sharing(sh)
    PROVE  /\ c \in Clearing /\ c \in Accounts /\ IsShares(sh[c]) /\ c \notin DOMAIN sh[c]
           /\ Sum(sh[c]) \in Nat /\ Sum(sh[c]) > 0
<1> DEFINE f == sh[c]
           D == DOMAIN f
<1>1. c \in Clearing /\ c \in Accounts /\ IsShares(f) /\ D # {} /\ c \notin D /\ \A a \in D : f[a] > 0
  BY DEF Sharing, IsClearing, Accounts
<1>2. f \in [D -> Nat] /\ IsFiniteSet(D)
  BY <1>1, SharesSum
<1>3. PICK a \in D : TRUE
  BY <1>1
<1> HIDE DEF f, D
<1>4. Sum(f) \in Nat /\ f[a] <= Sum(f) /\ f[a] \in Nat /\ f[a] > 0
  BY <1>1, <1>2, <1>3, SumNat
<1>5. Sum(f) > 0
  BY <1>4
<1> QED
  BY <1>1, <1>4, <1>5 DEF f, D

\* An account that is emptied leaves balances, with a remainder or without.
LEMMA DistributeType ==
    ASSUME NEW sh, IsClearing(sh), NEW c \in Sharing(sh), NEW b, HasBalances(b)
    PROVE  HasBalances(Distribute(sh, b, c))
<1> DEFINE n == Distribute(sh, b, c)
           share(a) == (b[c].balance * At(sh[c], a)) \div Sum(sh[c])
<1>1. c \in Accounts /\ IsShares(sh[c]) /\ Sum(sh[c]) \in Nat /\ Sum(sh[c]) > 0
  BY SharesPositive
<1>2. ASSUME NEW a PROVE share(a) \in Int
  <2> DEFINE x == b[c].balance * At(sh[c], a)
  <2>1. At(sh[c], a) \in Nat /\ b[c].balance \in Int
    BY <1>1, SharesSum DEF At, HasBalances
  <2>2. x \in Int
    BY <2>1
  <2> HIDE DEF x
  <2>3. x \div Sum(sh[c]) \in Int
    BY <1>1, <2>2, WholeQuotient
  <2> QED
    BY <2>3 DEF x
<1>3. /\ DOMAIN n = Accounts
      /\ \A a \in Accounts :
           /\ "balance" \in DOMAIN n[a]
           /\ n[a].balance = IF a = c THEN 0 ELSE IF a \in DOMAIN sh[c] THEN b[a].balance + share(a) ELSE b[a].balance
  BY <1>1 DEF Distribute, HasBalances
<1> HIDE DEF n, share
<1> QED
  BY <1>2, <1>3 DEF HasBalances, n

\* The shares of clearing account c divide its balance without a remainder.
DividesAt(sh, b, c) == \A a \in DOMAIN sh[c] : Whole(b[c].balance, sh[c][a], Sum(sh[c]))

\* An account that is emptied passes on what it had, no more and no less.
LEMMA DistributeAddsUp ==
    ASSUME NEW sh, IsClearing(sh), NEW c \in Sharing(sh), NEW b, HasBalances(b), DividesAt(sh, b, c)
    PROVE  HasBalances(Distribute(sh, b, c)) /\ Sum(Amounts(Distribute(sh, b, c))) = Sum(Amounts(b))
<1> DEFINE f == sh[c]
           D == DOMAIN f
           total == Sum(f)
           amount == b[c].balance
           share(a) == (amount * At(f, a)) \div total
           n == Distribute(sh, b, c)
           part == Parts(amount, f, total)
           pad == [a \in Accounts |-> IF a \in D THEN part[a] ELSE 0]
           zero == [a \in Accounts |-> IF a = c THEN 0 ELSE b[a].balance]
<1>1. c \in Clearing /\ c \in Accounts /\ IsShares(f) /\ c \notin D /\ D \in SUBSET Accounts
  BY SharesPositive DEF IsShares
<1>3. f \in [D -> Nat] /\ IsFiniteSet(D) /\ total \in Nat /\ IsFiniteSet(Accounts)
  BY <1>1, SharesSum, BalanceBounds
<1>4. total > 0
  BY SharesPositive
<1>5. amount \in Int /\ \A a \in D : Whole(amount, f[a], total)
  BY <1>1 DEF HasBalances, DividesAt
<1>6. part \in [D -> Int] /\ Sum(part) = amount
  <2> HIDE DEF f, total, amount, D
  <2>1. part \in [D -> Int]
    BY <1>3, <1>5, PartsOf DEF D
  <2>2. Sum(part) = amount
    BY <1>3, <1>4, <1>5, PartsAddUp DEF total, D
  <2> QED
    BY <2>1, <2>2
<1>7. \A a \in D : share(a) = part[a]
  BY <1>4 DEF Parts, Part, At
<1>8. /\ DOMAIN n = Accounts
      /\ \A a \in Accounts :
           /\ "balance" \in DOMAIN n[a]
           /\ n[a].balance = IF a = c THEN 0 ELSE IF a \in D THEN b[a].balance + share(a) ELSE b[a].balance
  BY <1>1 DEF Distribute, HasBalances
<1> HIDE DEF n, share, part, total, amount, D, f
<1>9. \A a \in Accounts : n[a].balance = zero[a] + pad[a] /\ zero[a] \in Int /\ pad[a] \in Int
  BY <1>1, <1>6, <1>7, <1>8 DEF HasBalances
<1>10. zero \in [Accounts -> Int] /\ pad \in [Accounts -> Int] /\ Amounts(b) \in [Accounts -> Int]
  BY <1>9 DEF HasBalances, Amounts
<1>11. HasBalances(n)
  BY <1>8, <1>9 DEF HasBalances
<1>12. Amounts(n) = [a \in Accounts |-> zero[a] + pad[a]]
  BY <1>9 DEF Amounts
<1>13. [a \in Accounts \ {c} |-> zero[a]] = [a \in Accounts \ {c} |-> Amounts(b)[a]]
  BY DEF Amounts
<1>14. zero[c] = 0 /\ Amounts(b)[c] = amount
  BY <1>1 DEF Amounts, amount
<1>15. Sum(pad) = amount
  BY <1>1, <1>3, <1>6, SumPadded
<1> HIDE DEF zero, pad
<1>16. Sum(Amounts(n)) = Sum(zero) + Sum(pad)
  BY <1>3, <1>10, <1>12, SumPlus
<1>17. Sum(zero) = 0 + Sum([a \in Accounts \ {c} |-> zero[a]])
  BY <1>1, <1>3, <1>10, <1>14, SumElement
<1>18. Sum(Amounts(b)) = amount + Sum([a \in Accounts \ {c} |-> zero[a]])
  BY <1>1, <1>3, <1>10, <1>13, <1>14, SumElement
<1>19. Sum(zero) \in Int /\ Sum(Amounts(b)) \in Int
  BY <1>3, <1>10, SumInt
<1>20. Sum([a \in Accounts \ {c} |-> zero[a]]) \in Int
  <2>1. [a \in Accounts \ {c} |-> zero[a]] \in [Accounts \ {c} -> Int] /\ IsFiniteSet(Accounts \ {c})
    BY <1>3, <1>10, FS_RemoveElement
  <2> QED
    BY <2>1, SumInt
<1>21. Sum(Amounts(n)) = Sum(Amounts(b))
  BY <1>5, <1>15, <1>16, <1>17, <1>18, <1>19, <1>20
<1> QED
  BY <1>11, <1>21 DEF n

-----------------------------------------------------------------------------
(* The clearing accounts are emptied one after the other. *)

\* The stages of emptying them in some order.
Stage(sh, order, start, g, k) == IF k = 0 THEN start ELSE Distribute(sh, g[k - 1], order[k])

\* The balances after every round are those that the round makes of the ones before.
LEMMA EmptiedIs ==
    ASSUME NEW ts, NEW sh, Len(Sorting(sh)) \in Nat
    PROVE  \A k \in 0 .. Len(Sorting(sh)) :
              Emptied(ts, sh)[k] = Stage(sh, Sorting(sh), BeforeClearing(ts), Emptied(ts, sh), k)
<1> DEFINE order == Sorting(sh)
           n == Len(order)
           start == BeforeClearing(ts)
           S(g, m) == [k \in 0 .. m |-> Stage(sh, order, start, g, k)]
           Q == {m \in Nat : \E g : g = S(g, m)}
           E == Emptied(ts, sh)
<1>1. E = CHOOSE g : g = [k \in 0 .. n |-> IF k = 0 THEN start
                                          ELSE CHOOSE v \in {Distribute(sh, x, order[k]) : x \in {g[k - 1]}} : TRUE]
  BY DEF Emptied, Rounds
<1>2. \A g : [k \in 0 .. n |-> IF k = 0 THEN start
                              ELSE CHOOSE v \in {Distribute(sh, x, order[k]) : x \in {g[k - 1]}} : TRUE] = S(g, n)
  <2>1. \A x, k : (CHOOSE v \in {Distribute(sh, y, order[k]) : y \in {x}} : TRUE) = Distribute(sh, x, order[k])
    OBVIOUS
  <2> QED
    BY <2>1 DEF Stage
<1> HIDE DEF order, start, E
<1>3. E = CHOOSE g : g = S(g, n)
  BY <1>1, <1>2
<1>4. 0 \in Q
  <2> DEFINE g == [k \in 0 .. 0 |-> start]
  <2>1. g = S(g, 0)
    BY DEF Stage
  <2> QED
    BY <2>1
<1>5. ASSUME NEW m \in Nat, m \in Q PROVE m + 1 \in Q
  <2>1. PICK g : g = S(g, m)
    BY <1>5
  <2> DEFINE h == [k \in 0 .. m + 1 |-> IF k <= m THEN g[k] ELSE Distribute(sh, g[m], order[m + 1])]
  <2>2. ASSUME NEW k \in 0 .. m + 1 PROVE h[k] = Stage(sh, order, start, h, k)
    <3>1. CASE k = 0
      BY <2>1, <3>1 DEF Stage
    <3>2. CASE k \in 1 .. m
      <4>1. h[k] = g[k] /\ h[k - 1] = g[k - 1] /\ k # 0 /\ k \in 0 .. m
        BY <3>2
      <4>2. g[k] = Stage(sh, order, start, g, k)
        BY <2>1, <4>1
      <4> HIDE DEF h
      <4> QED
        BY <4>1, <4>2 DEF Stage
    <3>3. CASE k = m + 1
      <4>1. h[k] = Distribute(sh, g[m], order[k]) /\ h[k - 1] = g[m] /\ k # 0
        BY <3>3
      <4> HIDE DEF h
      <4> QED
        BY <4>1 DEF Stage
    <3> QED
      BY <3>1, <3>2, <3>3
  <2>3. h = S(h, m + 1)
    <3>1. h = [k \in 0 .. m + 1 |-> h[k]]
      OBVIOUS
    <3> HIDE DEF h
    <3> QED
      BY <2>2, <3>1
  <2> HIDE DEF h
  <2> QED
    BY <2>3
<1> HIDE DEF Q
<1>6. n \in Q
  BY <1>4, <1>5, Induction DEF order
<1>7. E = S(E, n)
  BY <1>3, <1>6 DEF Q
<1> QED
  BY <1>7 DEF E, order, start

\* The state of the search for the order of the clearing accounts.
Search(sh, start, g, k) == IF k = 0 THEN start ELSE Linearize(sh, g[k - 1])

SearchStart(sh) ==
    [zero |-> Ordered({c \in Sharing(sh) : InDegree(sh)[c] = 0}), degree |-> InDegree(sh), sorting |-> <<>>]
Searches(sh) == Rounds(LAMBDA search, k : Linearize(sh, search), SearchStart(sh), Cardinality(Accounts))

\* The order is what the rounds of the search have found in the end.
LEMMA SearchIs ==
    ASSUME NEW sh
    PROVE  /\ Sorting(sh) = Searches(sh)[Cardinality(Accounts)].sorting /\ Cardinality(Accounts) \in Nat
           /\ Searches(sh)[0] = SearchStart(sh)
           /\ \A k \in 1 .. Cardinality(Accounts) : Searches(sh)[k] = Linearize(sh, Searches(sh)[k - 1])
<1> DEFINE n == Cardinality(Accounts)
           start == SearchStart(sh)
           S(g, m) == [k \in 0 .. m |-> Search(sh, start, g, k)]
           Q == {m \in Nat : \E g : g = S(g, m)}
           E == Rounds(LAMBDA search, k : Linearize(sh, search), start, n)
<1>0. Sorting(sh) = E[n].sorting /\ n \in Nat
  BY ComputedIs, BalanceBounds, FS_CardinalityType DEF Sorting, SearchStart
<1> HIDE DEF start
<1>1. E = CHOOSE g : g = [k \in 0 .. n |-> IF k = 0 THEN start
                                          ELSE CHOOSE v \in {Linearize(sh, x) : x \in {g[k - 1]}} : TRUE]
  BY DEF Rounds
<1>2. \A g : [k \in 0 .. n |-> IF k = 0 THEN start
                              ELSE CHOOSE v \in {Linearize(sh, x) : x \in {g[k - 1]}} : TRUE] = S(g, n)
  <2>1. \A x : (CHOOSE v \in {Linearize(sh, y) : y \in {x}} : TRUE) = Linearize(sh, x)
    OBVIOUS
  <2> QED
    BY <2>1 DEF Search
<1> HIDE DEF E
<1>3. E = CHOOSE g : g = S(g, n)
  BY <1>1, <1>2
<1>4. 0 \in Q
  <2> DEFINE g == [k \in 0 .. 0 |-> start]
  <2>1. g = S(g, 0)
    BY DEF Search
  <2> QED
    BY <2>1
<1>5. ASSUME NEW m \in Nat, m \in Q PROVE m + 1 \in Q
  <2>1. PICK g : g = S(g, m)
    BY <1>5
  <2> DEFINE h == [k \in 0 .. m + 1 |-> IF k <= m THEN g[k] ELSE Linearize(sh, g[m])]
  <2>2. ASSUME NEW k \in 0 .. m + 1 PROVE h[k] = Search(sh, start, h, k)
    <3>1. CASE k = 0
      BY <2>1, <3>1 DEF Search
    <3>2. CASE k \in 1 .. m
      <4>1. h[k] = g[k] /\ h[k - 1] = g[k - 1] /\ k # 0 /\ k \in 0 .. m
        BY <3>2
      <4>2. g[k] = Search(sh, start, g, k)
        BY <2>1, <4>1
      <4> HIDE DEF h
      <4> QED
        BY <4>1, <4>2 DEF Search
    <3>3. CASE k = m + 1
      <4>1. h[k] = Linearize(sh, g[m]) /\ h[k - 1] = g[m] /\ k # 0
        BY <3>3
      <4> HIDE DEF h
      <4> QED
        BY <4>1 DEF Search
    <3> QED
      BY <3>1, <3>2, <3>3
  <2>3. h = S(h, m + 1)
    <3>1. h = [k \in 0 .. m + 1 |-> h[k]]
      OBVIOUS
    <3> HIDE DEF h
    <3> QED
      BY <2>2, <3>1
  <2> HIDE DEF h
  <2> QED
    BY <2>3
<1> HIDE DEF Q
<1>6. n \in Q
  BY <1>0, <1>4, <1>5, Induction
<1>7. E = S(E, n)
  BY <1>3, <1>6 DEF Q
<1>8. E[0] = start
  BY <1>0, <1>7 DEF Search
<1>9. ASSUME NEW k \in 1 .. n PROVE E[k] = Linearize(sh, E[k - 1])
  <2>1. k \in 0 .. n /\ k # 0
    BY <1>0
  <2>2. E[k] = Search(sh, start, E, k)
    BY <1>7, <2>1
  <2> QED
    BY <2>1, <2>2 DEF Search
<1>10. E = Searches(sh)
  BY ONLY DEF E, start, n, Searches
<1> HIDE DEF start, n
<1>11. Sorting(sh) = Searches(sh)[n].sorting /\ Searches(sh)[0] = start
  BY <1>0, <1>8, <1>10
<1>12. \A k \in 1 .. n : Searches(sh)[k] = Linearize(sh, Searches(sh)[k - 1])
  BY <1>9, <1>10
<1> QED
  BY <1>0, <1>11, <1>12 DEF start, n

\* Whatever is left to search, only clearing accounts with shares are put in order.
LEMMA SortingIs ==
    ASSUME NEW sh
    PROVE  Sorting(sh) \in Seq(Sharing(sh))
<1> DEFINE n == Cardinality(Accounts)
           E == Searches(sh)
           P == {m \in Nat : m <= n => E[m].sorting \in Seq(Sharing(sh))}
<1>1. /\ Sorting(sh) = E[n].sorting /\ n \in Nat /\ E[0] = SearchStart(sh)
      /\ \A k \in 1 .. n : E[k] = Linearize(sh, E[k - 1])
  BY SearchIs
<1> HIDE DEF E
<1>2. 0 \in P
  <2>1. SearchStart(sh).sorting = <<>>
    BY DEF SearchStart
  <2>2. E[0].sorting \in Seq(Sharing(sh))
    BY <1>1, <2>1
  <2> QED
    BY <2>2
<1>3. ASSUME NEW m \in Nat, m \in P PROVE m + 1 \in P
  <2> SUFFICES ASSUME m + 1 <= n PROVE E[m + 1].sorting \in Seq(Sharing(sh))
    OBVIOUS
  <2>1. E[m].sorting \in Seq(Sharing(sh))
    BY <1>1, <1>3
  <2>2. E[m + 1] = Linearize(sh, E[m])
    <3>1. m + 1 \in 1 .. n /\ (m + 1) - 1 = m
      BY <1>1
    <3> QED
      BY <1>1, <3>1
  <2>3. Linearize(sh, E[m]).sorting \in Seq(Sharing(sh))
    <3> DEFINE s == E[m]
               node == Last(s.zero)
    <3>1. \/ Linearize(sh, s) = s
          \/ Linearize(sh, s).sorting = IF node \in Sharing(sh) THEN Append(s.sorting, node) ELSE s.sorting
      BY DEF Linearize
    <3> HIDE DEF s, node
    <3>2. s.sorting \in Seq(Sharing(sh))
      BY <2>1 DEF s
    <3> DEFINE X == Sharing(sh)
               l == Linearize(sh, s)
               order == s.sorting
    <3>3. order \in Seq(X) /\ (l = s \/ l.sorting = IF node \in X THEN Append(order, node) ELSE order)
      BY <3>1, <3>2
    <3>4. l = s => l.sorting = order
      OBVIOUS
    <3> HIDE DEF X, l, order
    <3>5. ASSUME node \in X PROVE Append(order, node) \in Seq(X)
      BY <3>3, <3>5
    <3>6. (IF node \in X THEN Append(order, node) ELSE order) \in Seq(X)
      BY <3>3, <3>5
    <3>7. l.sorting \in Seq(X)
      BY <3>3, <3>4, <3>6
    <3> QED
      BY <3>7 DEF s, l, X
  <2> QED
    BY <2>2, <2>3
<1> HIDE DEF P
<1>4. n \in P
  BY <1>1, <1>2, <1>3, Induction
<1> QED
  BY <1>1, <1>4 DEF P

\* An application has balances, whatever the divisions leave.
LEMMA AccountBalancesType ==
    ASSUME NEW ts, AreTransactions(ts), NEW sh, IsClearing(sh)
    PROVE  HasBalances(computeAccountBalances(ts, sh))
<1> DEFINE E == Emptied(ts, sh)
           order == Sorting(sh)
           n == Len(order)
           P == {m \in Nat : m <= n => HasBalances(E[m])}
<1>1. order \in Seq(Sharing(sh)) /\ n \in Nat /\ \A k \in 1 .. n : order[k] \in Sharing(sh)
  BY SortingIs
<1>2. \A k \in 0 .. n : E[k] = Stage(sh, order, BeforeClearing(ts), E, k)
  BY <1>1, EmptiedIs
<1>3. computeAccountBalances(ts, sh) = E[n]
  BY ComputedIs DEF computeAccountBalances
<1> HIDE DEF E, order
<1>4. 0 \in P
  BY <1>1, <1>2, BeforeClearingIs DEF Stage
<1>5. ASSUME NEW m \in Nat, m \in P PROVE m + 1 \in P
  <2> SUFFICES ASSUME m + 1 <= n PROVE HasBalances(E[m + 1])
    OBVIOUS
  <2>1. m + 1 \in 0 .. n /\ m + 1 \in 1 .. n /\ m + 1 # 0 /\ (m + 1) - 1 = m /\ HasBalances(E[m])
    BY <1>1, <1>5
  <2>2. E[m + 1] = Distribute(sh, E[m], order[m + 1])
    BY <1>2, <2>1 DEF Stage
  <2>3. order[m + 1] \in Sharing(sh)
    BY <1>1, <2>1
  <2> QED
    BY <2>1, <2>2, <2>3, DistributeType
<1> HIDE DEF P
<1>6. n \in P
  BY <1>1, <1>4, <1>5, Induction
<1> QED
  BY <1>1, <1>3, <1>6 DEF P

\* No remainder is left when the clearing accounts are emptied in turn.
DividesInTurn(ts, sh) ==
    \A k \in DOMAIN Sorting(sh) : DividesAt(sh, Emptied(ts, sh)[k - 1], Sorting(sh)[k])

\* The balances of an application add up to zero.
LEMMA AccountBalancesAddUp ==
    ASSUME NEW ts, Sound(ts), NEW sh, IsClearing(sh), DividesInTurn(ts, sh)
    PROVE  /\ HasBalances(computeAccountBalances(ts, sh))
           /\ Sum(Amounts(computeAccountBalances(ts, sh))) = 0
<1> DEFINE E == Emptied(ts, sh)
           order == Sorting(sh)
           n == Len(order)
           Good(b) == HasBalances(b) /\ Sum(Amounts(b)) = 0
           P == {m \in Nat : m <= n => Good(E[m])}
<1>1. order \in Seq(Sharing(sh)) /\ n \in Nat /\ DOMAIN order = 1 .. n
  BY SortingIs
<1>2. \A k \in 0 .. n : E[k] = Stage(sh, order, BeforeClearing(ts), E, k)
  BY <1>1, EmptiedIs
<1>3. \A k \in 1 .. n : order[k] \in Sharing(sh) /\ DividesAt(sh, E[k - 1], order[k])
  BY <1>1 DEF DividesInTurn
<1>4. computeAccountBalances(ts, sh) = E[n]
  BY ComputedIs DEF computeAccountBalances
<1> HIDE DEF E, order
<1>5. 0 \in P
  <2>1. E[0] = BeforeClearing(ts)
    BY <1>1, <1>2 DEF Stage
  <2> QED
    BY <2>1, BeforeClearingIs, BeforeClearingAddsUp DEF Sound
<1>6. ASSUME NEW m \in Nat, m \in P PROVE m + 1 \in P
  <2> SUFFICES ASSUME m + 1 <= n PROVE Good(E[m + 1])
    OBVIOUS
  <2>1. m + 1 \in 0 .. n /\ m + 1 \in 1 .. n /\ m + 1 # 0 /\ (m + 1) - 1 = m /\ Good(E[m])
    BY <1>1, <1>6
  <2>2. E[m + 1] = Distribute(sh, E[m], order[m + 1])
    BY <1>2, <2>1 DEF Stage
  <2>3. order[m + 1] \in Sharing(sh) /\ DividesAt(sh, E[m], order[m + 1])
    BY <1>3, <2>1
  <2> QED
    BY <2>1, <2>2, <2>3, DistributeAddsUp
<1> HIDE DEF P
<1>7. n \in P
  BY <1>1, <1>5, <1>6, Induction
<1> QED
  BY <1>1, <1>4, <1>7 DEF P

-----------------------------------------------------------------------------
(* Sums along a list. *)

\* p gives every element of S one name in T.
Renames(p, T, S) ==
    p \in [T -> S] /\ (\A x, y \in T : p[x] = p[y] => x = y) /\ \A z \in S : \E x \in T : p[x] = z
Composed(f, p) == [x \in DOMAIN p |-> f[p[x]]]

\* The sum does not depend on what its elements are called.
LEMMA SumReindex ==
    ASSUME NEW S, IsFiniteSet(S), NEW f \in [S -> Int], NEW T, IsFiniteSet(T), NEW p, Renames(p, T, S)
    PROVE  Sum(Composed(f, p)) = Sum(f)
<1>a. /\ Sum(f) = Iter(f, S)[S] /\ Iter(f, S)[{}] = 0 /\ \A u \in SUBSET S : Iter(f, S)[u] \in Int
      /\ \A u \in SUBSET S : \A x \in u : f[x] \in Int /\ Iter(f, S)[u] = f[x] + Iter(f, S)[u \ {x}]
  <2> HIDE DEF Iter, Sum, Renames
  <2> QED
    BY ONLY IsFiniteSet(S), f \in [S -> Int], IterGrows
<1> DEFINE image(u) == {p[x] : x \in u}
           F == Iter(f, S)
           h == [u \in SUBSET T |-> F[image(u)]]
           g == Composed(f, p)
<1>0. p \in [T -> S] /\ (\A x, y \in T : p[x] = p[y] => x = y) /\ \A z \in S : \E x \in T : p[x] = z
  BY DEF Renames
<1>1. /\ Sum(f) = F[S] /\ F[{}] = 0 /\ \A u \in SUBSET S : F[u] \in Int
      /\ \A u \in SUBSET S : \A x \in u : f[x] \in Int /\ F[u] = f[x] + F[u \ {x}]
  BY <1>a
<1> HIDE DEF F
<1>2. g \in [T -> Int] /\ \A x \in T : g[x] = f[p[x]]
  BY <1>0 DEF Composed
<1> HIDE DEF g
<1>3. h[{}] = 0
  <2>1. {} \in SUBSET T /\ image({}) = {}
    OBVIOUS
  <2> HIDE DEF image
  <2> QED
    BY <1>1, <2>1
<1>4. ASSUME NEW u \in SUBSET T, NEW x \in u PROVE h[u] = g[x] + h[u \ {x}]
  <2>1. image(u) \in SUBSET S /\ p[x] \in image(u) /\ u \ {x} \in SUBSET T /\ x \in T
    BY <1>0
  <2>2. image(u \ {x}) = image(u) \ {p[x]}
    <3>1. \A z : z \in image(u \ {x}) => z \in image(u) /\ z # p[x]
      BY <1>0
    <3>2. \A z : z \in image(u) /\ z # p[x] => z \in image(u \ {x})
      BY <1>0
    <3> HIDE DEF image
    <3> QED
      BY <3>1, <3>2
  <2> HIDE DEF image
  <2>3. F[image(u)] = f[p[x]] + F[image(u) \ {p[x]}]
    BY <1>1, <2>1
  <2>4. h[u] = F[image(u)] /\ h[u \ {x}] = F[image(u \ {x})] /\ g[x] = f[p[x]]
    BY <1>2, <2>1
  <2> HIDE DEF h
  <2> QED
    BY <2>2, <2>3, <2>4
<1>5. h[T] = F[S]
  <2>1. \A z : z \in image(T) => z \in S
    BY <1>0
  <2>2. \A z : z \in S => z \in image(T)
    BY <1>0
  <2>3. T \in SUBSET T
    OBVIOUS
  <2> HIDE DEF image
  <2>4. image(T) = S
    BY <2>1, <2>2
  <2> QED
    BY <2>3, <2>4
<1> HIDE DEF h
<1>6. Grows(h, g, T)
  BY <1>3, <1>4 DEF Grows
<1>7. Sum(g) = h[T]
  BY <1>2, <1>6, SumUnique
<1> QED
  BY <1>1, <1>5, <1>7 DEF g

\* What the entries of a list weigh together.
Weights(w, s) == [i \in DOMAIN s |-> w[s[i]]]
Weigh(w, s) == Sum(Weights(w, s))
Weighs(w, X) == \A b \in X : w[b] \in Int

\* The places of a list are finite, and its weight is an integer.
LEMMA WeighType ==
    ASSUME NEW X, NEW w, Weighs(w, X), NEW s \in Seq(X)
    PROVE  /\ IsFiniteSet(DOMAIN s) /\ DOMAIN s = 1 .. Len(s) /\ Len(s) \in Nat
           /\ Weights(w, s) \in [DOMAIN s -> Int] /\ Weigh(w, s) \in Int
<1>1. Len(s) \in Nat /\ DOMAIN s = 1 .. Len(s)
  OBVIOUS
<1>2. IsFiniteSet(DOMAIN s)
  BY <1>1, FS_Interval
<1>3. Weights(w, s) \in [DOMAIN s -> Int]
  BY DEF Weights, Weighs
<1> QED
  BY <1>1, <1>2, <1>3, SumInt DEF Weigh

\* An empty list weighs nothing.
LEMMA WeighEmpty ==
    ASSUME NEW w PROVE Weigh(w, <<>>) = 0
<1>1. DOMAIN Weights(w, <<>>) = {}
  BY DEF Weights
<1> QED
  BY <1>1, SumEmpty DEF Weigh

\* One entry of a list is taken out.
LEMMA WeighRemove ==
    ASSUME NEW X, NEW w, Weighs(w, X), NEW s \in Seq(X), NEW k \in 1 .. Len(s)
    PROVE  /\ RemoveAt(s, k) \in Seq(X) /\ Len(RemoveAt(s, k)) = Len(s) - 1
           /\ Weigh(w, s) = w[s[k]] + Weigh(w, RemoveAt(s, k))
<1> DEFINE n == Len(s)
           q == RemoveAt(s, k)
           S == 1 .. n
           U == S \ {k}
           T == 1 .. n - 1
           p == [j \in T |-> IF j < k THEN j ELSE j + 1]
           f == Weights(w, s)
           g == [i \in U |-> f[i]]
<1>1. n \in Nat /\ DOMAIN s = S /\ IsFiniteSet(S) /\ f \in [S -> Int]
  BY WeighType
<1>2. q \in Seq(X) /\ Len(q) = n - 1 /\ \A j \in T : q[j] = IF j < k THEN s[j] ELSE s[j + 1]
  <2> DEFINE a == SubSeq(s, 1, k - 1)
             b == SubSeq(s, k + 1, n)
  <2>1. a \in Seq(X) /\ Len(a) = k - 1 /\ \A j \in 1 .. k - 1 : a[j] = s[j]
    BY <1>1
  <2>2. b \in Seq(X) /\ Len(b) = n - k /\ \A j \in 1 .. n - k : b[j] = s[j + k]
    <3>1. k + 1 \in Int /\ n \in Int /\ \A i \in k + 1 .. n : s[i] \in X
      BY <1>1
    <3>2. /\ b \in Seq(X) /\ Len(b) = IF k + 1 <= n THEN n - (k + 1) + 1 ELSE 0
          /\ \A i \in 1 .. n - (k + 1) + 1 : b[i] = s[(k + 1) + i - 1]
      BY <3>1, SubSeqProperties
    <3>3. n - (k + 1) + 1 = n - k /\ \A i \in 1 .. n - k : (k + 1) + i - 1 = i + k
      BY <1>1
    <3> HIDE DEF b
    <3>4. Len(b) = n - k
      <4>1. CASE k + 1 <= n
        <5>1. Len(b) = n - (k + 1) + 1
          BY <3>2, <4>1
        <5> QED
          BY <3>3, <5>1
      <4>2. CASE k = n
        <5>1. k \in Nat /\ ~(k + 1 <= n) /\ n - k = 0
          BY <1>1, <4>2
        <5>2. Len(b) = 0
          BY <3>2, <5>1
        <5> QED
          BY <5>1, <5>2
      <4>3. k \in Int /\ n \in Int /\ k <= n
        OBVIOUS
      <4>4. k + 1 <= n \/ k = n
        BY <4>3
      <4> QED
        BY <4>1, <4>2, <4>4
    <3> QED
      BY <3>2, <3>3, <3>4
  <2>3. q = a \o b
    BY DEF RemoveAt
  <2> HIDE DEF a, b, q
  <2>4. q \in Seq(X) /\ Len(q) = n - 1
    <3>1. a \o b \in Seq(X) /\ Len(a \o b) = Len(a) + Len(b)
      BY <2>1, <2>2, ConcatProperties
    <3> QED
      BY <1>1, <2>1, <2>2, <2>3, <3>1
  <2>5. ASSUME NEW j \in T, j < k PROVE q[j] = s[j]
    BY <1>1, <2>1, <2>2, <2>3, <2>5
  <2>6. ASSUME NEW j \in T, ~(j < k) PROVE q[j] = s[j + 1]
    <3>1. q[j] = b[j - (k - 1)]
      BY <1>1, <2>1, <2>2, <2>3, <2>6
    <3>2. j - (k - 1) \in 1 .. n - k /\ (j - (k - 1)) + k = j + 1
      BY <1>1, <2>6
    <3>3. b[j - (k - 1)] = s[j + 1]
      BY <2>2, <3>2
    <3> QED
      BY <3>1, <3>3
  <2> QED
    BY <2>4, <2>5, <2>6
<1>3. DOMAIN q = T
  BY <1>1, <1>2
<1>4. \A j \in T : p[j] \in U /\ q[j] = s[p[j]]
  BY <1>1, <1>2
<1>5. Renames(p, T, U)
  <2>1. p \in [T -> U]
    BY <1>4
  <2>2. \A x, y \in T : p[x] = p[y] => x = y
    BY <1>1
  <2>3. ASSUME NEW z \in U PROVE \E x \in T : p[x] = z
    <3>1. CASE z < k
      <4>1. z \in T /\ p[z] = z
        BY <1>1, <3>1
      <4> QED
        BY <4>1
    <3>2. CASE z > k
      <4>1. z - 1 \in T /\ ~(z - 1 < k) /\ (z - 1) + 1 = z
        BY <1>1, <3>2
      <4>2. p[z - 1] = z
        BY <4>1
      <4> QED
        BY <4>1, <4>2
    <3> QED
      BY <1>1, <3>1, <3>2
  <2> HIDE DEF p, T, U
  <2> QED
    BY <2>1, <2>2, <2>3 DEF Renames
<1>6. \A i \in S : f[i] = w[s[i]]
  BY <1>1 DEF Weights
<1> HIDE DEF f, q
<1>7. Sum(f) = f[k] + Sum(g)
  BY <1>1, SumElement
<1>8. g \in [U -> Int] /\ IsFiniteSet(U) /\ IsFiniteSet(T)
  <2>1. g \in [U -> Int]
    BY <1>1
  <2>2. IsFiniteSet(U)
    BY <1>1, FS_RemoveElement
  <2>3. IsFiniteSet(T)
    BY <1>1, FS_Interval
  <2> QED
    BY <2>1, <2>2, <2>3
<1>9. Weights(w, q) = Composed(g, p)
  <2>1. DOMAIN p = T /\ \A j \in T : g[p[j]] = w[q[j]]
    BY <1>4, <1>6
  <2> HIDE DEF g, p, T
  <2> QED
    BY <1>3, <2>1 DEF Weights, Composed
<1> HIDE DEF g, S, T, U, p
<1>10. Sum(Composed(g, p)) = Sum(g)
  BY <1>5, <1>8, SumReindex
<1>11. Weigh(w, s) = w[s[k]] + Weigh(w, q)
  BY <1>1, <1>6, <1>7, <1>9, <1>10 DEF Weigh, f, S
<1> QED
  BY <1>2, <1>11 DEF q

\* A list without one entry.
LEMMA RemoveIs ==
    ASSUME NEW X, NEW s \in Seq(X), NEW k \in 1 .. Len(s)
    PROVE  RemoveAt(s, k) \in Seq(X) /\ Len(RemoveAt(s, k)) = Len(s) - 1
<1> DEFINE w == [x \in X |-> 0]
<1>1. Weighs(w, X)
  BY DEF Weighs
<1> HIDE DEF w
<1>2. /\ RemoveAt(s, k) \in Seq(X) /\ Len(RemoveAt(s, k)) = Len(s) - 1
      /\ Weigh(w, s) = w[s[k]] + Weigh(w, RemoveAt(s, k))
  BY <1>1, WeighRemove
<1> QED
  BY <1>2

\* An entry is put at the end of a list.
LEMMA WeighAppend ==
    ASSUME NEW X, NEW w, Weighs(w, X), NEW s \in Seq(X), NEW x \in X
    PROVE  Append(s, x) \in Seq(X) /\ Weigh(w, Append(s, x)) = w[x] + Weigh(w, s)
<1> DEFINE q == Append(s, x)
           n == Len(s) + 1
<1>1. q \in Seq(X) /\ Len(q) = n /\ n \in 1 .. Len(q) /\ q[n] = x
  OBVIOUS
<1>2. RemoveAt(q, n) = s
  <2>1. SubSeq(q, 1, n - 1) = s
    OBVIOUS
  <2>2. SubSeq(q, n + 1, Len(q)) = <<>>
    OBVIOUS
  <2> QED
    BY <2>1, <2>2 DEF RemoveAt
<1> HIDE DEF q
<1>3. Weigh(w, q) = w[q[n]] + Weigh(w, RemoveAt(q, n))
  BY <1>1, WeighRemove
<1> QED
  BY <1>1, <1>2, <1>3 DEF q

\* A list is its last entry and what is in front of it.
LEMMA WeighFront ==
    ASSUME NEW X, NEW w, Weighs(w, X), NEW s \in Seq(X), s # <<>>
    PROVE  /\ Front(s) \in Seq(X) /\ Last(s) \in X /\ Len(Front(s)) = Len(s) - 1 /\ Len(s) \in Nat \ {0}
           /\ \A j \in DOMAIN Front(s) : j \in DOMAIN s /\ Front(s)[j] = s[j]
           /\ Last(s) = s[Len(s)] /\ Len(s) \in DOMAIN s
           /\ Weigh(w, s) = w[Last(s)] + Weigh(w, Front(s))
<1> DEFINE n == Len(s)
<1>1. n \in Nat \ {0} /\ n \in 1 .. Len(s) /\ DOMAIN s = 1 .. n
  OBVIOUS
<1>2. Last(s) \in X /\ Last(s) = s[n] /\ n \in DOMAIN s
  BY <1>1 DEF Last
<1>3. /\ SubSeq(s, 1, n - 1) \in Seq(X) /\ Len(SubSeq(s, 1, n - 1)) = n - 1
      /\ \A j \in 1 .. n - 1 : SubSeq(s, 1, n - 1)[j] = s[j]
  BY <1>1
<1>4. \A j \in DOMAIN SubSeq(s, 1, n - 1) : j \in 1 .. n - 1 /\ j \in DOMAIN s
  BY <1>1, <1>3
<1>5. Front(s) = SubSeq(s, 1, n - 1)
  BY DEF Front
<1>6. RemoveAt(s, n) = Front(s)
  <2>1. SubSeq(s, n + 1, Len(s)) = <<>>
    BY <1>1
  <2>2. SubSeq(s, 1, n - 1) \o <<>> = SubSeq(s, 1, n - 1)
    BY <1>3
  <2> QED
    BY <1>5, <2>1, <2>2 DEF RemoveAt
<1>7. Weigh(w, s) = w[s[n]] + Weigh(w, RemoveAt(s, n))
  <2>1. n \in 1 .. Len(s)
    BY <1>1
  <2> HIDE DEF n
  <2> QED
    BY <2>1, WeighRemove
<1> HIDE DEF n
<1> QED
  BY <1>1, <1>2, <1>3, <1>4, <1>5, <1>6, <1>7 DEF n

\* A list in another order.
LEMMA WeighReorder ==
    ASSUME NEW X, NEW w, Weighs(w, X), NEW s \in Seq(X), NEW T, IsFiniteSet(T), NEW p, Renames(p, T, DOMAIN s),
           NEW q, q = [x \in T |-> s[p[x]]]
    PROVE  Weigh(w, q) = Weigh(w, s)
<1> DEFINE f == Weights(w, s)
           S == DOMAIN s
<1>1. IsFiniteSet(S) /\ f \in [S -> Int] /\ \A i \in S : f[i] = w[s[i]]
  BY WeighType DEF Weights
<1>2. Weights(w, q) = Composed(f, p)
  BY DEF Weights, Composed, Renames
<1> HIDE DEF f, S
<1>3. Sum(Composed(f, p)) = Sum(f)
  BY <1>1, SumReindex DEF S
<1> QED
  BY <1>2, <1>3 DEF Weigh, f

-----------------------------------------------------------------------------
(* A finite set in order. *)

\* The elements of S that R puts before x.
Below(S, R, x) == {y \in S : <<y, x>> \in R}
IsOrder(S, R) ==
    /\ \A x \in S : <<x, x>> \notin R
    /\ \A x, y, z \in S : <<x, y>> \in R /\ <<y, z>> \in R => <<x, z>> \in R
    /\ \A x, y \in S : x = y \/ <<x, y>> \in R \/ <<y, x>> \in R

\* What is in front of fewer elements is in front.
LEMMA RankGrows ==
    ASSUME NEW S, IsFiniteSet(S), NEW R, IsOrder(S, R), NEW x \in S, NEW y \in S, <<x, y>> \in R
    PROVE  Cardinality(Below(S, R, x)) < Cardinality(Below(S, R, y))
<1> DEFINE a == Below(S, R, x)
           b == Below(S, R, y)
<1>1. a \subseteq S /\ b \subseteq S /\ x \in b /\ x \notin a
  BY DEF Below, IsOrder
<1>2. a \subseteq b \ {x}
  BY <1>1 DEF Below, IsOrder
<1>3. IsFiniteSet(b)
  BY <1>1, FS_Subset
<1> HIDE DEF a, b
<1>4. IsFiniteSet(b \ {x}) /\ Cardinality(b \ {x}) = Cardinality(b) - 1
  BY <1>1, <1>3, FS_RemoveElement
<1>5. Cardinality(a) <= Cardinality(b \ {x})
  BY <1>2, <1>4, FS_Subset
<1>6. Cardinality(b) \in Nat /\ Cardinality(a) \in Nat
  BY <1>2, <1>3, <1>4, FS_Subset, FS_CardinalityType
<1> QED
  BY <1>4, <1>5, <1>6 DEF a, b

\* Every rank is somebody's, and nobody else's.
LEMMA Ranks ==
    ASSUME NEW S, IsFiniteSet(S), NEW R, IsOrder(S, R)
    PROVE  /\ \A x \in S : Cardinality(Below(S, R, x)) \in 0 .. Cardinality(S) - 1
           /\ \A x, y \in S : Cardinality(Below(S, R, x)) = Cardinality(Below(S, R, y)) => x = y
           /\ \A i \in 0 .. Cardinality(S) - 1 : \E x \in S : Cardinality(Below(S, R, x)) = i
<1> DEFINE n == Cardinality(S)
           T == 0 .. n - 1
           rank == [x \in S |-> Cardinality(Below(S, R, x))]
<1>1. n \in Nat
  BY FS_CardinalityType
<1>2. ASSUME NEW x \in S PROVE rank[x] \in T
  <2> DEFINE a == Below(S, R, x)
  <2>1. a \subseteq S \ {x}
    BY DEF Below, IsOrder
  <2>2. IsFiniteSet(S \ {x}) /\ Cardinality(S \ {x}) = n - 1
    BY FS_RemoveElement
  <2> HIDE DEF a, n
  <2>3. Cardinality(a) <= n - 1 /\ IsFiniteSet(a)
    BY <2>1, <2>2, FS_Subset
  <2>4. Cardinality(a) \in Nat
    BY <2>3, FS_CardinalityType
  <2>5. rank[x] = Cardinality(a)
    BY DEF a
  <2> HIDE DEF rank
  <2> QED
    BY <1>1, <2>3, <2>4, <2>5
<1>3. ASSUME NEW x \in S, NEW y \in S, rank[x] = rank[y] PROVE x = y
  <2>1. rank[x] \in Int /\ rank[y] \in Int
    BY <1>1, <1>2
  <2>2. <<x, y>> \in R => rank[x] < rank[y]
    BY RankGrows
  <2>3. <<y, x>> \in R => rank[y] < rank[x]
    BY RankGrows
  <2> HIDE DEF rank
  <2> QED
    BY <1>3, <2>1, <2>2, <2>3 DEF IsOrder
<1>4. rank \in [S -> T]
  BY <1>2
<1>5. \A x \in S : rank[x] = Cardinality(Below(S, R, x))
  OBVIOUS
<1> HIDE DEF rank
<1>6. rank \in Injection(S, T)
  BY <1>3, <1>4 DEF Injection, IsInjective
<1>7. IsFiniteSet(T) /\ Cardinality(T) = n
  <2>1. Cardinality(T) = IF 0 <= n - 1 THEN (n - 1) - 0 + 1 ELSE 0
    BY <1>1, FS_Interval
  <2>2. IsFiniteSet(T)
    BY <1>1, FS_Interval
  <2> HIDE DEF n, T
  <2> QED
    BY <1>1, <2>1, <2>2
<1>8. rank \in Surjection(S, T)
  BY <1>6, <1>7, FS_Injection
<1>9. \A i \in T : \E x \in S : rank[x] = i
  BY <1>8 DEF Surjection
<1> QED
  BY <1>2, <1>3, <1>5, <1>9

\* The list of a set in order.
InOrderOf(S, R) == [i \in 1 .. Cardinality(S) |-> CHOOSE x \in S : Cardinality(Below(S, R, x)) = i - 1]

\* It has every element once.
LEMMA OrderRenames ==
    ASSUME NEW S, IsFiniteSet(S), NEW R, IsOrder(S, R)
    PROVE  /\ Cardinality(S) \in Nat
           /\ Renames(InOrderOf(S, R), 1 .. Cardinality(S), S)
<1> DEFINE n == Cardinality(S)
           T == 1 .. n
           rank == [x \in S |-> Cardinality(Below(S, R, x))]
           p == InOrderOf(S, R)
<1>1. n \in Nat
  BY FS_CardinalityType
<1>2. /\ \A x \in S : rank[x] \in 0 .. n - 1
      /\ \A x, y \in S : rank[x] = rank[y] => x = y
      /\ \A i \in 0 .. n - 1 : \E x \in S : rank[x] = i
  BY Ranks
<1>3. p = [i \in T |-> CHOOSE x \in S : rank[x] = i - 1]
  BY DEF InOrderOf
<1> HIDE DEF rank, p, n
<1>4. ASSUME NEW i \in T PROVE p[i] \in S /\ rank[p[i]] = i - 1
  <2>1. i - 1 \in 0 .. n - 1
    BY <1>1
  <2>2. \E x \in S : rank[x] = i - 1
    BY <1>2, <2>1
  <2> QED
    BY <1>3, <2>2
<1>5. p \in [T -> S]
  BY <1>3, <1>4
<1>6. ASSUME NEW i \in T, NEW j \in T, p[i] = p[j] PROVE i = j
  <2>1. i - 1 = j - 1
    BY <1>4, <1>6
  <2> QED
    BY <1>1, <2>1
<1>7. ASSUME NEW z \in S PROVE \E i \in T : p[i] = z
  <2> DEFINE i == rank[z] + 1
  <2>1. i \in T /\ i - 1 = rank[z]
    BY <1>1, <1>2
  <2>2. p[i] = z
    BY <1>2, <1>4, <2>1
  <2> QED
    BY <2>1, <2>2
<1> QED
  BY <1>1, <1>5, <1>6, <1>7 DEF Renames, p, n

\* What renames 1 .. n is a list of n entries.
LEMMA RenamesList ==
    ASSUME NEW S, NEW n \in Nat, NEW p, Renames(p, 1 .. n, S)
    PROVE  p \in Seq(S) /\ Len(p) = n /\ DOMAIN p = 1 .. n
<1>1. p \in [1 .. n -> S]
  BY DEF Renames
<1> QED
  BY <1>1

\* The numbers of a set in order.
LEMMA OrderedIs ==
    ASSUME NEW S, S \subseteq Int, IsFiniteSet(S)
    PROVE  /\ Renames(Ordered(S), 1 .. Cardinality(S), S)
           /\ Ordered(S) \in Seq(S) /\ Len(Ordered(S)) = Cardinality(S) /\ Cardinality(S) \in Nat
<1> DEFINE R == {e \in S \X S : e[1] < e[2]}
<1>1. \A x, y \in S : <<x, y>> \in R <=> x < y
  <2> SUFFICES ASSUME NEW x \in S, NEW y \in S PROVE <<x, y>> \in R <=> x < y
    OBVIOUS
  <2>1. <<x, y>> \in S \X S /\ <<x, y>>[1] = x /\ <<x, y>>[2] = y
    OBVIOUS
  <2> QED
    BY <2>1
<1>2. Ordered(S) = [i \in 1 .. Cardinality(S) |-> CHOOSE x \in S : Cardinality({y \in S : y < x}) = i - 1]
  <2>1. Ordered(S) = InOrder(Computed(S), <)
    BY DEF Ordered
  <2>2. Computed(S) = S
    BY ComputedIs
  <2>3. Ordered(S) = InOrder(S, <)
    BY <2>1, <2>2
  <2> DEFINE order == [i \in 1 .. Cardinality(S) |-> CHOOSE x \in S : Cardinality({y \in S : y < x}) = i - 1]
  <2>4. InOrder(S, <) = Computed(order)
    BY DEF InOrder
  <2> HIDE DEF order
  <2>5. Computed(order) = order
    BY ComputedIs
  <2> QED
    BY <2>3, <2>4, <2>5 DEF order
<1> HIDE DEF R
<1>3. \A x \in S : {y \in S : y < x} = Below(S, R, x)
  BY <1>1 DEF Below
<1>4. Ordered(S) = InOrderOf(S, R)
  BY <1>2, <1>3 DEF InOrderOf
<1>5. IsOrder(S, R)
  BY <1>1 DEF IsOrder
<1>6. Cardinality(S) \in Nat /\ Renames(Ordered(S), 1 .. Cardinality(S), S)
  BY <1>4, <1>5, OrderRenames
<1> QED
  BY <1>6, RenamesList

\* q is s in another order.
Reorders(q, s) == \E p : Renames(p, DOMAIN s, DOMAIN s) /\ q = [i \in DOMAIN s |-> s[p[i]]]

\* The places that a stable sort by keys puts before j.
Earlier(D, keys, j) == {i \in D : keys[i] < keys[j] \/ (keys[i] = keys[j] /\ i < j)}

\* Sorting a list only puts it in another order.
LEMMA StableSortIs ==
    ASSUME NEW X, NEW s \in Seq(X), NEW keys, \A i \in DOMAIN s : keys[i] \in Int
    PROVE  /\ Reorders(StableSort(s, keys), s)
           /\ StableSort(s, keys) \in Seq(X) /\ Len(StableSort(s, keys)) = Len(s)
<1> DEFINE D == DOMAIN s
           n == Cardinality(D)
           R == {e \in D \X D : keys[e[1]] < keys[e[2]] \/ (keys[e[1]] = keys[e[2]] /\ e[1] < e[2])}
           q == [k \in 1 .. n |-> CHOOSE j \in D : Cardinality(Earlier(D, keys, j)) = k - 1]
           p == InOrderOf(D, R)
           r == [i \in D |-> s[p[i]]]
<1>1. Len(s) \in Nat /\ D = 1 .. Len(s) /\ D \subseteq Int /\ IsFiniteSet(D) /\ n = Len(s)
  <2>1. Len(s) \in Nat /\ D = 1 .. Len(s) /\ D \subseteq Int
    OBVIOUS
  <2>2. IsFiniteSet(1 .. Len(s)) /\ Cardinality(1 .. Len(s)) = IF 1 <= Len(s) THEN Len(s) - 1 + 1 ELSE 0
    BY <2>1, FS_Interval
  <2>3. (IF 1 <= Len(s) THEN Len(s) - 1 + 1 ELSE 0) = Len(s)
    BY <2>1
  <2> HIDE DEF D
  <2> QED
    BY <2>1, <2>2, <2>3
<1>2. \A i, j \in D : <<i, j>> \in R <=> keys[i] < keys[j] \/ (keys[i] = keys[j] /\ i < j)
  <2> SUFFICES ASSUME NEW i \in D, NEW j \in D
               PROVE <<i, j>> \in R <=> keys[i] < keys[j] \/ (keys[i] = keys[j] /\ i < j)
    OBVIOUS
  <2> HIDE DEF D
  <2>1. <<i, j>> \in D \X D /\ <<i, j>>[1] = i /\ <<i, j>>[2] = j
    OBVIOUS
  <2> QED
    BY <2>1
<1>3. StableSort(s, keys) = [i \in DOMAIN q |-> s[q[i]]]
  <2>0. InOrder(D, LAMBDA i, j : keys[i] < keys[j] \/ (keys[i] = keys[j] /\ i < j)) = Computed(q)
    BY DEF InOrder, Earlier
  <2>1. StableSort(s, keys) = Computed([i \in DOMAIN Computed(q) |-> s[Computed(q)[i]]])
    <3> HIDE DEF q
    <3> QED
      BY <2>0 DEF StableSort, Map
  <2> HIDE DEF q
  <2>2. Computed(q) = q
    BY ComputedIs
  <2> DEFINE u == [i \in DOMAIN q |-> s[q[i]]]
  <2>3. StableSort(s, keys) = Computed(u)
    BY <2>1, <2>2
  <2> HIDE DEF u
  <2>4. Computed(u) = u
    BY ComputedIs
  <2> QED
    BY <2>3, <2>4 DEF u
<1>4. \A i \in D : keys[i] \in Int
  OBVIOUS
<1> HIDE DEF R, D
<1>5. \A j \in D : Earlier(D, keys, j) = Below(D, R, j)
  BY <1>2 DEF Below, Earlier
<1>6. q = p
  BY <1>5 DEF InOrderOf
<1>7. IsOrder(D, R)
  <2>1. \A x \in D : <<x, x>> \notin R
    BY <1>1, <1>2, <1>4
  <2>2. \A x, y, z \in D : <<x, y>> \in R /\ <<y, z>> \in R => <<x, z>> \in R
    BY <1>1, <1>2, <1>4
  <2>3. ASSUME NEW x \in D, NEW y \in D PROVE x = y \/ <<x, y>> \in R \/ <<y, x>> \in R
    <3>1. x \in Int /\ y \in Int /\ keys[x] \in Int /\ keys[y] \in Int
      BY <1>1, <1>4
    <3>2. \/ x = y
          \/ keys[x] < keys[y] \/ (keys[x] = keys[y] /\ x < y)
          \/ keys[y] < keys[x] \/ (keys[y] = keys[x] /\ y < x)
      BY <3>1
    <3> QED
      BY <1>2, <3>2
  <2> QED
    BY <2>1, <2>2, <2>3 DEF IsOrder
<1>8. Renames(p, D, D)
  <2>1. Renames(p, 1 .. n, D)
    BY <1>1, <1>7, OrderRenames
  <2> QED
    BY <1>1, <2>1
<1>9. StableSort(s, keys) = r
  <2>1. DOMAIN p = D
    BY <1>8 DEF Renames
  <2> QED
    BY <1>3, <1>6, <2>1
<1>10. r \in Seq(X) /\ Len(r) = Len(s)
  <2>1. \A i \in D : p[i] \in D
    BY <1>8 DEF Renames
  <2>2. \A i \in D : s[i] \in X
    BY DEF D
  <2> HIDE DEF p
  <2> QED
    BY <1>1, <2>1, <2>2
<1> HIDE DEF p, r
<1>11. Reorders(r, s)
  BY <1>8 DEF Reorders, r, D
<1> QED
  BY <1>9, <1>10, <1>11

\* Sorting a list leaves its weight.
LEMMA SortWeighs ==
    ASSUME NEW X, NEW s \in Seq(X), NEW keys, \A i \in DOMAIN s : keys[i] \in Int, NEW w, Weighs(w, X)
    PROVE  Weigh(w, StableSort(s, keys)) = Weigh(w, s)
<1> DEFINE q == StableSort(s, keys)
           D == DOMAIN s
<1>1. Reorders(q, s)
  BY StableSortIs
<1> HIDE DEF q
<1>2. PICK p : Renames(p, D, DOMAIN s) /\ q = [i \in D |-> s[p[i]]]
  BY <1>1 DEF Reorders
<1>3. IsFiniteSet(D)
  BY WeighType
<1> HIDE DEF D
<1>4. Weigh(w, q) = Weigh(w, s)
  BY <1>2, <1>3, WeighReorder
<1> QED
  BY <1>4 DEF q

-----------------------------------------------------------------------------
(* Rounds of a loop. *)

\* g is what n rounds of step, in W, make of start.
Goes(g, W, start, step, n) == g \in [0 .. n -> W] /\ g[0] = start /\ \A k \in 1 .. n : g[k] = step[g[k - 1]]

\* A loop whose rounds stay in W has its rounds.
LEMMA RoundsExist ==
    ASSUME NEW W, NEW start \in W, NEW step \in [W -> W], NEW n \in Nat
    PROVE  \E g : Goes(g, W, start, step, n)
<1> DEFINE Has(m) == \E g \in [0 .. m -> W] : g[0] = start /\ \A k \in 1 .. m : g[k] = step[g[k - 1]]
           Q == {m \in Nat : Has(m)}
<1>1. 0 \in Q
  <2> DEFINE g == [k \in 0 .. 0 |-> start]
  <2>1. g \in [0 .. 0 -> W] /\ g[0] = start /\ \A k \in 1 .. 0 : g[k] = step[g[k - 1]]
    OBVIOUS
  <2> QED
    BY <2>1
<1>2. ASSUME NEW m \in Nat, m \in Q PROVE m + 1 \in Q
  <2>1. PICK g \in [0 .. m -> W] : g[0] = start /\ \A k \in 1 .. m : g[k] = step[g[k - 1]]
    BY <1>2
  <2> DEFINE h == [k \in 0 .. m + 1 |-> IF k <= m THEN g[k] ELSE step[g[m]]]
  <2>2. h \in [0 .. m + 1 -> W]
    <3>1. \A k \in 0 .. m + 1 : k <= m => k \in 0 .. m
      OBVIOUS
    <3>2. m \in 0 .. m
      OBVIOUS
    <3> QED
      BY <2>1, <3>1, <3>2
  <2>3. h[0] = start
    BY <2>1
  <2>4. ASSUME NEW k \in 1 .. m + 1 PROVE h[k] = step[h[k - 1]]
    <3>1. CASE k \in 1 .. m
      <4>1. h[k] = g[k] /\ h[k - 1] = g[k - 1]
        BY <3>1
      <4> HIDE DEF h
      <4> QED
        BY <2>1, <3>1, <4>1
    <3>2. CASE k = m + 1
      BY <3>2
    <3> QED
      BY <3>1, <3>2
  <2> HIDE DEF h
  <2>5. Has(m + 1)
    BY <2>2, <2>3, <2>4
  <2> QED
    BY <2>5
<1> HIDE DEF Has
<1>3. n \in Q
  <2> HIDE DEF Q
  <2> QED
    BY <1>1, <1>2, Induction
<1> QED
  BY <1>3 DEF Has, Goes

-----------------------------------------------------------------------------
(* Equal amounts are settled by one payment. *)

Owed == Accounts \X (Nat \ {0})
Owing == Accounts \X {x \in Int : x < 0}
Items == [creditorId : Accounts, debitorId : Accounts, paymentAmount : Nat \ {0}]
Walks == [creditors : Seq(Owed), debitors : Seq(Owing), ci : Nat \ {0}, di : Nat \ {0}, result : Seq(Items)]

\* What is open, of account a and of all, where v has the payments made.
Value == [b \in Accounts \X Int |-> b[2]]
Claim(a) == [b \in Accounts \X Int |-> IF b[1] = a THEN b[2] ELSE 0]
Paid(a) == [x \in Items |-> (IF x.creditorId = a THEN x.paymentAmount ELSE 0)
                            - (IF x.debitorId = a THEN x.paymentAmount ELSE 0)]
Open(a, v) == Weigh(Claim(a), v.creditors) + Weigh(Claim(a), v.debitors) - Weigh(Paid(a), v.result)
Total(v) == Weigh(Value, v.creditors) + Weigh(Value, v.debitors)

\* The accounts to be paid are among P, those to pay among N, and these have paid those.
Sided(P, N, v) ==
    /\ v.creditors \in Seq(P \X (Nat \ {0})) /\ v.debitors \in Seq(N \X {x \in Int : x < 0})
    /\ v.result \in Seq([creditorId : N, debitorId : P, paymentAmount : Nat \ {0}])

\* What a walk keeps: v after w.
Keeps(v, w) ==
    /\ Len(v.result) + Len(v.creditors) = Len(w.result) + Len(w.creditors)
    /\ Len(v.result) + Len(v.debitors) = Len(w.result) + Len(w.debitors)
    /\ Len(v.result) >= Len(w.result)
    /\ Total(v) = Total(w)
    /\ \A a \in Accounts : Open(a, v) = Open(a, w)
    /\ \A P, N : Sided(P, N, w) => Sided(P, N, v)

\* Weights are integers.
LEMMA WeightTypes ==
    /\ \A b \in Owed : b[1] \in Accounts /\ b[2] \in Nat \ {0} /\ Value[b] = b[2] /\ Value[b] \in Int
    /\ \A b \in Owing : b[1] \in Accounts /\ b[2] \in Int /\ b[2] < 0 /\ Value[b] = b[2] /\ Value[b] \in Int
    /\ \A a \in Accounts : \A b \in Owed : Claim(a)[b] = (IF b[1] = a THEN b[2] ELSE 0) /\ Claim(a)[b] \in Int
    /\ \A a \in Accounts : \A b \in Owing : Claim(a)[b] = (IF b[1] = a THEN b[2] ELSE 0) /\ Claim(a)[b] \in Int
    /\ \A a \in Accounts : \A x \in Items : Paid(a)[x] \in Int
<1>1. \A b \in Owed : b \in Accounts \X Int /\ b[1] \in Accounts /\ b[2] \in Nat \ {0}
  BY DEF Owed
<1>2. \A b \in Owing : b \in Accounts \X Int /\ b[1] \in Accounts /\ b[2] \in Int /\ b[2] < 0
  BY DEF Owing
<1>3. \A b \in Accounts \X Int : Value[b] = b[2]
  BY DEF Value
<1>4. \A a \in Accounts : \A b \in Accounts \X Int : Claim(a)[b] = IF b[1] = a THEN b[2] ELSE 0
  BY DEF Claim
<1>5. ASSUME NEW a \in Accounts, NEW x \in Items PROVE Paid(a)[x] \in Int
  <2>1. x.paymentAmount \in Int
    BY DEF Items
  <2> QED
    BY <2>1 DEF Paid
<1> QED
  BY <1>1, <1>2, <1>3, <1>4, <1>5

\* A payment of a whole claim.
LEMMA ItemPays ==
    ASSUME NEW payer \in Accounts, NEW payee \in Accounts, NEW amount \in Nat \ {0}
    PROVE  /\ Item(payer, payee, amount) \in Items
           /\ \A a \in Accounts : Paid(a)[Item(payer, payee, amount)]
                                  = (IF payer = a THEN amount ELSE 0) - (IF payee = a THEN amount ELSE 0)
<1> DEFINE x == Item(payer, payee, amount)
<1>1. x \in Items /\ x.creditorId = payer /\ x.debitorId = payee /\ x.paymentAmount = amount
  BY DEF Item, Items
<1> HIDE DEF x
<1>2. \A a \in Accounts : Paid(a)[x] = (IF payer = a THEN amount ELSE 0) - (IF payee = a THEN amount ELSE 0)
  BY <1>1 DEF Paid
<1> QED
  BY <1>1, <1>2 DEF x

\* One payment of a whole claim keeps what a walk keeps.
LEMMA PaymentKeeps ==
    ASSUME NEW w, w.creditors \in Seq(Owed), w.debitors \in Seq(Owing), w.result \in Seq(Items),
           NEW i \in 1 .. Len(w.creditors), NEW j \in 1 .. Len(w.debitors),
           w.creditors[i][2] = -w.debitors[j][2],
           NEW v, v.creditors = RemoveAt(w.creditors, i), v.debitors = RemoveAt(w.debitors, j),
           v.result = Append(w.result, Item(w.debitors[j][1], w.creditors[i][1], w.creditors[i][2]))
    PROVE  /\ v.creditors \in Seq(Owed) /\ v.debitors \in Seq(Owing) /\ v.result \in Seq(Items)
           /\ Keeps(v, w)
<1> DEFINE C == w.creditors
           D == w.debitors
           R == w.result
           c == C[i]
           d == D[j]
           x == Item(d[1], c[1], c[2])
<1>1. c \in Owed /\ d \in Owing /\ c[2] = -d[2]
  OBVIOUS
<1> HIDE DEF c, d
<1>2. c[1] \in Accounts /\ d[1] \in Accounts /\ c[2] \in Nat \ {0} /\ d[2] \in Int
  BY <1>1, WeightTypes
<1>3. x \in Items /\ \A a \in Accounts : Paid(a)[x] = (IF d[1] = a THEN c[2] ELSE 0) - (IF c[1] = a THEN c[2] ELSE 0)
  BY <1>2, ItemPays
<1> HIDE DEF x
<1>4. v.creditors = RemoveAt(C, i) /\ v.debitors = RemoveAt(D, j) /\ v.result = Append(R, x)
  BY DEF x, c, d
<1>5. C \in Seq(Owed) /\ D \in Seq(Owing) /\ R \in Seq(Items) /\ i \in 1 .. Len(C) /\ j \in 1 .. Len(D)
  OBVIOUS
<1>6. C[i] = c /\ D[j] = d
  BY DEF c, d
<1> HIDE DEF C, D, R
<1>7. /\ RemoveAt(C, i) \in Seq(Owed) /\ Len(RemoveAt(C, i)) = Len(C) - 1
      /\ RemoveAt(D, j) \in Seq(Owing) /\ Len(RemoveAt(D, j)) = Len(D) - 1
  BY <1>5, RemoveIs
<1>71. ASSUME NEW q, Weighs(q, Owed) PROVE Weigh(q, C) = q[C[i]] + Weigh(q, RemoveAt(C, i))
  BY <1>5, <1>71, WeighRemove
<1>72. ASSUME NEW q, Weighs(q, Owing) PROVE Weigh(q, D) = q[D[j]] + Weigh(q, RemoveAt(D, j))
  BY <1>5, <1>72, WeighRemove
<1>8. Append(R, x) \in Seq(Items) /\ Len(Append(R, x)) = Len(R) + 1
  BY <1>3, <1>5
<1>9. /\ Weigh(Value, C) = Value[c] + Weigh(Value, RemoveAt(C, i))
      /\ Weigh(Value, D) = Value[d] + Weigh(Value, RemoveAt(D, j))
      /\ Weigh(Value, RemoveAt(C, i)) \in Int /\ Weigh(Value, RemoveAt(D, j)) \in Int
      /\ Value[c] = c[2] /\ Value[d] = d[2]
  <2>1. Weighs(Value, Owed) /\ Weighs(Value, Owing)
    BY WeightTypes DEF Weighs
  <2>2. Weigh(Value, C) = Value[c] + Weigh(Value, RemoveAt(C, i))
    BY <1>6, <1>71, <1>72, <2>1
  <2>3. Weigh(Value, D) = Value[d] + Weigh(Value, RemoveAt(D, j))
    BY <1>6, <1>71, <1>72, <2>1
  <2>4. Weigh(Value, RemoveAt(C, i)) \in Int
    BY <1>7, <2>1, WeighType
  <2>5. Weigh(Value, RemoveAt(D, j)) \in Int
    BY <1>7, <2>1, WeighType
  <2>6. Value[c] = c[2] /\ Value[d] = d[2]
    BY <1>1, WeightTypes
  <2> QED
    BY <2>2, <2>3, <2>4, <2>5, <2>6
<1>10. Total(v) = Total(w)
  BY <1>1, <1>2, <1>4, <1>9 DEF Total, C, D
<1>11. ASSUME NEW a \in Accounts PROVE Open(a, v) = Open(a, w)
  <2> DEFINE q == Claim(a)
             p == Paid(a)
  <2>1. Weighs(q, Owed) /\ Weighs(q, Owing) /\ Weighs(p, Items)
    BY WeightTypes DEF Weighs
  <2>2. q[c] = (IF c[1] = a THEN c[2] ELSE 0) /\ q[d] = (IF d[1] = a THEN d[2] ELSE 0)
    BY <1>1, WeightTypes
  <2>3. p[x] = (IF d[1] = a THEN c[2] ELSE 0) - (IF c[1] = a THEN c[2] ELSE 0)
    BY <1>3
  <2> HIDE DEF q, p
  <2>4. Weigh(q, C) = q[c] + Weigh(q, RemoveAt(C, i))
    BY <1>6, <1>71, <1>72, <2>1
  <2>5. Weigh(q, D) = q[d] + Weigh(q, RemoveAt(D, j))
    BY <1>6, <1>71, <1>72, <2>1
  <2>6. Weigh(p, Append(R, x)) = p[x] + Weigh(p, R)
    <3>1. R \in Seq(Items) /\ x \in Items /\ Weighs(p, Items)
      BY <1>3, <1>5, <2>1
    <3> QED
      BY ONLY <3>1, WeighAppend
  <2>7. Weigh(q, RemoveAt(C, i)) \in Int
    BY <1>7, <2>1, WeighType
  <2>8. Weigh(q, RemoveAt(D, j)) \in Int
    BY <1>7, <2>1, WeighType
  <2>9. Weigh(p, R) \in Int
    BY <1>5, <2>1, WeighType
  <2>10. q[c] + q[d] + p[x] = 0 /\ q[c] \in Int /\ q[d] \in Int /\ p[x] \in Int
    <3> DEFINE m == c[2]
               n == d[2]
    <3>1. m \in Int /\ n \in Int /\ m = -n
      BY <1>1, <1>2
    <3>2. /\ q[c] = (IF c[1] = a THEN m ELSE 0) /\ q[d] = (IF d[1] = a THEN n ELSE 0)
          /\ p[x] = (IF d[1] = a THEN m ELSE 0) - (IF c[1] = a THEN m ELSE 0)
      BY <2>2, <2>3
    <3> DEFINE e == q[c]
               f == q[d]
               g == p[x]
    <3> HIDE DEF m, n, e, f, g
    <3>3. /\ e = (IF c[1] = a THEN m ELSE 0) /\ f = (IF d[1] = a THEN n ELSE 0)
          /\ g = (IF d[1] = a THEN m ELSE 0) - (IF c[1] = a THEN m ELSE 0)
      BY <3>2 DEF e, f, g
    <3>4. e + f + g = 0 /\ e \in Int /\ f \in Int /\ g \in Int
      BY ONLY <3>1, <3>3
    <3> QED
      BY <3>4 DEF e, f, g
  <2>11. Open(a, w) = Weigh(q, C) + Weigh(q, D) - Weigh(p, R)
    BY DEF Open, C, D, R, q, p
  <2>12. Open(a, v) = Weigh(q, RemoveAt(C, i)) + Weigh(q, RemoveAt(D, j)) - Weigh(p, Append(R, x))
    BY <1>4 DEF Open, q, p
  <2> QED
    <3> DEFINE e == q[c]
               f == q[d]
               g == p[x]
               A == Weigh(q, RemoveAt(C, i))
               B == Weigh(q, RemoveAt(D, j))
               P == Weigh(p, R)
    <3>1. Open(a, w) = (e + A) + (f + B) - P /\ Open(a, v) = A + B - (g + P)
      BY <2>4, <2>5, <2>6, <2>11, <2>12
    <3>2. A \in Int /\ B \in Int /\ P \in Int /\ e \in Int /\ f \in Int /\ g \in Int /\ e + f + g = 0
      BY <2>7, <2>8, <2>9, <2>10
    <3> HIDE DEF e, f, g, A, B, P
    <3>3. (e + A) + (f + B) - P = A + B - (g + P)
      BY ONLY <3>2
    <3> QED
      BY ONLY <3>1, <3>3
<1>12. Len(C) \in Nat /\ Len(D) \in Nat /\ Len(R) \in Nat
  BY <1>5
<1>13. /\ Len(v.result) + Len(v.creditors) = Len(R) + Len(C)
       /\ Len(v.result) + Len(v.debitors) = Len(R) + Len(D)
       /\ Len(v.result) >= Len(R)
  <2> DEFINE cs == Len(RemoveAt(C, i))
             ds == Len(RemoveAt(D, j))
             rs == Len(Append(R, x))
  <2>1. Len(v.creditors) = cs /\ Len(v.debitors) = ds /\ Len(v.result) = rs
    BY <1>4
  <2>2. cs = Len(C) - 1 /\ ds = Len(D) - 1 /\ rs = Len(R) + 1
    BY <1>7, <1>8
  <2> HIDE DEF cs, ds, rs
  <2> QED
    BY ONLY <1>12, <2>1, <2>2
<1>14. v.creditors \in Seq(Owed) /\ v.debitors \in Seq(Owing) /\ v.result \in Seq(Items)
  BY <1>4, <1>7, <1>8
<1>15. ASSUME NEW P, NEW N, Sided(P, N, w) PROVE Sided(P, N, v)
  <2> DEFINE X == P \X (Nat \ {0})
             Y == N \X {k \in Int : k < 0}
             Z == [creditorId : N, debitorId : P, paymentAmount : Nat \ {0}]
  <2>1. C \in Seq(X) /\ D \in Seq(Y) /\ R \in Seq(Z)
    BY <1>15 DEF Sided, C, D, R
  <2>2. c \in X /\ d \in Y
    <3> HIDE DEF X, Y, Z
    <3>1. C[i] \in X
      BY <1>5, <2>1
    <3>2. D[j] \in Y
      BY <1>5, <2>1
    <3> QED
      BY <1>6, <3>1, <3>2
  <2>3. x \in Z
    BY <2>2 DEF x, Item
  <2> HIDE DEF X, Y, Z
  <2>4. RemoveAt(C, i) \in Seq(X) /\ RemoveAt(D, j) \in Seq(Y)
    BY <1>5, <2>1, RemoveIs
  <2>5. Append(R, x) \in Seq(Z)
    BY <2>1, <2>3
  <2> QED
    BY <1>4, <2>4, <2>5 DEF Sided, X, Y, Z
<1>16. Keeps(v, w)
  BY <1>10, <1>11, <1>13, <1>15 DEF Keeps, C, D, R
<1> QED
  BY <1>14, <1>16

\* A step of a walk keeps it too.
LEMMA WalkKeeps ==
    ASSUME NEW w \in Walks
    PROVE  Walk(w) \in Walks /\ Keeps(Walk(w), w)
<1> DEFINE v == Walk(w)
           c == w.creditors[w.ci]
           d == w.debitors[w.di]
<1>0. /\ w.creditors \in Seq(Owed) /\ w.debitors \in Seq(Owing) /\ w.result \in Seq(Items)
      /\ w.ci \in Nat \ {0} /\ w.di \in Nat \ {0}
  BY DEF Walks
<1>1. /\ Len(w.creditors) \in Nat /\ Len(w.debitors) \in Nat /\ Len(w.result) \in Nat
  BY <1>0
<1>2. ASSUME v.creditors = w.creditors, v.debitors = w.debitors, v.result = w.result PROVE Keeps(v, w)
  <2> HIDE DEF v
  <2>1. \A P, N : Sided(P, N, w) => Sided(P, N, v)
    BY <1>2 DEF Sided
  <2> QED
    BY <1>1, <1>2, <2>1 DEF Keeps, Total, Open
<1>3. CASE w.ci > Len(w.creditors) \/ w.di > Len(w.debitors)
  <2>1. v = w
    BY <1>3 DEF Walk
  <2> HIDE DEF v
  <2> QED
    BY <1>2, <2>1 DEF v
<1>4. CASE w.ci <= Len(w.creditors) /\ w.di <= Len(w.debitors) /\ c[2] = -d[2]
  <2>1. ~(w.ci > Len(w.creditors) \/ w.di > Len(w.debitors))
    BY <1>0, <1>1, <1>4
  <2>2. v = [w EXCEPT !.creditors = RemoveAt(@, w.ci), !.debitors = RemoveAt(@, w.di),
                      !.result = Append(@, Item(d[1], c[1], c[2]))]
    BY <1>4, <2>1 DEF Walk
  <2>3. /\ v.creditors = RemoveAt(w.creditors, w.ci) /\ v.debitors = RemoveAt(w.debitors, w.di)
        /\ v.result = Append(w.result, Item(d[1], c[1], c[2]))
    BY <2>2 DEF Walks
  <2>4. w.ci \in 1 .. Len(w.creditors) /\ w.di \in 1 .. Len(w.debitors)
    BY <1>0, <1>1, <1>4
  <2>5. v = [creditors |-> v.creditors, debitors |-> v.debitors, ci |-> w.ci, di |-> w.di, result |-> v.result]
    BY <2>2 DEF Walks
  <2> HIDE DEF v
  <2>6. v.creditors \in Seq(Owed) /\ v.debitors \in Seq(Owing) /\ v.result \in Seq(Items) /\ Keeps(v, w)
    BY <1>0, <1>4, <2>3, <2>4, PaymentKeeps
  <2>7. v \in Walks
    BY <1>0, <2>5, <2>6 DEF Walks
  <2> QED
    BY <2>6, <2>7 DEF v
<1>5. CASE w.ci <= Len(w.creditors) /\ w.di <= Len(w.debitors) /\ c[2] # -d[2]
  <2>1. ~(w.ci > Len(w.creditors) \/ w.di > Len(w.debitors))
    BY <1>0, <1>1, <1>5
  <2>2. v = [w EXCEPT !.ci = @ + 1] \/ v = [w EXCEPT !.di = @ + 1]
    BY <1>5, <2>1 DEF Walk
  <2> HIDE DEF v
  <2>3. v.creditors = w.creditors /\ v.debitors = w.debitors /\ v.result = w.result
    BY <2>2 DEF Walks
  <2>4. v \in Walks
    <3>1. w.ci + 1 \in Nat \ {0} /\ w.di + 1 \in Nat \ {0}
      BY <1>0
    <3> QED
      BY <2>2, <3>1 DEF Walks
  <2> QED
    BY <1>2, <2>3, <2>4 DEF v
<1> QED
  BY <1>0, <1>1, <1>3, <1>4, <1>5

\* What is kept twice is kept.
LEMMA KeepsOn ==
    ASSUME NEW u, NEW v, NEW w, Keeps(v, u), Keeps(w, v),
           Len(u.result) \in Nat, Len(v.result) \in Nat, Len(w.result) \in Nat
    PROVE  Keeps(w, u)
<1>1. Len(w.result) >= Len(u.result)
  BY DEF Keeps
<1> QED
  BY <1>1 DEF Keeps

\* The state of a walk, round after round.
Walked(start, n, g) == [k \in 0 .. n |-> IF k = 0 THEN start ELSE Walk(g[k - 1])]

\* A walk of any length keeps it.
LEMMA WalksKeep ==
    ASSUME NEW start \in Walks, NEW n \in Nat
    PROVE  /\ Rounds(LAMBDA w, k : Walk(w), start, n)[n] \in Walks
           /\ Keeps(Rounds(LAMBDA w, k : Walk(w), start, n)[n], start)
<1> DEFINE E == Rounds(LAMBDA w, k : Walk(w), start, n)
           step == [w \in Walks |-> Walk(w)]
<1>1. E = CHOOSE g : g = [k \in 0 .. n |-> IF k = 0 THEN start ELSE CHOOSE v \in {Walk(x) : x \in {g[k - 1]}} : TRUE]
  BY DEF Rounds
<1>2. \A g : [k \in 0 .. n |-> IF k = 0 THEN start ELSE CHOOSE v \in {Walk(x) : x \in {g[k - 1]}} : TRUE]
               = Walked(start, n, g)
  <2>1. \A x : (CHOOSE v \in {Walk(y) : y \in {x}} : TRUE) = Walk(x)
    OBVIOUS
  <2> QED
    BY <2>1 DEF Walked
<1> HIDE DEF E
<1>3. E = CHOOSE g : g = Walked(start, n, g)
  BY <1>1, <1>2
<1>4. step \in [Walks -> Walks] /\ \A w \in Walks : step[w] = Walk(w)
  BY WalkKeeps
<1> HIDE DEF step
<1>a. PICK g : Goes(g, Walks, start, step, n)
  BY <1>4, RoundsExist
<1>5. g \in [0 .. n -> Walks] /\ g[0] = start /\ \A k \in 1 .. n : g[k] = step[g[k - 1]]
  BY <1>a DEF Goes
<1>6. g = Walked(start, n, g)
  <2>1. ASSUME NEW k \in 0 .. n PROVE g[k] = IF k = 0 THEN start ELSE Walk(g[k - 1])
    <3>1. CASE k = 0
      BY <1>5, <3>1
    <3>2. CASE k # 0
      <4>1. k \in 1 .. n /\ k - 1 \in 0 .. n
        BY <3>2
      <4> QED
        BY <1>4, <1>5, <3>2, <4>1
    <3> QED
      BY <3>1, <3>2
  <2> QED
    BY <1>5, <2>1 DEF Walked
<1>7. E = Walked(start, n, E)
  BY <1>3, <1>6
<1>8. E[0] = start /\ \A k \in 1 .. n : E[k] = Walk(E[k - 1])
  <2>1. \A k \in 0 .. n : E[k] = IF k = 0 THEN start ELSE Walk(E[k - 1])
    BY <1>7 DEF Walked
  <2>2. 0 \in 0 .. n /\ \A k \in 1 .. n : k \in 0 .. n /\ k # 0
    OBVIOUS
  <2> QED
    BY <2>1, <2>2
<1> DEFINE P == {m \in Nat : m <= n => E[m] \in Walks /\ Keeps(E[m], start)}
<1>9. 0 \in P
  <2>1. Len(start.result) \in Nat
    BY DEF Walks
  <2>2. Keeps(start, start)
    BY <2>1 DEF Keeps
  <2> QED
    BY <1>8, <2>2
<1>10. ASSUME NEW m \in Nat, m \in P PROVE m + 1 \in P
  <2> SUFFICES ASSUME m + 1 <= n PROVE E[m + 1] \in Walks /\ Keeps(E[m + 1], start)
    OBVIOUS
  <2>1. m <= n /\ m + 1 \in 1 .. n /\ (m + 1) - 1 = m
    OBVIOUS
  <2>2. E[m] \in Walks /\ Keeps(E[m], start) /\ E[m + 1] = Walk(E[m])
    BY <1>8, <1>10, <2>1
  <2>3. E[m + 1] \in Walks /\ Keeps(E[m + 1], E[m])
    BY <2>2, WalkKeeps
  <2>4. \A w \in Walks : Len(w.result) \in Nat
    BY DEF Walks
  <2>5. Keeps(E[m + 1], start)
    BY <2>2, <2>3, <2>4, KeepsOn
  <2> QED
    BY <2>3, <2>5
<1> HIDE DEF P
<1>11. n \in P
  BY <1>9, <1>10, Induction
<1>12. E[n] \in Walks /\ Keeps(E[n], start)
  BY <1>11 DEF P
<1> QED
  BY <1>12 DEF E

\* The payments of equal amounts.
LEMMA OneToOneIs ==
    ASSUME NEW creditors \in Seq(Owed), NEW debitors \in Seq(Owing), NEW result \in Seq(Items),
           NEW w, w.creditors = creditors, w.debitors = debitors, w.result = result
    PROVE  /\ extractOneToOneSettlements(creditors, debitors, result).creditors \in Seq(Owed)
           /\ extractOneToOneSettlements(creditors, debitors, result).debitors \in Seq(Owing)
           /\ extractOneToOneSettlements(creditors, debitors, result).result \in Seq(Items)
           /\ Keeps(extractOneToOneSettlements(creditors, debitors, result), w)
<1> DEFINE start == [creditors |-> creditors, debitors |-> debitors, ci |-> 1, di |-> 1, result |-> result]
           n == Len(creditors) + Len(debitors)
           E == Rounds(LAMBDA v, k : Walk(v), start, n)
           one == E[n]
<1>1. start \in Walks /\ n \in Nat
  BY DEF Walks
<1>2. extractOneToOneSettlements(creditors, debitors, result) = one
  BY DEF extractOneToOneSettlements
<1>3. start.creditors = creditors /\ start.debitors = debitors /\ start.result = result
  OBVIOUS
<1> HIDE DEF start, n
<1>4. one \in Walks /\ Keeps(one, start)
  BY <1>1, WalksKeep
<1> HIDE DEF E, one
<1>5. Keeps(one, w)
  <2>1. \A P, N : Sided(P, N, w) => Sided(P, N, start)
    BY <1>3 DEF Sided
  <2> QED
    BY <1>3, <1>4, <2>1 DEF Keeps, Total, Open
<1>6. one.creditors \in Seq(Owed) /\ one.debitors \in Seq(Owing) /\ one.result \in Seq(Items)
  BY <1>4 DEF Walks
<1> QED
  BY <1>2, <1>5, <1>6

-----------------------------------------------------------------------------
(* The largest of both lists is paid. *)

\* What is left of a claim.
LEMMA LeftOwed ==
    ASSUME NEW list \in Seq(Owed), NEW b \in Owed, NEW amount \in Nat \ {0}, amount <= b[2]
    PROVE  /\ Left(list, b, amount) \in Seq(Owed)
           /\ Len(Left(list, b, amount)) = Len(list) + (IF b[2] > amount THEN 1 ELSE 0)
           /\ Weigh(Value, Left(list, b, amount)) = Weigh(Value, list) + (b[2] - amount)
           /\ \A a \in Accounts : Weigh(Claim(a), Left(list, b, amount))
                                  = Weigh(Claim(a), list) + (IF b[1] = a THEN b[2] - amount ELSE 0)
<1> DEFINE l == Left(list, b, amount)
           rest == b[2] - amount
           x == <<b[1], rest>>
<1>1. b[1] \in Accounts /\ b[2] \in Nat \ {0} /\ amount \in Nat /\ Abs(b[2]) = b[2] /\ Sign(b[2]) = 1
  BY WeightTypes DEF Abs, Sign
<1>2. b[2] - Sign(b[2]) * amount = rest
  BY <1>1
<1>3. l = IF b[2] > amount THEN Append(list, x) ELSE list
  BY <1>1, <1>2 DEF Left
<1>4. rest \in Int /\ (b[2] > amount => rest \in Nat \ {0}) /\ (~(b[2] > amount) => rest = 0)
  BY <1>1
<1>5. /\ Weighs(Value, Owed) /\ \A a \in Accounts : Weighs(Claim(a), Owed)
      /\ Weigh(Value, list) \in Int /\ \A a \in Accounts : Weigh(Claim(a), list) \in Int
  <2>1. Weighs(Value, Owed) /\ \A a \in Accounts : Weighs(Claim(a), Owed)
    BY WeightTypes DEF Weighs
  <2> QED
    BY <2>1, WeighType
<1>6. Len(list) \in Nat
  OBVIOUS
<1>7. CASE b[2] > amount
  <2>1. x \in Owed /\ x[1] = b[1] /\ x[2] = rest
    BY <1>1, <1>4, <1>7 DEF Owed
  <2> HIDE DEF x, rest
  <2>2. Value[x] = rest /\ \A a \in Accounts : Claim(a)[x] = IF b[1] = a THEN rest ELSE 0
    BY <2>1, WeightTypes
  <2>3. l = Append(list, x)
    BY <1>3, <1>7
  <2>4. Append(list, x) \in Seq(Owed) /\ Len(Append(list, x)) = Len(list) + 1
    BY <2>1
  <2>5. Weigh(Value, Append(list, x)) = Value[x] + Weigh(Value, list)
    BY <1>5, <2>1, WeighAppend
  <2>6. ASSUME NEW a \in Accounts
        PROVE  Weigh(Claim(a), Append(list, x)) = Weigh(Claim(a), list) + (IF b[1] = a THEN rest ELSE 0)
    <3> DEFINE q == Claim(a)
    <3>1. Weighs(q, Owed) /\ q[x] = (IF b[1] = a THEN rest ELSE 0) /\ Weigh(q, list) \in Int
      BY <1>5, <2>2
    <3> HIDE DEF q
    <3>2. Weigh(q, Append(list, x)) = q[x] + Weigh(q, list)
      BY <2>1, <3>1, WeighAppend
    <3> QED
      BY <1>4, <3>1, <3>2 DEF q
  <2>7. Weigh(Value, Append(list, x)) = Weigh(Value, list) + rest
    BY <1>4, <1>5, <2>2, <2>5
  <2> HIDE DEF l
  <2> QED
    BY <1>7, <2>3, <2>4, <2>6, <2>7 DEF l, rest
<1>8. CASE ~(b[2] > amount)
  <2>1. l = list /\ rest = 0
    BY <1>3, <1>4, <1>8
  <2> HIDE DEF l, rest
  <2>2. Weigh(Value, list) = Weigh(Value, list) + rest
    BY <1>5, <2>1
  <2>3. \A a \in Accounts : Weigh(Claim(a), list) = Weigh(Claim(a), list) + (IF b[1] = a THEN rest ELSE 0)
    BY <1>5, <2>1
  <2>4. Len(list) = Len(list) + 0
    BY <1>6
  <2> QED
    BY <1>8, <2>1, <2>2, <2>3, <2>4 DEF l, rest
<1> QED
  BY <1>7, <1>8

\* What is left of a debt.
LEMMA LeftOwing ==
    ASSUME NEW list \in Seq(Owing), NEW b \in Owing, NEW amount \in Nat \ {0}, amount <= -b[2]
    PROVE  /\ Left(list, b, amount) \in Seq(Owing)
           /\ Len(Left(list, b, amount)) = Len(list) + (IF -b[2] > amount THEN 1 ELSE 0)
           /\ Weigh(Value, Left(list, b, amount)) = Weigh(Value, list) + (b[2] + amount)
           /\ \A a \in Accounts : Weigh(Claim(a), Left(list, b, amount))
                                  = Weigh(Claim(a), list) + (IF b[1] = a THEN b[2] + amount ELSE 0)
<1> DEFINE l == Left(list, b, amount)
           rest == b[2] + amount
           x == <<b[1], rest>>
<1>1. b[1] \in Accounts /\ b[2] \in Int /\ b[2] < 0 /\ amount \in Nat /\ Abs(b[2]) = -b[2] /\ Sign(b[2]) = -1
  BY WeightTypes DEF Abs, Sign
<1>2. b[2] - Sign(b[2]) * amount = rest
  BY <1>1
<1>3. l = IF -b[2] > amount THEN Append(list, x) ELSE list
  BY <1>1, <1>2 DEF Left
<1>4. rest \in Int /\ (-b[2] > amount => rest < 0) /\ (~(-b[2] > amount) => rest = 0)
  BY <1>1
<1>5. /\ Weighs(Value, Owing) /\ \A a \in Accounts : Weighs(Claim(a), Owing)
      /\ Weigh(Value, list) \in Int /\ \A a \in Accounts : Weigh(Claim(a), list) \in Int
  <2>1. Weighs(Value, Owing) /\ \A a \in Accounts : Weighs(Claim(a), Owing)
    BY WeightTypes DEF Weighs
  <2> QED
    BY <2>1, WeighType
<1>6. Len(list) \in Nat
  OBVIOUS
<1>7. CASE -b[2] > amount
  <2>1. x \in Owing /\ x[1] = b[1] /\ x[2] = rest
    BY <1>1, <1>4, <1>7 DEF Owing
  <2> HIDE DEF x, rest
  <2>2. Value[x] = rest /\ \A a \in Accounts : Claim(a)[x] = IF b[1] = a THEN rest ELSE 0
    BY <2>1, WeightTypes
  <2>3. l = Append(list, x)
    BY <1>3, <1>7
  <2>4. Append(list, x) \in Seq(Owing) /\ Len(Append(list, x)) = Len(list) + 1
    BY <2>1
  <2>5. Weigh(Value, Append(list, x)) = Value[x] + Weigh(Value, list)
    BY <1>5, <2>1, WeighAppend
  <2>6. ASSUME NEW a \in Accounts
        PROVE  Weigh(Claim(a), Append(list, x)) = Weigh(Claim(a), list) + (IF b[1] = a THEN rest ELSE 0)
    <3> DEFINE q == Claim(a)
    <3>1. Weighs(q, Owing) /\ q[x] = (IF b[1] = a THEN rest ELSE 0) /\ Weigh(q, list) \in Int
      BY <1>5, <2>2
    <3> HIDE DEF q
    <3>2. Weigh(q, Append(list, x)) = q[x] + Weigh(q, list)
      BY <2>1, <3>1, WeighAppend
    <3> QED
      BY <1>4, <3>1, <3>2 DEF q
  <2>7. Weigh(Value, Append(list, x)) = Weigh(Value, list) + rest
    BY <1>4, <1>5, <2>2, <2>5
  <2> HIDE DEF l
  <2> QED
    BY <1>7, <2>3, <2>4, <2>6, <2>7 DEF l, rest
<1>8. CASE ~(-b[2] > amount)
  <2>1. l = list /\ rest = 0
    BY <1>3, <1>4, <1>8
  <2> HIDE DEF l, rest
  <2>2. Weigh(Value, list) = Weigh(Value, list) + rest
    BY <1>5, <2>1
  <2>3. \A a \in Accounts : Weigh(Claim(a), list) = Weigh(Claim(a), list) + (IF b[1] = a THEN rest ELSE 0)
    BY <1>5, <2>1
  <2>4. Len(list) = Len(list) + 0
    BY <1>6
  <2> QED
    BY <1>8, <2>1, <2>2, <2>3, <2>4 DEF l, rest
<1> QED
  BY <1>7, <1>8

Payings == [creditors : Seq(Owed), debitors : Seq(Owing), result : Seq(Items)]

\* One list is used up.
Stuck(p) == p.creditors = <<>> \/ p.debitors = <<>>
Claims(p) == Len(p.creditors) + Len(p.debitors)
Lines(p) == Len(p.result) + Claims(p)

\* The payment between the last of both lists.
LastPaid(p) ==
    LET c == Last(p.creditors)
        d == Last(p.debitors)
        amount == IF Abs(d[2]) > Abs(c[2]) THEN Abs(c[2]) ELSE Abs(d[2])
    IN  [creditors |-> Left(Front(p.creditors), c, amount), debitors |-> Left(Front(p.debitors), d, amount),
         result |-> Append(p.result, Item(d[1], c[1], amount))]

\* What is left of a claim is a claim of the same account.
LEMMA LeftSame ==
    ASSUME NEW P, NEW V, NEW list \in Seq(P \X V), NEW b, b[1] \in P, NEW amount,
           Abs(b[2]) > amount => b[2] - Sign(b[2]) * amount \in V
    PROVE  Left(list, b, amount) \in Seq(P \X V)
  BY DEF Left

\* The last entry of a list, and the others.
LEMMA LastOf ==
    ASSUME NEW X, NEW s \in Seq(X), s # <<>>
    PROVE  Front(s) \in Seq(X) /\ Last(s) \in X
<1> DEFINE w == [x \in X |-> 0]
<1>1. Weighs(w, X)
  BY DEF Weighs
<1> HIDE DEF w
<1> QED
  BY <1>1, WeighFront

\* It leaves what is open of everybody, and one of the two is done.
LEMMA LastPaidKeeps ==
    ASSUME NEW p, p.creditors \in Seq(Owed), p.debitors \in Seq(Owing), p.result \in Seq(Items), ~Stuck(p)
    PROVE  /\ LastPaid(p) \in Payings
           /\ Total(LastPaid(p)) = Total(p) /\ \A a \in Accounts : Open(a, LastPaid(p)) = Open(a, p)
           /\ Claims(LastPaid(p)) < Claims(p) /\ Lines(LastPaid(p)) <= Lines(p)
           /\ LastPaid(p).creditors = <<>> /\ LastPaid(p).debitors = <<>> => Lines(LastPaid(p)) < Lines(p)
           /\ \A P, N : Sided(P, N, p) => Sided(P, N, LastPaid(p))
<1> DEFINE C == p.creditors
           D == p.debitors
           R == p.result
           c == Last(C)
           d == Last(D)
           m == c[2]
           n == -d[2]
           amount == IF Abs(d[2]) > Abs(c[2]) THEN Abs(c[2]) ELSE Abs(d[2])
           x == Item(d[1], c[1], amount)
           C1 == Left(Front(C), c, amount)
           D1 == Left(Front(D), d, amount)
           R1 == Append(R, x)
           v == LastPaid(p)
<1>1. C \in Seq(Owed) /\ C # <<>> /\ D \in Seq(Owing) /\ D # <<>> /\ R \in Seq(Items)
  BY DEF Stuck
<1>2. v = [creditors |-> C1, debitors |-> D1, result |-> R1]
  BY DEF LastPaid
<1> HIDE DEF C, D, R, v
<1>3. /\ Front(C) \in Seq(Owed) /\ c \in Owed /\ Len(Front(C)) = Len(C) - 1 /\ Len(C) \in Nat \ {0}
      /\ \A q : Weighs(q, Owed) => Weigh(q, C) = q[c] + Weigh(q, Front(C))
  <2>1. ASSUME NEW q, Weighs(q, Owed)
        PROVE  /\ Front(C) \in Seq(Owed) /\ c \in Owed /\ Len(Front(C)) = Len(C) - 1 /\ Len(C) \in Nat \ {0}
               /\ Weigh(q, C) = q[c] + Weigh(q, Front(C))
    BY <1>1, <2>1, WeighFront
  <2>2. Weighs(Value, Owed)
    BY WeightTypes DEF Weighs
  <2> HIDE DEF c
  <2> QED
    BY <2>1, <2>2
<1>4. /\ Front(D) \in Seq(Owing) /\ d \in Owing /\ Len(Front(D)) = Len(D) - 1 /\ Len(D) \in Nat \ {0}
      /\ \A q : Weighs(q, Owing) => Weigh(q, D) = q[d] + Weigh(q, Front(D))
  <2>1. ASSUME NEW q, Weighs(q, Owing)
        PROVE  /\ Front(D) \in Seq(Owing) /\ d \in Owing /\ Len(Front(D)) = Len(D) - 1 /\ Len(D) \in Nat \ {0}
               /\ Weigh(q, D) = q[d] + Weigh(q, Front(D))
    BY <1>1, <2>1, WeighFront
  <2>2. Weighs(Value, Owing)
    BY WeightTypes DEF Weighs
  <2> HIDE DEF d
  <2> QED
    BY <2>1, <2>2
<1> HIDE DEF c, d
<1>5. /\ c[1] \in Accounts /\ d[1] \in Accounts
      /\ m \in Nat \ {0} /\ d[2] \in Int /\ d[2] < 0 /\ n \in Nat \ {0} /\ d[2] = -n
      /\ Value[c] = m /\ Value[d] = d[2]
  BY <1>3, <1>4, WeightTypes
<1>6. Abs(c[2]) = m /\ Abs(d[2]) = n
  BY <1>5 DEF Abs
<1>7. amount = IF n > m THEN m ELSE n
  BY <1>6
<1> HIDE DEF amount
<1>8. amount \in Nat \ {0} /\ amount <= m /\ amount <= n /\ (amount = m \/ amount = n)
  <2> HIDE DEF m, n
  <2> QED
    BY <1>5, <1>7
<1>9. x \in Items /\ \A a \in Accounts : Paid(a)[x] = (IF d[1] = a THEN amount ELSE 0) - (IF c[1] = a THEN amount ELSE 0)
  <2>1. d[1] \in Accounts /\ c[1] \in Accounts /\ amount \in Nat \ {0}
    BY <1>5, <1>8
  <2> DEFINE payer == d[1]
             payee == c[1]
  <2> HIDE DEF payer, payee
  <2>2. payer \in Accounts /\ payee \in Accounts /\ x = Item(payer, payee, amount)
    BY <2>1 DEF payer, payee
  <2>3. x \in Items /\ \A a \in Accounts : Paid(a)[x] = (IF payer = a THEN amount ELSE 0) - (IF payee = a THEN amount ELSE 0)
    <3> HIDE DEF x
    <3> QED
      BY <2>1, <2>2, ItemPays
  <2> QED
    BY <2>3 DEF payer, payee
<1>10. /\ C1 \in Seq(Owed)
       /\ Len(C1) = Len(Front(C)) + (IF m > amount THEN 1 ELSE 0)
       /\ Weigh(Value, C1) = Weigh(Value, Front(C)) + (m - amount)
       /\ \A a \in Accounts : Weigh(Claim(a), C1) = Weigh(Claim(a), Front(C)) + (IF c[1] = a THEN m - amount ELSE 0)
  BY <1>3, <1>8, LeftOwed
<1>11. /\ D1 \in Seq(Owing)
       /\ Len(D1) = Len(Front(D)) + (IF n > amount THEN 1 ELSE 0)
       /\ Weigh(Value, D1) = Weigh(Value, Front(D)) + (d[2] + amount)
       /\ \A a \in Accounts : Weigh(Claim(a), D1) = Weigh(Claim(a), Front(D)) + (IF d[1] = a THEN d[2] + amount ELSE 0)
  BY <1>4, <1>8, LeftOwing
<1>12. R1 \in Seq(Items) /\ Len(R1) = Len(R) + 1 /\ Len(R) \in Nat
  <2> HIDE DEF x
  <2> QED
    BY <1>1, <1>9
<1> HIDE DEF x, C1, D1, R1
<1>13. v.creditors = C1 /\ v.debitors = D1 /\ v.result = R1 /\ v \in Payings
  BY <1>2, <1>10, <1>11, <1>12 DEF Payings
<1>14. Total(v) = Total(p)
  <2> DEFINE A == Weigh(Value, Front(C))
             B == Weigh(Value, Front(D))
  <2>1. Weighs(Value, Owed) /\ Weighs(Value, Owing)
    BY WeightTypes DEF Weighs
  <2>2. A \in Int
    BY <1>3, <2>1, WeighType
  <2>3. B \in Int
    BY <1>4, <2>1, WeighType
  <2>4. Total(p) = (m + A) + (d[2] + B)
    BY <1>3, <1>4, <1>5, <2>1 DEF Total, C, D
  <2>5. Total(v) = (A + (m - amount)) + (B + (d[2] + amount))
    BY <1>10, <1>11, <1>13 DEF Total
  <2> HIDE DEF A, B, m, n
  <2> QED
    BY <1>5, <1>8, <2>2, <2>3, <2>4, <2>5
<1>15. ASSUME NEW a \in Accounts PROVE Open(a, v) = Open(a, p)
  <2> DEFINE q == Claim(a)
             w == Paid(a)
             A == Weigh(q, Front(C))
             B == Weigh(q, Front(D))
             P == Weigh(w, R)
  <2>1. Weighs(q, Owed) /\ Weighs(q, Owing) /\ Weighs(w, Items)
    BY WeightTypes DEF Weighs
  <2>2. A \in Int
    BY <1>3, <2>1, WeighType
  <2>3. B \in Int
    BY <1>4, <2>1, WeighType
  <2>4. P \in Int
    BY <1>1, <2>1, WeighType
  <2>5. q[c] = (IF c[1] = a THEN m ELSE 0) /\ q[d] = (IF d[1] = a THEN d[2] ELSE 0)
    BY <1>3, <1>4, WeightTypes
  <2>6. w[x] = (IF d[1] = a THEN amount ELSE 0) - (IF c[1] = a THEN amount ELSE 0)
    BY <1>9
  <2>7. /\ Weigh(q, C1) = A + (IF c[1] = a THEN m - amount ELSE 0)
        /\ Weigh(q, D1) = B + (IF d[1] = a THEN d[2] + amount ELSE 0)
    BY <1>10, <1>11
  <2>8. Open(a, p) = Weigh(q, C) + Weigh(q, D) - P
    BY DEF Open, C, D, R
  <2>9. Open(a, v) = Weigh(q, C1) + Weigh(q, D1) - Weigh(w, R1)
    BY <1>13 DEF Open
  <2> HIDE DEF q, w
  <2>10. Weigh(q, C) = q[c] + A /\ Weigh(q, D) = q[d] + B
    BY <1>3, <1>4, <2>1
  <2>11. Weigh(w, R1) = w[x] + P
    <3>1. R \in Seq(Items) /\ x \in Items
      BY <1>1, <1>9
    <3>2. Append(R, x) \in Seq(Items) /\ Weigh(w, Append(R, x)) = w[x] + Weigh(w, R)
      BY <2>1, <3>1, WeighAppend
    <3> QED
      BY <3>2 DEF R1
  <2>12. Open(a, p) = ((IF c[1] = a THEN m ELSE 0) + A) + ((IF d[1] = a THEN d[2] ELSE 0) + B) - P
    BY <2>5, <2>8, <2>10
  <2>13. Open(a, v) = (A + (IF c[1] = a THEN m - amount ELSE 0)) + (B + (IF d[1] = a THEN d[2] + amount ELSE 0))
                      - (((IF d[1] = a THEN amount ELSE 0) - (IF c[1] = a THEN amount ELSE 0)) + P)
    BY <2>6, <2>7, <2>9, <2>11
  <2> DEFINE k == d[2]
  <2> HIDE DEF A, B, P, m, n, k
  <2>14. m \in Int /\ k \in Int /\ amount \in Int
    BY <1>5, <1>8 DEF k
  <2>15. Open(a, p) = ((IF c[1] = a THEN m ELSE 0) + A) + ((IF d[1] = a THEN k ELSE 0) + B) - P
    BY <2>12 DEF k
  <2>16. Open(a, v) = (A + (IF c[1] = a THEN m - amount ELSE 0)) + (B + (IF d[1] = a THEN k + amount ELSE 0))
                      - (((IF d[1] = a THEN amount ELSE 0) - (IF c[1] = a THEN amount ELSE 0)) + P)
    BY <2>13 DEF k
  <2> QED
    BY <2>2, <2>3, <2>4, <2>14, <2>15, <2>16
<1>16. /\ Claims(v) < Claims(p) /\ Lines(v) <= Lines(p)
       /\ v.creditors = <<>> /\ v.debitors = <<>> => Lines(v) < Lines(p)
  <2> DEFINE e == Len(C)
             f == Len(D)
             g == Len(R)
  <2>1. /\ Len(C1) = (e - 1) + (IF m > amount THEN 1 ELSE 0)
        /\ Len(D1) = (f - 1) + (IF n > amount THEN 1 ELSE 0)
        /\ Len(R1) = g + 1
    BY <1>3, <1>4, <1>10, <1>11, <1>12
  <2>2. e \in Nat \ {0} /\ f \in Nat \ {0} /\ g \in Nat
    BY <1>3, <1>4, <1>12
  <2>3. /\ Claims(p) = e + f /\ Lines(p) = g + (e + f)
        /\ Claims(v) = Len(C1) + Len(D1) /\ Lines(v) = Len(R1) + (Len(C1) + Len(D1))
    BY <1>13 DEF Claims, Lines, C, D, R
  <2>4. v.creditors = <<>> /\ v.debitors = <<>> => Len(C1) = 0 /\ Len(D1) = 0
    BY <1>13
  <2> HIDE DEF e, f, g, m, n
  <2> DEFINE h == IF m > amount THEN 1 ELSE 0
             i == IF n > amount THEN 1 ELSE 0
  <2>5. h \in Nat /\ i \in Nat /\ h + i <= 1
    BY <1>5, <1>8
  <2> HIDE DEF h, i
  <2>6. Len(C1) = (e - 1) + h /\ Len(D1) = (f - 1) + i
    BY <2>1 DEF h, i
  <2>7. Claims(v) < Claims(p) /\ Lines(v) <= Lines(p)
    BY <2>1, <2>2, <2>3, <2>5, <2>6
  <2>8. ASSUME v.creditors = <<>>, v.debitors = <<>> PROVE Lines(v) < Lines(p)
    BY <2>1, <2>2, <2>3, <2>4, <2>5, <2>6, <2>8
  <2> QED
    BY <2>7, <2>8
<1>17. ASSUME NEW P, NEW N, Sided(P, N, p) PROVE Sided(P, N, v)
  <2> DEFINE U == Nat \ {0}
             W == {k \in Int : k < 0}
             Z == [creditorId : N, debitorId : P, paymentAmount : U]
  <2>1. C \in Seq(P \X U) /\ D \in Seq(N \X W) /\ R \in Seq(Z)
    BY <1>17 DEF Sided, C, D, R
  <2>2. Abs(c[2]) > amount => c[2] - Sign(c[2]) * amount \in U
    <3>1. Sign(c[2]) = 1 /\ Abs(c[2]) = m
      BY <1>5, <1>6 DEF Sign
    <3>2. 1 * amount = amount
      BY <1>8
    <3> QED
      BY <1>5, <1>8, <3>1, <3>2
  <2>3. Abs(d[2]) > amount => d[2] - Sign(d[2]) * amount \in W
    <3>1. Sign(d[2]) = -1 /\ Abs(d[2]) = n
      BY <1>5, <1>6 DEF Sign
    <3>2. (-1) * amount = -amount
      BY <1>8
    <3> QED
      BY <1>5, <1>8, <3>1, <3>2
  <2> HIDE DEF U, W
  <2>4. Front(C) \in Seq(P \X U) /\ c \in P \X U /\ Front(D) \in Seq(N \X W) /\ d \in N \X W
    BY <1>1, <2>1, LastOf DEF c, d
  <2>5. c[1] \in P /\ d[1] \in N
    BY <2>4
  <2>6. C1 \in Seq(P \X U) /\ D1 \in Seq(N \X W)
    BY <2>2, <2>3, <2>4, <2>5, LeftSame DEF C1, D1
  <2>7. x \in Z
    BY <1>8, <2>5 DEF x, Item, U
  <2>8. R1 \in Seq(Z)
    BY <2>1, <2>7 DEF R1
  <2> QED
    BY <1>13, <2>6, <2>8 DEF Sided, U, W
<1> QED
  BY <1>13, <1>14, <1>15, <1>16, <1>17 DEF v

\* Nobody is owed nothing.
LEMMA NothingOwed ==
    ASSUME NEW s \in Seq(Owed), Weigh(Value, s) = 0
    PROVE  s = <<>>
<1> DEFINE f == Weights(Value, s)
           D == DOMAIN s
<1>1. Len(s) \in Nat /\ D = 1 .. Len(s) /\ IsFiniteSet(D)
  <2>1. Weighs(Value, Owed)
    BY WeightTypes DEF Weighs
  <2> QED
    BY <2>1, WeighType
<1>2. f \in [D -> Nat] /\ \A i \in D : f[i] > 0
  <2>1. \A i \in D : s[i] \in Owed
    OBVIOUS
  <2>2. \A i \in D : Value[s[i]] \in Nat /\ Value[s[i]] > 0
    BY <2>1, WeightTypes
  <2> QED
    BY <2>2 DEF Weights
<1>3. Sum(f) = 0
  BY DEF Weigh
<1> HIDE DEF f, D
<1>4. Sum(f) \in Nat /\ \A i \in D : f[i] <= Sum(f)
  BY <1>1, <1>2, SumNat
<1>5. \A i \in D : f[i] <= 0 /\ f[i] > 0 /\ f[i] \in Nat
  BY <1>2, <1>3, <1>4
<1>6. D = {}
  BY <1>5
<1>7. Len(s) = 0
  BY <1>1, <1>6
<1> QED
  BY <1>7

\* Nobody owes nothing.
LEMMA NothingOwing ==
    ASSUME NEW s \in Seq(Owing), Weigh(Value, s) = 0
    PROVE  s = <<>>
<1> DEFINE f == Weights(Value, s)
           D == DOMAIN s
           g == [i \in D |-> (-1) * f[i]]
<1>1. Len(s) \in Nat /\ D = 1 .. Len(s) /\ IsFiniteSet(D)
  <2>1. Weighs(Value, Owing)
    BY WeightTypes DEF Weighs
  <2> QED
    BY <2>1, WeighType
<1>2. f \in [D -> Int] /\ \A i \in D : f[i] < 0
  <2>1. \A i \in D : s[i] \in Owing
    OBVIOUS
  <2>2. \A i \in D : Value[s[i]] \in Int /\ Value[s[i]] < 0
    BY <2>1, WeightTypes
  <2> QED
    BY <2>2 DEF Weights
<1>3. Sum(f) = 0
  BY DEF Weigh
<1> HIDE DEF f, D
<1>4. g \in [D -> Nat] /\ \A i \in D : g[i] > 0
  BY <1>2
<1>5. Sum(g) = (-1) * Sum(f)
  BY <1>1, <1>2, SumTimes
<1> HIDE DEF g
<1>6. Sum(g) = 0
  BY <1>3, <1>5
<1>7. Sum(g) \in Nat /\ \A i \in D : g[i] <= Sum(g)
  BY <1>1, <1>4, SumNat
<1>8. \A i \in D : g[i] <= 0 /\ g[i] > 0 /\ g[i] \in Nat
  BY <1>4, <1>6, <1>7
<1>9. D = {}
  BY <1>8
<1>10. Len(s) = 0
  BY <1>1, <1>9
<1> QED
  BY <1>10

\* The amounts by which a list is sorted.
Sizes(list) == Map(LAMBDA b : Abs(b[2]), list)

\* A list sorted by amounts.
LEMMA SortedIs ==
    ASSUME NEW X, \A b \in X : b[2] \in Int, NEW list \in Seq(X)
    PROVE  /\ StableSort(list, Sizes(list)) \in Seq(X) /\ Len(StableSort(list, Sizes(list))) = Len(list)
           /\ \A w : Weighs(w, X) => Weigh(w, StableSort(list, Sizes(list))) = Weigh(w, list)
<1> DEFINE keys == Sizes(list)
<1>1. \A i \in DOMAIN list : keys[i] \in Int
  <2>1. keys = [i \in DOMAIN list |-> Abs(list[i][2])]
    BY ComputedIs DEF Sizes, Map
  <2>2. ASSUME NEW i \in DOMAIN list PROVE Abs(list[i][2]) \in Int
    <3> DEFINE x == list[i][2]
    <3>1. x \in Int
      OBVIOUS
    <3> HIDE DEF x
    <3>2. Abs(x) \in Int
      BY <3>1 DEF Abs
    <3> QED
      BY <3>2 DEF x
  <2> QED
    BY <2>1, <2>2
<1> HIDE DEF keys
<1>2. StableSort(list, keys) \in Seq(X) /\ Len(StableSort(list, keys)) = Len(list)
  BY <1>1, StableSortIs
<1>3. \A w : Weighs(w, X) => Weigh(w, StableSort(list, keys)) = Weigh(w, list)
  BY <1>1, SortWeighs
<1> QED
  BY <1>2, <1>3 DEF keys

\* Both lists in order, without the equal amounts.
OneToOne(p) ==
    extractOneToOneSettlements(StableSort(p.creditors, Sizes(p.creditors)),
                               StableSort(p.debitors, Sizes(p.debitors)), p.result)

\* What remains of p in some order.
LEMMA OneToOneKeeps ==
    ASSUME NEW p \in Payings
    PROVE  /\ OneToOne(p).creditors \in Seq(Owed) /\ OneToOne(p).debitors \in Seq(Owing) /\ OneToOne(p).result \in Seq(Items)
           /\ Keeps(OneToOne(p), p)
<1> DEFINE c == StableSort(p.creditors, Sizes(p.creditors))
           d == StableSort(p.debitors, Sizes(p.debitors))
           w == [creditors |-> c, debitors |-> d, result |-> p.result]
           one == OneToOne(p)
<1>1. p.creditors \in Seq(Owed) /\ p.debitors \in Seq(Owing) /\ p.result \in Seq(Items)
  BY DEF Payings
<1>2. /\ c \in Seq(Owed) /\ Len(c) = Len(p.creditors)
      /\ \A q : Weighs(q, Owed) => Weigh(q, c) = Weigh(q, p.creditors)
  <2>1. \A b \in Owed : b[2] \in Int
    BY WeightTypes
  <2> QED
    BY <1>1, <2>1, SortedIs
<1>3. /\ d \in Seq(Owing) /\ Len(d) = Len(p.debitors)
      /\ \A q : Weighs(q, Owing) => Weigh(q, d) = Weigh(q, p.debitors)
  <2>1. \A b \in Owing : b[2] \in Int
    BY WeightTypes
  <2> QED
    BY <1>1, <2>1, SortedIs
<1>4. one = extractOneToOneSettlements(c, d, p.result)
  BY DEF OneToOne
<1> HIDE DEF c, d, one
<1>5. w.creditors = c /\ w.debitors = d /\ w.result = p.result
  OBVIOUS
<1> HIDE DEF w
<1>6. /\ one.creditors \in Seq(Owed) /\ one.debitors \in Seq(Owing) /\ one.result \in Seq(Items)
      /\ Keeps(one, w)
  BY <1>1, <1>2, <1>3, <1>4, <1>5, OneToOneIs
<1>7. Total(w) = Total(p)
  <2>1. Weighs(Value, Owed) /\ Weighs(Value, Owing)
    BY WeightTypes DEF Weighs
  <2> QED
    BY <1>2, <1>3, <1>5, <2>1 DEF Total
<1>8. ASSUME NEW a \in Accounts PROVE Open(a, w) = Open(a, p)
  <2>1. Weighs(Claim(a), Owed) /\ Weighs(Claim(a), Owing)
    BY WeightTypes DEF Weighs
  <2> QED
    BY <1>2, <1>3, <1>5, <2>1 DEF Open
<1>9. ASSUME NEW P, NEW N, Sided(P, N, p) PROVE Sided(P, N, w)
  <2> DEFINE X == P \X (Nat \ {0})
             Y == N \X {k \in Int : k < 0}
  <2>1. p.creditors \in Seq(X) /\ p.debitors \in Seq(Y)
    BY <1>9 DEF Sided
  <2>2. \A b \in X : b[2] \in Int
    OBVIOUS
  <2>3. \A b \in Y : b[2] \in Int
    OBVIOUS
  <2> HIDE DEF X, Y
  <2>4. c \in Seq(X) /\ d \in Seq(Y)
    BY <2>1, <2>2, <2>3, SortedIs DEF c, d
  <2> QED
    BY <1>5, <1>9, <2>4 DEF Sided, X, Y
<1>10. Keeps(one, p)
  BY <1>2, <1>3, <1>5, <1>6, <1>7, <1>8, <1>9 DEF Keeps
<1> QED
  BY <1>6, <1>10 DEF one

\* What is counted of payments.
LEMMA Counts ==
    ASSUME NEW p, Len(p.creditors) \in Nat, Len(p.debitors) \in Nat, Len(p.result) \in Nat
    PROVE  /\ Claims(p) \in Nat /\ Claims(p) = Len(p.creditors) + Len(p.debitors)
           /\ Lines(p) \in Nat /\ Lines(p) = Len(p.result) + Claims(p)
<1> DEFINE a == Len(p.creditors)
           b == Len(p.debitors)
           c == Len(p.result)
<1>1. a \in Nat /\ b \in Nat /\ c \in Nat /\ Claims(p) = a + b /\ Lines(p) = c + Claims(p)
  BY DEF Claims, Lines
<1> HIDE DEF a, b, c
<1>2. Claims(p) \in Nat /\ Lines(p) \in Nat
  BY <1>1
<1> QED
  BY <1>1, <1>2 DEF a, b, c

\* One list is used up, and the other one is dropped.
UsedUp(p) == [creditors |-> <<>>, debitors |-> <<>>, result |-> p.result]

\* A round, by its cases.
LEMMA PayIs ==
    ASSUME NEW p \in Payings
    PROVE  Pay(p) = IF Stuck(p) THEN p ELSE IF Stuck(OneToOne(p)) THEN UsedUp(OneToOne(p)) ELSE LastPaid(OneToOne(p))
<1>1. OneToOne(p) = extractOneToOneSettlements(StableSort(p.creditors, Map(LAMBDA b : Abs(b[2]), p.creditors)),
                                               StableSort(p.debitors, Map(LAMBDA b : Abs(b[2]), p.debitors)), p.result)
  BY DEF OneToOne, Sizes
<1> DEFINE one == OneToOne(p)
<1> HIDE DEF one
<1>2. Pay(p) = IF p.creditors = <<>> \/ p.debitors = <<>> THEN p
               ELSE IF one.creditors = <<>> \/ one.debitors = <<>>
                    THEN [creditors |-> <<>>, debitors |-> <<>>, result |-> one.result]
               ELSE LastPaid(one)
  BY <1>1 DEF Pay, LastPaid, one
<1> QED
  BY <1>2 DEF Stuck, UsedUp, one

\* Whether everything is settled.
Settled(p) == p.creditors = <<>> /\ p.debitors = <<>>
Balanced(p, all) == Total(p) = 0 /\ \A a \in Accounts : Open(a, p) = all[a]

\* A round brings the end nearer, with at most one payment for each claim that it
\* settles, and leaves what is open of everybody.
LEMMA PayKeeps ==
    ASSUME NEW p \in Payings
    PROVE  /\ Pay(p) \in Payings
           /\ Stuck(p) => Pay(p) = p
           /\ ~Stuck(p) => /\ Claims(Pay(p)) < Claims(p) /\ Lines(Pay(p)) <= Lines(p)
                           /\ (Settled(Pay(p)) => Lines(Pay(p)) < Lines(p))
           /\ \A all : Balanced(p, all) => Balanced(Pay(p), all)
<1> DEFINE one == OneToOne(p)
           v == Pay(p)
<1>1. /\ one.creditors \in Seq(Owed) /\ one.debitors \in Seq(Owing) /\ one.result \in Seq(Items)
      /\ Keeps(one, p)
  BY OneToOneKeeps
<1>2. v = IF Stuck(p) THEN p ELSE IF Stuck(one) THEN UsedUp(one) ELSE LastPaid(one)
  BY PayIs
<1> HIDE DEF one, v
<1>3. /\ Len(p.creditors) \in Nat /\ Len(p.debitors) \in Nat /\ Len(p.result) \in Nat
      /\ Len(one.creditors) \in Nat /\ Len(one.debitors) \in Nat /\ Len(one.result) \in Nat
  <2>1. p.creditors \in Seq(Owed) /\ p.debitors \in Seq(Owing) /\ p.result \in Seq(Items)
    BY DEF Payings
  <2> QED
    BY <1>1, <2>1
<1>k. /\ Len(one.result) + Len(one.creditors) = Len(p.result) + Len(p.creditors)
      /\ Len(one.result) + Len(one.debitors) = Len(p.result) + Len(p.debitors)
      /\ Len(one.result) >= Len(p.result)
  BY <1>1 DEF Keeps
<1>n. /\ Claims(p) = Len(p.creditors) + Len(p.debitors) /\ Lines(p) = Len(p.result) + Claims(p)
      /\ Claims(one) = Len(one.creditors) + Len(one.debitors) /\ Lines(one) = Len(one.result) + Claims(one)
  BY DEF Claims, Lines
<1>4. /\ Claims(one) <= Claims(p) /\ Lines(one) <= Lines(p)
      /\ Claims(p) \in Nat /\ Claims(one) \in Nat /\ Lines(p) \in Nat /\ Lines(one) \in Nat
  <2> DEFINE a == Len(p.creditors)
             b == Len(p.debitors)
             c == Len(p.result)
             d == Len(one.creditors)
             e == Len(one.debitors)
             f == Len(one.result)
  <2>1. /\ a \in Nat /\ b \in Nat /\ c \in Nat /\ d \in Nat /\ e \in Nat /\ f \in Nat
        /\ f + d = c + a /\ f + e = c + b /\ f >= c
        /\ Claims(p) = a + b /\ Lines(p) = c + (a + b) /\ Claims(one) = d + e /\ Lines(one) = f + (d + e)
    BY <1>3, <1>k, <1>n
  <2> HIDE DEF a, b, c, d, e, f
  <2> QED
    BY <2>1
<1>5. \A all : Balanced(p, all) => Balanced(one, all)
  BY <1>1 DEF Keeps, Balanced
<1>6. CASE Stuck(p)
  <2>1. v = p
    BY <1>2, <1>6
  <2> QED
    BY <1>6, <2>1 DEF v
<1>7. CASE ~Stuck(p) /\ Stuck(one)
  <2>1. v = UsedUp(one)
    BY <1>2, <1>7
  <2>2. v.creditors = <<>> /\ v.debitors = <<>> /\ v.result = one.result
    BY <2>1 DEF UsedUp
  <2>3. v \in Payings
    BY <1>1, <2>1 DEF UsedUp, Payings
  <2>4. Claims(v) = 0 /\ Lines(v) = Len(one.result)
    <3>1. Len(v.creditors) = 0 /\ Len(v.debitors) = 0
      BY <2>2
    <3>2. Claims(v) = 0 + 0
      BY <3>1 DEF Claims
    <3>3. Lines(v) = Len(one.result) + 0
      BY <2>2, <3>2 DEF Lines
    <3> QED
      BY <1>3, <3>2, <3>3
  <2>5. Len(p.creditors) > 0 /\ Len(p.debitors) > 0
    BY <1>3, <1>7 DEF Stuck, Payings
  <2>6. Claims(v) < Claims(p)
    <3> DEFINE a == Len(p.creditors)
               b == Len(p.debitors)
    <3>1. a \in Nat /\ b \in Nat /\ a > 0 /\ b > 0 /\ Claims(p) = a + b /\ Claims(v) = 0
      BY <1>3, <1>n, <2>4, <2>5
    <3> HIDE DEF a, b
    <3> QED
      BY <3>1
  <2>7. Lines(v) < Lines(p)
    <3>1. /\ Len(one.result) + Len(one.creditors) = Len(p.result) + Len(p.creditors)
          /\ Len(one.result) + Len(one.debitors) = Len(p.result) + Len(p.debitors)
          /\ Len(one.creditors) = 0 \/ Len(one.debitors) = 0
      BY <1>1, <1>7 DEF Keeps, Stuck
    <3> DEFINE a == Len(p.creditors)
               b == Len(p.debitors)
               c == Len(p.result)
               d == Len(one.creditors)
               e == Len(one.debitors)
               f == Len(one.result)
    <3>2. /\ a \in Nat /\ b \in Nat /\ c \in Nat /\ d \in Nat /\ e \in Nat /\ f \in Nat
          /\ f + d = c + a /\ f + e = c + b /\ (d = 0 \/ e = 0) /\ a > 0 /\ b > 0
          /\ Lines(p) = c + (a + b) /\ Lines(v) = f
      BY <1>3, <1>n, <2>4, <2>5, <3>1
    <3> HIDE DEF a, b, c, d, e, f
    <3> QED
      BY <3>2
  <2>8. ASSUME NEW all, Balanced(p, all) PROVE Balanced(v, all)
    <3>1. Total(one) = 0 /\ \A a \in Accounts : Open(a, one) = all[a]
      BY <1>5, <2>8 DEF Balanced
    <3>2. one.creditors = <<>> /\ one.debitors = <<>>
      <4>1. Weighs(Value, Owed) /\ Weighs(Value, Owing)
        BY WeightTypes DEF Weighs
      <4>2. Weigh(Value, one.creditors) \in Int
        BY <1>1, <4>1, WeighType
      <4>3. Weigh(Value, one.debitors) \in Int
        BY <1>1, <4>1, WeighType
      <4>4. Weigh(Value, one.creditors) + Weigh(Value, one.debitors) = 0
        BY <3>1 DEF Total
      <4>5. CASE one.creditors = <<>>
        <5>1. Weigh(Value, one.creditors) = 0
          BY <4>5, WeighEmpty
        <5>2. Weigh(Value, one.debitors) = 0
          BY <4>3, <4>4, <5>1
        <5> QED
          BY <1>1, <4>5, <5>2, NothingOwing
      <4>6. CASE one.debitors = <<>>
        <5>1. Weigh(Value, one.debitors) = 0
          BY <4>6, WeighEmpty
        <5>2. Weigh(Value, one.creditors) = 0
          BY <4>2, <4>4, <5>1
        <5> QED
          BY <1>1, <4>6, <5>2, NothingOwed
      <4> QED
        BY <1>7, <4>5, <4>6 DEF Stuck
    <3>3. v.creditors = one.creditors /\ v.debitors = one.debitors /\ v.result = one.result
      BY <2>2, <3>2
    <3>4. Total(v) = Total(one) /\ \A a \in Accounts : Open(a, v) = Open(a, one)
      BY <3>3 DEF Total, Open
    <3> QED
      BY <3>1, <3>4 DEF Balanced
  <2>9. Lines(v) <= Lines(p)
    BY <1>3, <1>4, <2>4, <2>7
  <2> QED
    BY <1>7, <2>3, <2>6, <2>7, <2>8, <2>9 DEF v
<1>8. CASE ~Stuck(p) /\ ~Stuck(one)
  <2>1. v = LastPaid(one)
    BY <1>2, <1>8
  <2>2. /\ v \in Payings
        /\ Total(v) = Total(one) /\ \A a \in Accounts : Open(a, v) = Open(a, one)
        /\ Claims(v) < Claims(one) /\ Lines(v) <= Lines(one)
        /\ v.creditors = <<>> /\ v.debitors = <<>> => Lines(v) < Lines(one)
    BY <1>1, <1>8, <2>1, LastPaidKeeps
  <2>3. Claims(v) \in Nat /\ Lines(v) \in Nat
    <3>1. Len(v.creditors) \in Nat /\ Len(v.debitors) \in Nat /\ Len(v.result) \in Nat
      BY <2>2 DEF Payings
    <3> QED
      BY <3>1, Counts
  <2>4. Claims(v) < Claims(p) /\ Lines(v) <= Lines(p) /\ (Settled(v) => Lines(v) < Lines(p))
    BY <1>4, <2>2, <2>3 DEF Settled
  <2>5. \A all : Balanced(p, all) => Balanced(v, all)
    BY <1>5, <2>2 DEF Balanced
  <2> QED
    BY <1>8, <2>2, <2>4, <2>5 DEF v
<1> QED
  BY <1>6, <1>7, <1>8

\* All that has been paid was open when all was: perhaps something is left that
\* nobody can be paid from, or pay to.
Justified(P, N, all, r) ==
    \E q \in Payings : q.result = r /\ Sided(P, N, q) /\ \A a \in Accounts : Open(a, q) = all[a]
Follows(P, N, all, p) ==
    \/ Sided(P, N, p) /\ \A a \in Accounts : Open(a, p) = all[a]
    \/ Stuck(p) /\ Justified(P, N, all, p.result)

\* A round pays what was open.
LEMMA PayFollows ==
    ASSUME NEW P, NEW N, NEW all, NEW p \in Payings, Follows(P, N, all, p)
    PROVE  Follows(P, N, all, Pay(p))
<1> DEFINE one == OneToOne(p)
           v == Pay(p)
<1>1. /\ one.creditors \in Seq(Owed) /\ one.debitors \in Seq(Owing) /\ one.result \in Seq(Items)
      /\ Keeps(one, p)
  BY OneToOneKeeps
<1>2. v = IF Stuck(p) THEN p ELSE IF Stuck(one) THEN UsedUp(one) ELSE LastPaid(one)
  BY PayIs
<1> HIDE DEF one, v
<1>3. CASE Stuck(p)
  BY <1>2, <1>3 DEF v
<1>4. CASE ~Stuck(p)
  <2>1. Sided(P, N, p) /\ \A a \in Accounts : Open(a, p) = all[a]
    BY <1>4 DEF Follows
  <2>2. Sided(P, N, one) /\ \A a \in Accounts : Open(a, one) = all[a]
    BY <1>1, <2>1 DEF Keeps
  <2>3. CASE Stuck(one)
    <3> DEFINE q == [creditors |-> one.creditors, debitors |-> one.debitors, result |-> one.result]
    <3>1. q.creditors = one.creditors /\ q.debitors = one.debitors /\ q.result = one.result
      OBVIOUS
    <3>2. q \in Payings
      BY <1>1 DEF Payings
    <3> HIDE DEF q
    <3>3. Sided(P, N, q)
      BY <2>2, <3>1 DEF Sided
    <3>4. \A a \in Accounts : Open(a, q) = all[a]
      BY <2>2, <3>1 DEF Open
    <3>5. Justified(P, N, all, one.result)
      BY <3>1, <3>2, <3>3, <3>4 DEF Justified
    <3>6. v = UsedUp(one)
      BY <1>2, <1>4, <2>3
    <3>7. v.result = one.result /\ Stuck(v)
      BY <3>6 DEF UsedUp, Stuck
    <3> QED
      BY <3>5, <3>7 DEF Follows, v
  <2>4. CASE ~Stuck(one)
    <3>1. v = LastPaid(one)
      BY <1>2, <1>4, <2>4
    <3>2. Sided(P, N, v) /\ \A a \in Accounts : Open(a, v) = Open(a, one)
      BY <1>1, <2>2, <2>4, <3>1, LastPaidKeeps
    <3> QED
      BY <2>2, <3>2 DEF Follows, v
  <2> QED
    BY <2>3, <2>4
<1> QED
  BY <1>3, <1>4

\* The state of the payments, round after round.
PaidRounds(start, n, g) == [k \in 0 .. n |-> IF k = 0 THEN start ELSE Pay(g[k - 1])]

\* The rounds of the payments.
LEMMA PaysAre ==
    ASSUME NEW start \in Payings, NEW n \in Nat
    PROVE  Goes(Rounds(LAMBDA p, k : Pay(p), start, n), Payings, start, [p \in Payings |-> Pay(p)], n)
<1> DEFINE step == [p \in Payings |-> Pay(p)]
           E == Rounds(LAMBDA p, k : Pay(p), start, n)
<1>1. E = CHOOSE g : g = [k \in 0 .. n |-> IF k = 0 THEN start ELSE CHOOSE v \in {Pay(x) : x \in {g[k - 1]}} : TRUE]
  BY DEF Rounds
<1> HIDE DEF E
<1>2. \A g : [k \in 0 .. n |-> IF k = 0 THEN start ELSE CHOOSE v \in {Pay(x) : x \in {g[k - 1]}} : TRUE]
               = PaidRounds(start, n, g)
  <2>1. \A x : (CHOOSE v \in {Pay(y) : y \in {x}} : TRUE) = Pay(x)
    OBVIOUS
  <2> QED
    BY <2>1 DEF PaidRounds
<1>3. E = CHOOSE g : g = PaidRounds(start, n, g)
  BY <1>1, <1>2
<1>4. step \in [Payings -> Payings] /\ \A p \in Payings : step[p] = Pay(p)
  BY PayKeeps
<1> HIDE DEF step
<1>a. PICK g : Goes(g, Payings, start, step, n)
  BY <1>4, RoundsExist
<1>5. g \in [0 .. n -> Payings] /\ g[0] = start /\ \A k \in 1 .. n : g[k] = step[g[k - 1]]
  BY <1>a DEF Goes
<1>6. g = PaidRounds(start, n, g)
  <2>1. ASSUME NEW k \in 0 .. n PROVE g[k] = IF k = 0 THEN start ELSE Pay(g[k - 1])
    <3>1. CASE k = 0
      BY <1>5, <3>1
    <3>2. CASE k # 0
      <4>1. k \in 1 .. n /\ k - 1 \in 0 .. n
        BY <3>2
      <4> QED
        BY <1>4, <1>5, <3>2, <4>1
    <3> QED
      BY <3>1, <3>2
  <2> QED
    BY <1>5, <2>1 DEF PaidRounds
<1>7. E = PaidRounds(start, n, E)
  BY <1>3, <1>6
<1>8. \A k \in 0 .. n : E[k] = IF k = 0 THEN start ELSE Pay(E[k - 1])
  BY <1>7 DEF PaidRounds
<1>9. DOMAIN E = 0 .. n /\ E = [k \in 0 .. n |-> E[k]]
  BY <1>7 DEF PaidRounds
<1> DEFINE P == {m \in Nat : m <= n => E[m] \in Payings}
<1>10. 0 \in P
  BY <1>8
<1>11. ASSUME NEW m \in Nat, m \in P PROVE m + 1 \in P
  <2> SUFFICES ASSUME m + 1 <= n PROVE E[m + 1] \in Payings
    OBVIOUS
  <2>1. m <= n /\ m + 1 \in 0 .. n /\ m + 1 # 0 /\ (m + 1) - 1 = m
    OBVIOUS
  <2>2. E[m] \in Payings
    BY <1>11, <2>1
  <2>3. E[m + 1] = Pay(E[m])
    BY <1>8, <2>1
  <2> QED
    BY <2>2, <2>3, PayKeeps
<1> HIDE DEF P
<1>12. \A m \in Nat : m \in P
  BY <1>10, <1>11, Induction
<1>13. \A k \in 0 .. n : E[k] \in Payings
  <2> SUFFICES ASSUME NEW k \in 0 .. n PROVE E[k] \in Payings
    OBVIOUS
  <2>1. k \in Nat /\ k <= n
    OBVIOUS
  <2> QED
    BY <1>12, <2>1 DEF P
<1>14. E \in [0 .. n -> Payings]
  BY <1>9, <1>13
<1>15. E[0] = start
  BY <1>8
<1>16. ASSUME NEW k \in 1 .. n PROVE E[k] = step[E[k - 1]]
  <2>1. k \in 0 .. n /\ k # 0 /\ k - 1 \in 0 .. n
    OBVIOUS
  <2> QED
    BY <1>4, <1>8, <1>13, <2>1
<1>17. Goes(E, Payings, start, step, n)
  BY <1>14, <1>15, <1>16 DEF Goes
<1> QED
  BY <1>17 DEF E, step

\* All the payments: there are fewer of them than claims, and they settle everything
\* that adds up to zero.
LEMMA PaysKeep ==
    ASSUME NEW start \in Payings, start.result = <<>>, NEW n \in Nat, Claims(start) <= n,
           NEW E, Goes(E, Payings, start, [p \in Payings |-> Pay(p)], n)
    PROVE  /\ E[n].result \in Seq(Items)
           /\ Len(E[n].result) <= Claims(start) /\ (Claims(start) > 0 => Len(E[n].result) < Claims(start))
           /\ \A all : Balanced(start, all) => \A a \in Accounts : all[a] = -Weigh(Paid(a), E[n].result)
<1>1. E[0] = start /\ \A k \in 1 .. n : E[k] = Pay(E[k - 1])
  <2>1. \A k \in 1 .. n : k - 1 \in 0 .. n
    OBVIOUS
  <2> QED
    BY <2>1 DEF Goes
<1> DEFINE N == Claims(start)
           Good(p, k) == /\ p \in Payings
                         /\ Lines(p) <= N /\ (Settled(p) /\ N > 0 => Lines(p) < N)
                         /\ Stuck(p) \/ Claims(p) <= N - k
                         /\ \A all : Balanced(start, all) => Balanced(p, all)
           P == {m \in Nat : m <= n => Good(E[m], m)}
<1>2. \A p \in Payings : Claims(p) \in Nat /\ Lines(p) \in Nat /\ Lines(p) = Len(p.result) + Claims(p) /\ Len(p.result) \in Nat
  <2> SUFFICES ASSUME NEW p \in Payings
               PROVE  Claims(p) \in Nat /\ Lines(p) \in Nat /\ Lines(p) = Len(p.result) + Claims(p) /\ Len(p.result) \in Nat
    OBVIOUS
  <2>1. Len(p.creditors) \in Nat /\ Len(p.debitors) \in Nat /\ Len(p.result) \in Nat
    BY DEF Payings
  <2> QED
    BY <2>1, Counts
<1>3. \A p \in Payings : (Claims(p) = 0 <=> Settled(p)) /\ (Settled(p) => Stuck(p)) /\ (Claims(p) <= 0 => Stuck(p))
  <2> SUFFICES ASSUME NEW p \in Payings
               PROVE  (Claims(p) = 0 <=> Settled(p)) /\ (Settled(p) => Stuck(p)) /\ (Claims(p) <= 0 => Stuck(p))
    OBVIOUS
  <2>1. p.creditors \in Seq(Owed) /\ p.debitors \in Seq(Owing)
    BY DEF Payings
  <2>2. Len(p.creditors) \in Nat /\ Len(p.debitors) \in Nat
    BY <2>1
  <2>3. (Len(p.creditors) = 0 <=> p.creditors = <<>>) /\ (Len(p.debitors) = 0 <=> p.debitors = <<>>)
    BY <2>1
  <2>4. Claims(p) = Len(p.creditors) + Len(p.debitors)
    BY DEF Claims
  <2>5. Claims(p) = 0 <=> Len(p.creditors) = 0 /\ Len(p.debitors) = 0
    <3> DEFINE a == Len(p.creditors)
               b == Len(p.debitors)
    <3>1. a \in Nat /\ b \in Nat /\ Claims(p) = a + b
      BY <2>2, <2>4
    <3> HIDE DEF a, b
    <3>2. Claims(p) = 0 <=> a = 0 /\ b = 0
      BY <3>1
    <3> QED
      BY <3>2 DEF a, b
  <2>6. Claims(p) \in Nat
    BY <1>2
  <2> QED
    BY <2>3, <2>5, <2>6 DEF Settled, Stuck
<1>4. N \in Nat /\ Lines(start) = N
  <2>1. Len(start.result) = 0
    OBVIOUS
  <2> QED
    BY <1>2, <2>1
<1> HIDE DEF N
<1>5. 0 \in P
  <2>1. Settled(start) => N = 0
    BY <1>3 DEF N
  <2>2. Claims(start) <= N - 0
    BY <1>4 DEF N
  <2>3. Good(start, 0)
    BY <1>4, <2>1, <2>2
  <2> HIDE DEF Good
  <2> QED
    BY <1>1, <2>3
<1>6. ASSUME NEW m \in Nat, m \in P PROVE m + 1 \in P
  <2> SUFFICES ASSUME m + 1 <= n PROVE Good(E[m + 1], m + 1)
    OBVIOUS
  <2> DEFINE p == E[m]
             v == E[m + 1]
  <2>1. m <= n /\ m + 1 \in 1 .. n /\ (m + 1) - 1 = m
    OBVIOUS
  <2>2. Good(p, m) /\ v = Pay(p)
    BY <1>1, <1>6, <2>1
  <2> HIDE DEF p, v
  <2>3. /\ v \in Payings
        /\ Stuck(p) => v = p
        /\ ~Stuck(p) => Claims(v) < Claims(p) /\ Lines(v) <= Lines(p) /\ (Settled(v) => Lines(v) < Lines(p))
        /\ \A all : Balanced(p, all) => Balanced(v, all)
    BY <2>2, PayKeeps
  <2>4. Claims(p) \in Nat /\ Claims(v) \in Nat /\ Lines(p) \in Nat /\ Lines(v) \in Nat
    BY <1>2, <2>2, <2>3
  <2>5. Lines(v) <= N /\ (Settled(v) /\ N > 0 => Lines(v) < N)
    BY <1>4, <2>2, <2>3, <2>4
  <2>6. Stuck(v) \/ Claims(v) <= N - (m + 1)
    BY <1>4, <2>2, <2>3, <2>4
  <2>7. \A all : Balanced(start, all) => Balanced(v, all)
    BY <2>2, <2>3
  <2>8. Good(v, m + 1)
    BY <2>3, <2>5, <2>6, <2>7
  <2> QED
    BY <2>8 DEF v
<1> HIDE DEF P
<1>7. n \in P
  BY <1>5, <1>6, Induction
<1> DEFINE p == E[n]
<1>8. Good(p, n)
  BY <1>7 DEF P
<1> HIDE DEF p
<1>9. p.result \in Seq(Items) /\ p.creditors \in Seq(Owed) /\ p.debitors \in Seq(Owing)
  BY <1>8 DEF Payings
<1>10. ASSUME N > 0 PROVE Len(p.result) < N
  <2>1. Claims(p) \in Nat /\ Len(p.result) \in Nat /\ Lines(p) = Len(p.result) + Claims(p) /\ (Claims(p) = 0 <=> Settled(p))
    BY <1>2, <1>3, <1>8
  <2>2. Lines(p) <= N /\ (Settled(p) => Lines(p) < N)
    BY <1>8, <1>10
  <2> QED
    BY <1>4, <2>1, <2>2
<1>b. Len(p.result) <= N
  <2>1. Claims(p) \in Nat /\ Len(p.result) \in Nat /\ Lines(p) = Len(p.result) + Claims(p) /\ Lines(p) <= N
    BY <1>2, <1>8
  <2> QED
    BY <1>4, <2>1
<1>11. ASSUME NEW all, Balanced(start, all), NEW a \in Accounts PROVE all[a] = -Weigh(Paid(a), p.result)
  <2>1. Stuck(p)
    <3>1. Claims(p) <= N - n => Claims(p) <= 0
      BY <1>2, <1>4, <1>8 DEF N
    <3> QED
      BY <1>3, <1>8, <3>1
  <2>2. Total(p) = 0 /\ Open(a, p) = all[a]
    BY <1>8, <1>11 DEF Balanced
  <2>3. Weighs(Value, Owed) /\ Weighs(Value, Owing) /\ Weighs(Paid(a), Items)
    BY WeightTypes DEF Weighs
  <2>4. Weigh(Value, p.creditors) \in Int
    BY <1>9, <2>3, WeighType
  <2>5. Weigh(Value, p.debitors) \in Int
    BY <1>9, <2>3, WeighType
  <2>6. Weigh(Value, p.creditors) + Weigh(Value, p.debitors) = 0
    BY <2>2 DEF Total
  <2>7. p.creditors = <<>> /\ p.debitors = <<>>
    <3>1. CASE p.creditors = <<>>
      <4>1. Weigh(Value, p.creditors) = 0
        BY <3>1, WeighEmpty
      <4>2. Weigh(Value, p.debitors) = 0
        BY <2>5, <2>6, <4>1
      <4> QED
        BY <1>9, <3>1, <4>2, NothingOwing
    <3>2. CASE p.debitors = <<>>
      <4>1. Weigh(Value, p.debitors) = 0
        BY <3>2, WeighEmpty
      <4>2. Weigh(Value, p.creditors) = 0
        BY <2>4, <2>6, <4>1
      <4> QED
        BY <1>9, <3>2, <4>2, NothingOwed
    <3> QED
      BY <2>1, <3>1, <3>2 DEF Stuck
  <2>8. Weigh(Claim(a), p.creditors) = 0 /\ Weigh(Claim(a), p.debitors) = 0
    BY <2>7, WeighEmpty
  <2>9. Weigh(Paid(a), p.result) \in Int
    BY <1>9, <2>3, WeighType
  <2>10. Open(a, p) = 0 + 0 - Weigh(Paid(a), p.result)
    BY <2>8 DEF Open
  <2> QED
    BY <2>2, <2>9, <2>10
<1> QED
  BY <1>9, <1>b, <1>10, <1>11 DEF p, N

\* All the payments were open.
LEMMA PaysFollow ==
    ASSUME NEW P, NEW N, NEW all, NEW start \in Payings, Follows(P, N, all, start), NEW n \in Nat,
           NEW E, Goes(E, Payings, start, [p \in Payings |-> Pay(p)], n)
    PROVE  Justified(P, N, all, E[n].result)
<1>1. E \in [0 .. n -> Payings] /\ E[0] = start /\ \A k \in 1 .. n : E[k] = Pay(E[k - 1])
  <2>1. \A k \in 1 .. n : k - 1 \in 0 .. n
    OBVIOUS
  <2> QED
    BY <2>1 DEF Goes
<1> DEFINE Q == {m \in Nat : m <= n => Follows(P, N, all, E[m])}
<1>2. 0 \in Q
  BY <1>1
<1>3. ASSUME NEW m \in Nat, m \in Q PROVE m + 1 \in Q
  <2> SUFFICES ASSUME m + 1 <= n PROVE Follows(P, N, all, E[m + 1])
    OBVIOUS
  <2>1. m <= n /\ m \in 0 .. n /\ m + 1 \in 1 .. n /\ (m + 1) - 1 = m
    OBVIOUS
  <2>2. Follows(P, N, all, E[m]) /\ E[m] \in Payings /\ E[m + 1] = Pay(E[m])
    BY <1>1, <1>3, <2>1
  <2> QED
    BY <2>2, PayFollows
<1> HIDE DEF Q
<1>4. n \in Q
  BY <1>2, <1>3, Induction
<1>5. Follows(P, N, all, E[n]) /\ E[n] \in Payings
  BY <1>1, <1>4 DEF Q
<1> QED
  BY <1>5 DEF Follows, Justified

-----------------------------------------------------------------------------
(* The plan of payments. *)

\* Ones are counted.
LEMMA SumOnes ==
    ASSUME NEW S, IsFiniteSet(S)
    PROVE  Sum([x \in S |-> 1]) = Cardinality(S)
<1> DEFINE f == [x \in S |-> 1]
           h == [u \in SUBSET S |-> Cardinality(u)]
<1>1. h[{}] = 0
  BY FS_EmptySet
<1>2. ASSUME NEW u \in SUBSET S, NEW x \in u PROVE h[u] = f[x] + h[u \ {x}]
  <2>1. IsFiniteSet(u) /\ u \ {x} \in SUBSET S /\ x \in S
    BY FS_Subset
  <2>2. Cardinality(u \ {x}) = Cardinality(u) - 1 /\ Cardinality(u) \in Nat
    BY <2>1, FS_RemoveElement, FS_CardinalityType
  <2>3. h[u] = Cardinality(u) /\ h[u \ {x}] = Cardinality(u \ {x}) /\ f[x] = 1
    BY <2>1
  <2> HIDE DEF h, f
  <2> QED
    BY <2>2, <2>3
<1>3. f \in [S -> Int] /\ h[S] = Cardinality(S)
  OBVIOUS
<1> HIDE DEF f, h
<1>4. Grows(h, f, S)
  BY <1>1, <1>2 DEF Grows
<1>5. Sum(f) = h[S]
  BY <1>3, <1>4, SumUnique
<1> QED
  BY <1>3, <1>5 DEF f

\* k times an element of f is at most B.
AtMost(f, k, B) == \A x \in DOMAIN f : k * f[x] <= B

\* A sum is bounded by what bounds its elements.
LEMMA SumAtMost ==
    ASSUME NEW S, IsFiniteSet(S), NEW f \in [S -> Int], NEW B \in Int, NEW k \in Int, AtMost(f, k, B)
    PROVE  k * Sum(f) <= B * Cardinality(S)
<1> DEFINE e == [x \in S |-> 1]
           b == [x \in S |-> B * e[x]]
           m == [x \in S |-> k * f[x]]
           d == [x \in S |-> b[x] - m[x]]
<1>1. e \in [S -> Int] /\ Sum(e) = Cardinality(S) /\ Cardinality(S) \in Nat
  BY SumOnes, FS_CardinalityType
<1>2. \A x \in S : e[x] = 1
  OBVIOUS
<1> HIDE DEF e
<1>3. Sum(b) = B * Cardinality(S)
  BY <1>1, SumTimes
<1>4. Sum(m) = k * Sum(f)
  BY SumTimes
<1>5. \A x \in S : b[x] = B /\ m[x] = k * f[x] /\ m[x] \in Int
  BY <1>2
<1>6. b \in [S -> Int] /\ m \in [S -> Int]
  BY <1>1
<1> HIDE DEF b, m
<1>7. Sum(d) = Sum(b) - Sum(m)
  BY <1>6, SumMinus
<1>8. d \in [S -> Nat]
  BY <1>5 DEF AtMost
<1> HIDE DEF d
<1>9. Sum(d) \in Nat
  BY <1>8, SumNat
<1>10. Sum(b) \in Int /\ Sum(m) \in Int
  BY <1>6, SumInt
<1>11. Sum(m) <= Sum(b)
  BY <1>7, <1>9, <1>10
<1> QED
  BY <1>3, <1>4, <1>11

\* A sum in two parts, which leave out nothing but zeros.
LEMMA SumParts ==
    ASSUME NEW S, IsFiniteSet(S), NEW f \in [S -> Int], NEW P \in SUBSET S, NEW N \in SUBSET S, P \cap N = {},
           \A x \in S : x \in P \/ x \in N \/ f[x] = 0
    PROVE  Sum(Restrict(f, P)) + Sum(Restrict(f, N)) = Sum(f)
<1> DEFINE g == [x \in P |-> f[x]]
           h == [x \in N |-> f[x]]
           g0 == [x \in S |-> IF x \in P THEN g[x] ELSE 0]
           h0 == [x \in S |-> IF x \in N THEN h[x] ELSE 0]
<1>1. g \in [P -> Int] /\ h \in [N -> Int] /\ (\A x \in P : g[x] = f[x]) /\ \A x \in N : h[x] = f[x]
  OBVIOUS
<1> HIDE DEF g, h
<1>2. Sum(g0) = Sum(g)
  BY <1>1, SumPadded
<1>3. Sum(h0) = Sum(h)
  BY <1>1, SumPadded
<1>4. g0 \in [S -> Int] /\ h0 \in [S -> Int]
  BY <1>1
<1>5. ASSUME NEW x \in S PROVE f[x] = g0[x] + h0[x]
  <2>1. f[x] \in Int
    OBVIOUS
  <2>2. CASE x \in P
    BY <1>1, <2>1, <2>2
  <2>3. CASE x \in N
    BY <1>1, <2>1, <2>3
  <2>4. CASE x \notin P /\ x \notin N
    BY <2>4
  <2> QED
    BY <2>2, <2>3, <2>4
<1> HIDE DEF g0, h0
<1>6. f = [x \in S |-> g0[x] + h0[x]]
  BY <1>5
<1>7. Sum([x \in S |-> g0[x] + h0[x]]) = Sum(g0) + Sum(h0)
  BY <1>4, SumPlus
<1> QED
  BY <1>2, <1>3, <1>6, <1>7 DEF g, h, Restrict

\* A sum with one element.
LEMMA SumOne ==
    ASSUME NEW S, IsFiniteSet(S), NEW a \in S, NEW k \in Int
    PROVE  Sum([x \in S |-> IF x = a THEN k ELSE 0]) = k
<1> DEFINE f == [x \in S |-> IF x = a THEN k ELSE 0]
           g == [y \in S \ {a} |-> f[y]]
<1>1. f \in [S -> Int] /\ f[a] = k /\ g = [y \in S \ {a} |-> 0]
  OBVIOUS
<1>2. IsFiniteSet(S \ {a})
  BY FS_RemoveElement
<1> HIDE DEF f
<1>3. Sum(f) = f[a] + Sum(g)
  BY <1>1, SumElement
<1> HIDE DEF g
<1>4. Sum(g) = 0
  BY <1>1, <1>2, SumZero
<1> QED
  BY <1>1, <1>3, <1>4 DEF f

\* The balances of a set of accounts, as a list.
Listed(all, S) == Map(LAMBDA a : <<a, all[a].balance>>, Ordered(S))

\* A list of balances has all of them once.
LEMMA ListedIs ==
    ASSUME NEW all, HasBalances(all), NEW S, S \subseteq Accounts, NEW X, \A a \in S : <<a, all[a].balance>> \in X
    PROVE  /\ Listed(all, S) \in Seq(X) /\ Len(Listed(all, S)) = Cardinality(S) /\ Cardinality(S) \in Nat
           /\ \A w : Weighs(w, X) => Weigh(w, Listed(all, S)) = Sum([a \in S |-> w[<<a, all[a].balance>>]])
<1> DEFINE o == Ordered(S)
           T == 1 .. Cardinality(S)
           l == [i \in T |-> <<o[i], all[o[i]].balance>>]
<1>1. IsFiniteSet(S) /\ S \subseteq Int
  <2>1. IsFiniteSet(Accounts) /\ Accounts \subseteq Int
    BY BalanceBounds
  <2>2. IsFiniteSet(S)
    BY <2>1, FS_Subset
  <2> QED
    BY <2>1, <2>2
<1>2. Renames(o, T, S) /\ Cardinality(S) \in Nat
  BY <1>1, OrderedIs
<1>3. o \in [T -> S]
  BY <1>2 DEF Renames
<1>4. Listed(all, S) = l
  <2>1. Listed(all, S) = Computed([i \in DOMAIN o |-> <<o[i], all[o[i]].balance>>])
    BY DEF Listed, Map
  <2> HIDE DEF o
  <2>2. [i \in DOMAIN o |-> <<o[i], all[o[i]].balance>>] = l
    BY <1>3
  <2> HIDE DEF l
  <2> QED
    BY <2>1, <2>2, ComputedIs
<1> HIDE DEF o
<1>5. IsFiniteSet(T) /\ Len(l) = Cardinality(S) /\ DOMAIN l = T
  <2>1. IsFiniteSet(T)
    BY <1>2, FS_Interval
  <2>2. DOMAIN l = T
    OBVIOUS
  <2>3. Len(l) = Cardinality(S)
    BY <1>2
  <2> QED
    BY <2>1, <2>2, <2>3
<1>6. l \in Seq(X)
  <2>1. \A i \in T : l[i] \in X
    BY <1>3
  <2>2. l = [i \in T |-> l[i]]
    OBVIOUS
  <2> HIDE DEF l
  <2> QED
    BY <1>2, <2>1, <2>2
<1>7. ASSUME NEW w, Weighs(w, X) PROVE Weigh(w, l) = Sum([a \in S |-> w[<<a, all[a].balance>>]])
  <2> DEFINE h == [a \in S |-> w[<<a, all[a].balance>>]]
  <2>1. h \in [S -> Int]
    BY <1>7 DEF Weighs
  <2>2. Weights(w, l) = Composed(h, o)
    <3>1. \A i \in T : w[l[i]] = h[o[i]] /\ DOMAIN o = T
      BY <1>3
    <3> HIDE DEF l, h, T
    <3> QED
      BY <1>3, <1>5, <3>1 DEF Weights, Composed
  <2> HIDE DEF h, T
  <2>3. Sum(Composed(h, o)) = Sum(h)
    BY <1>1, <1>2, <1>5, <2>1, SumReindex
  <2> QED
    BY <2>2, <2>3 DEF Weigh, h
<1> QED
  BY <1>2, <1>4, <1>5, <1>6, <1>7

\* Who is to be paid, who has to pay, and both.
Positive(all) == {a \in Accounts : all[a].balance > 0}
Negative(all) == {a \in Accounts : all[a].balance < 0}
Unsettled(all) == {a \in Accounts : all[a].balance # 0}
Beginning(all) == [creditors |-> Listed(all, Positive(all)), debitors |-> Listed(all, Negative(all)), result |-> <<>>]

\* The payments begin with what is open.
LEMMA BeginningIs ==
    ASSUME NEW all, HasBalances(all)
    PROVE  /\ Beginning(all) \in Payings /\ Beginning(all).result = <<>>
           /\ Claims(Beginning(all)) = Cardinality(Unsettled(all))
           /\ Cardinality(Unsettled(all)) <= Cardinality(Accounts)
           /\ Cardinality(Unsettled(all)) \in Nat /\ Cardinality(Accounts) \in Nat
           /\ Unsettled(all) # {} => Cardinality(Unsettled(all)) > 0
           /\ Sum(Amounts(all)) = 0 => Balanced(Beginning(all), Amounts(all))
           /\ Follows(Positive(all), Negative(all), Amounts(all), Beginning(all))
<1> DEFINE P == Positive(all)
           N == Negative(all)
           U == Unsettled(all)
           c == Listed(all, P)
           d == Listed(all, N)
           p == Beginning(all)
           bal == Amounts(all)
<1>1. \A a \in Accounts : all[a].balance \in Int /\ bal[a] = all[a].balance
  BY DEF HasBalances, Amounts
<1>2. P \in SUBSET Accounts /\ N \in SUBSET Accounts /\ U \in SUBSET Accounts /\ P \cap N = {} /\ P \cup N = U
  <2>1. P \in SUBSET Accounts /\ N \in SUBSET Accounts /\ U \in SUBSET Accounts
    BY DEF Positive, Negative, Unsettled
  <2>2. P \cap N = {}
    BY <1>1 DEF Positive, Negative
  <2>3. P \cup N = U
    BY <1>1 DEF Positive, Negative, Unsettled
  <2> QED
    BY <2>1, <2>2, <2>3
<1>3. IsFiniteSet(Accounts) /\ IsFiniteSet(P) /\ IsFiniteSet(N) /\ IsFiniteSet(U)
  BY <1>2, BalanceBounds, FS_Subset
<1>4. /\ \A a \in P : a \in Accounts /\ <<a, all[a].balance>> \in Owed
      /\ \A a \in N : a \in Accounts /\ <<a, all[a].balance>> \in Owing
  <2>1. \A a \in P : a \in Accounts /\ all[a].balance \in Nat \ {0}
    BY <1>1 DEF Positive
  <2>2. \A a \in N : a \in Accounts /\ all[a].balance \in {x \in Int : x < 0}
    BY <1>1 DEF Negative
  <2> HIDE DEF P, N
  <2> QED
    BY <2>1, <2>2 DEF Owed, Owing
<1> HIDE DEF P, N, U, bal
<1>5. /\ c \in Seq(Owed) /\ Len(c) = Cardinality(P) /\ Cardinality(P) \in Nat
      /\ \A w : Weighs(w, Owed) => Weigh(w, c) = Sum([a \in P |-> w[<<a, all[a].balance>>]])
  BY <1>2, <1>4, ListedIs
<1>6. /\ d \in Seq(Owing) /\ Len(d) = Cardinality(N) /\ Cardinality(N) \in Nat
      /\ \A w : Weighs(w, Owing) => Weigh(w, d) = Sum([a \in N |-> w[<<a, all[a].balance>>]])
  BY <1>2, <1>4, ListedIs
<1>7. p = [creditors |-> c, debitors |-> d, result |-> <<>>]
  BY DEF Beginning, P, N
<1> HIDE DEF c, d, p
<1>8. p.creditors = c /\ p.debitors = d /\ p.result = <<>> /\ p \in Payings
  <2>1. <<>> \in Seq(Items)
    OBVIOUS
  <2> QED
    BY <1>5, <1>6, <1>7, <2>1 DEF Payings
<1>9. Cardinality(U) = Cardinality(P) + Cardinality(N)
  <2>1. Cardinality(P \cup N) = Cardinality(P) + Cardinality(N) - Cardinality(P \cap N)
    BY <1>3, FS_Union
  <2>2. Cardinality(P \cap N) = 0
    BY <1>2, FS_EmptySet
  <2> DEFINE np == Cardinality(P)
             nn == Cardinality(N)
             ni == Cardinality(P \cap N)
             nu == Cardinality(P \cup N)
  <2>3. nu = np + nn - ni /\ ni = 0 /\ np \in Nat /\ nn \in Nat
    BY <1>5, <1>6, <2>1, <2>2
  <2>4. P \cup N = U
    BY <1>2
  <2>5. Cardinality(U) = nu
    BY <2>4
  <2> HIDE DEF np, nn, ni, nu
  <2>6. nu = np + nn
    BY ONLY <2>3
  <2> QED
    BY <2>5, <2>6 DEF np, nn
<1>10. Claims(p) = Cardinality(U)
  BY <1>5, <1>6, <1>8, <1>9 DEF Claims
<1>11. Cardinality(U) \in Nat /\ Cardinality(Accounts) \in Nat /\ Cardinality(U) <= Cardinality(Accounts)
  BY <1>2, <1>3, FS_CardinalityType, FS_Subset
<1>12. ASSUME U # {} PROVE Cardinality(U) > 0
  <2>1. Cardinality(U) # 0
    BY <1>3, <1>12, FS_EmptySet
  <2> QED
    BY <1>11, <2>1
<1>13. \A x \in Accounts : x \in P \/ x \in N \/ bal[x] = 0
  BY <1>1, <1>2 DEF U, Unsettled
<1>14. bal \in [Accounts -> Int]
  BY <1>1 DEF bal, Amounts
<1>15. Total(p) = Sum(bal)
  <2>1. Weighs(Value, Owed) /\ Weighs(Value, Owing)
    BY WeightTypes DEF Weighs
  <2>2. \A a \in P : Value[<<a, all[a].balance>>] = bal[a]
    BY <1>1, <1>4, WeightTypes
  <2>3. \A a \in N : Value[<<a, all[a].balance>>] = bal[a]
    BY <1>1, <1>4, WeightTypes
  <2>4. Weigh(Value, c) = Sum([a \in P |-> bal[a]])
    BY <1>5, <2>1, <2>2
  <2>5. Weigh(Value, d) = Sum([a \in N |-> bal[a]])
    BY <1>6, <2>1, <2>3
  <2>6. Sum([a \in P |-> bal[a]]) + Sum([a \in N |-> bal[a]]) = Sum(bal)
    BY <1>2, <1>3, <1>13, <1>14, SumParts DEF Restrict
  <2> QED
    BY <1>8, <2>4, <2>5, <2>6 DEF Total
<1>16. ASSUME NEW a \in Accounts PROVE Open(a, p) = bal[a]
  <2> DEFINE f == [x \in Accounts |-> IF x = a THEN bal[a] ELSE 0]
             q == Claim(a)
  <2>1. Weighs(q, Owed) /\ Weighs(q, Owing)
    BY WeightTypes DEF Weighs
  <2>2. f \in [Accounts -> Int] /\ \A x \in Accounts : f[x] = IF x = a THEN bal[x] ELSE 0
    BY <1>14
  <2>3. \A x \in P : q[<<x, all[x].balance>>] = f[x]
    <3> SUFFICES ASSUME NEW x \in P PROVE q[<<x, all[x].balance>>] = f[x]
      OBVIOUS
    <3> DEFINE b == <<x, all[x].balance>>
    <3>1. b \in Owed /\ b[1] = x /\ b[2] = bal[x] /\ x \in Accounts
      BY <1>1, <1>4
    <3> HIDE DEF b, f
    <3>2. q[b] = IF b[1] = a THEN b[2] ELSE 0
      BY <3>1, WeightTypes
    <3> QED
      BY <2>2, <3>1, <3>2 DEF b
  <2>4. \A x \in N : q[<<x, all[x].balance>>] = f[x]
    <3> SUFFICES ASSUME NEW x \in N PROVE q[<<x, all[x].balance>>] = f[x]
      OBVIOUS
    <3> DEFINE b == <<x, all[x].balance>>
    <3>1. b \in Owing /\ b[1] = x /\ b[2] = bal[x] /\ x \in Accounts
      BY <1>1, <1>4
    <3> HIDE DEF b, f
    <3>2. q[b] = IF b[1] = a THEN b[2] ELSE 0
      BY <3>1, WeightTypes
    <3> QED
      BY <2>2, <3>1, <3>2 DEF b
  <2>5. Sum(f) = bal[a]
    BY <1>3, <1>14, SumOne
  <2>6. \A x \in Accounts : x \in P \/ x \in N \/ f[x] = 0
    BY <1>13, <2>2
  <2> HIDE DEF f, q
  <2>7. Weigh(q, c) = Sum([x \in P |-> f[x]])
    BY <1>5, <2>1, <2>3
  <2>8. Weigh(q, d) = Sum([x \in N |-> f[x]])
    BY <1>6, <2>1, <2>4
  <2>9. Sum([x \in P |-> f[x]]) + Sum([x \in N |-> f[x]]) = Sum(f)
    BY <1>2, <1>3, <2>2, <2>6, SumParts DEF Restrict
  <2> DEFINE e1 == Weigh(q, p.creditors)
             e2 == Weigh(q, p.debitors)
             e3 == Weigh(Paid(a), p.result)
             k == bal[a]
  <2>10. Open(a, p) = e1 + e2 - e3
    BY ONLY DEF Open, q
  <2>11. k \in Int
    BY <1>14
  <2>12. e1 = Weigh(q, c) /\ e2 = Weigh(q, d) /\ e3 = Weigh(Paid(a), <<>>)
    BY <1>8
  <2>13. Weigh(q, c) + Weigh(q, d) = k
    BY <2>5, <2>7, <2>8, <2>9
  <2>14. Weigh(q, c) \in Int /\ Weigh(q, d) \in Int
    BY <1>5, <1>6, <2>1, WeighType
  <2>15. e1 + e2 = k /\ e3 = 0
    BY <2>12, <2>13, WeighEmpty
  <2> HIDE DEF e1, e2, e3, k
  <2>16. e1 \in Int /\ e2 \in Int
    BY <2>12, <2>14
  <2>17. Open(a, p) = k
    BY ONLY <2>10, <2>11, <2>15, <2>16
  <2> QED
    BY ONLY <2>17 DEF k
<1>17. Sum(bal) = 0 => Balanced(p, bal)
  BY <1>15, <1>16 DEF Balanced
<1>18. Sided(P, N, p)
  <2>1. \A a \in P : <<a, all[a].balance>> \in P \X (Nat \ {0})
    BY <1>4 DEF Owed
  <2>2. \A a \in N : <<a, all[a].balance>> \in N \X {x \in Int : x < 0}
    BY <1>4 DEF Owing
  <2>3. c \in Seq(P \X (Nat \ {0}))
    BY <1>2, <2>1, ListedIs DEF c
  <2>4. d \in Seq(N \X {x \in Int : x < 0})
    BY <1>2, <2>2, ListedIs DEF d
  <2> QED
    BY <1>8, <2>3, <2>4 DEF Sided
<1>19. Follows(P, N, bal, p)
  BY <1>16, <1>18 DEF Follows
<1> QED
  BY <1>8, <1>10, <1>11, <1>12, <1>17, <1>19 DEF p, U, bal, P, N

\* The elements at some places of a list.
LEMMA SelectedIs ==
    ASSUME NEW X, NEW s \in Seq(X), NEW S, S \subseteq DOMAIN s
    PROVE  /\ Selected(s, S) \in Seq(X) /\ Len(Selected(s, S)) = Cardinality(S)
           /\ IsFiniteSet(S) /\ Cardinality(S) \in Nat /\ Cardinality(S) <= Len(s)
           /\ \A w : Weighs(w, X) => Weigh(w, Selected(s, S)) = Sum([i \in S |-> w[s[i]]])
<1> DEFINE o == Ordered(S)
           T == 1 .. Cardinality(S)
           l == [i \in T |-> s[o[i]]]
<1>1. DOMAIN s = 1 .. Len(s) /\ Len(s) \in Nat /\ \A i \in DOMAIN s : s[i] \in X
  OBVIOUS
<1>2. IsFiniteSet(DOMAIN s) /\ Cardinality(DOMAIN s) = Len(s)
  <2>1. IsFiniteSet(1 .. Len(s)) /\ Cardinality(1 .. Len(s)) = IF 1 > Len(s) THEN 0 ELSE Len(s) - 1 + 1
    BY <1>1, FS_Interval
  <2> QED
    BY <1>1, <2>1
<1>3. IsFiniteSet(S) /\ Cardinality(S) <= Len(s)
  <2>1. IsFiniteSet(S) /\ Cardinality(S) <= Cardinality(DOMAIN s)
    BY <1>2, FS_Subset
  <2> QED
    BY <1>2, <2>1
<1>4. S \subseteq Int
  BY <1>1
<1>5. Renames(o, T, S) /\ Cardinality(S) \in Nat
  BY <1>3, <1>4, OrderedIs
<1>6. o \in [T -> S]
  BY <1>5 DEF Renames
<1>7. Selected(s, S) = l
  <2>1. Selected(s, S) = Computed([i \in DOMAIN o |-> s[o[i]]])
    BY DEF Selected, Map
  <2> HIDE DEF o
  <2>2. [i \in DOMAIN o |-> s[o[i]]] = l
    BY <1>6
  <2> HIDE DEF l
  <2> QED
    BY <2>1, <2>2, ComputedIs
<1> HIDE DEF o
<1>8. IsFiniteSet(T) /\ Len(l) = Cardinality(S) /\ DOMAIN l = T
  <2>1. IsFiniteSet(T)
    BY <1>5, FS_Interval
  <2>2. DOMAIN l = T
    OBVIOUS
  <2>3. Len(l) = Cardinality(S)
    BY <1>5
  <2> QED
    BY <2>1, <2>2, <2>3
<1>9. l \in Seq(X)
  <2>1. \A i \in T : l[i] \in X
    BY <1>1, <1>6
  <2>2. l = [i \in T |-> l[i]]
    OBVIOUS
  <2> HIDE DEF l
  <2> QED
    BY <1>5, <2>1, <2>2
<1>10. ASSUME NEW w, Weighs(w, X) PROVE Weigh(w, l) = Sum([i \in S |-> w[s[i]]])
  <2> DEFINE h == [i \in S |-> w[s[i]]]
  <2>1. h \in [S -> Int]
    BY <1>1, <1>10 DEF Weighs
  <2>2. Weights(w, l) = Composed(h, o)
    <3>1. \A i \in T : w[l[i]] = h[o[i]] /\ DOMAIN o = T
      BY <1>6
    <3> HIDE DEF l, h, T
    <3> QED
      BY <1>6, <1>8, <3>1 DEF Weights, Composed
  <2> HIDE DEF h, T
  <2>3. Sum(Composed(h, o)) = Sum(h)
    BY <1>3, <1>5, <1>8, <2>1, SumReindex
  <2> QED
    BY <2>2, <2>3 DEF Weigh, h
<1> QED
  BY <1>3, <1>5, <1>7, <1>8, <1>9, <1>10

\* The payments that are shown.
Shown(payments) == {i \in DOMAIN payments : 200 * payments[i].paymentAmount >= Unit}

\* The plan shows payments that settle everything.
LEMMA SettlementIs ==
    ASSUME NEW all, HasBalances(all)
    PROVE  \E payments \in Seq(Items) :
              /\ computeGroupSettlement(all) = Selected(payments, Shown(payments))
              /\ Len(payments) <= Cardinality(Unsettled(all))
              /\ Unsettled(all) # {} => Len(payments) < Cardinality(Unsettled(all))
              /\ Sum(Amounts(all)) = 0 => \A a \in Accounts : Amounts(all)[a] = -Weigh(Paid(a), payments)
              /\ Justified(Positive(all), Negative(all), Amounts(all), payments)
<1> DEFINE start == Beginning(all)
           n == Cardinality(Accounts)
           E == Rounds(LAMBDA p, k : Pay(p), start, n)
           payments == E[n].result
<1>1. computeGroupSettlement(all) = Selected(payments, Shown(payments))
  <2> DEFINE s == [creditors |-> Listed(all, Positive(all)), debitors |-> Listed(all, Negative(all)), result |-> <<>>]
             c == Computed(Rounds(LAMBDA p, k : Pay(p), s, n)[n].result)
  <2>1. computeGroupSettlement(all) = Selected(c, {i \in DOMAIN c : 200 * c[i].paymentAmount >= Unit})
    BY ONLY DEF computeGroupSettlement, Listed, Positive, Negative
  <2>2. c = payments
    BY ONLY ComputedIs DEF Beginning
  <2> HIDE DEF c, payments
  <2> QED
    BY ONLY <2>1, <2>2 DEF Shown
<1> HIDE DEF start, n
<1>2. /\ start \in Payings /\ start.result = <<>> /\ Claims(start) = Cardinality(Unsettled(all))
      /\ Claims(start) <= n /\ n \in Nat
      /\ Unsettled(all) # {} => Claims(start) > 0
      /\ Sum(Amounts(all)) = 0 => Balanced(start, Amounts(all))
      /\ Follows(Positive(all), Negative(all), Amounts(all), start)
  BY BeginningIs DEF start, n
<1>3. Goes(E, Payings, start, [p \in Payings |-> Pay(p)], n)
  BY <1>2, PaysAre
<1> HIDE DEF E
<1>4. /\ E[n].result \in Seq(Items)
      /\ Len(E[n].result) <= Claims(start) /\ (Claims(start) > 0 => Len(E[n].result) < Claims(start))
      /\ \A bal : Balanced(start, bal) => \A a \in Accounts : bal[a] = -Weigh(Paid(a), E[n].result)
  BY <1>2, <1>3, PaysKeep
<1>6. Justified(Positive(all), Negative(all), Amounts(all), E[n].result)
  BY <1>2, <1>3, PaysFollow
<1> HIDE DEF payments
<1>5. /\ payments \in Seq(Items)
      /\ Len(payments) <= Claims(start) /\ (Claims(start) > 0 => Len(payments) < Claims(start))
      /\ \A bal : Balanced(start, bal) => \A a \in Accounts : bal[a] = -Weigh(Paid(a), payments)
  BY <1>4 DEF payments
<1>7. Justified(Positive(all), Negative(all), Amounts(all), payments)
  BY <1>6 DEF payments
<1> QED
  BY <1>1, <1>2, <1>5, <1>7

\* The payments of a plan are fewer than the accounts to settle, and leave little.
Settles(all, pl) ==
    /\ pl \in Seq(Items)
    /\ Unsettled(all) # {} => Len(pl) < Cardinality(Unsettled(all))
    /\ Sum(Amounts(all)) = 0 =>
         \A a \in Accounts : 200 * Abs(all[a].balance + Weigh(Paid(a), pl)) <= Unit * Cardinality(Unsettled(all))

\* A product grows with its second factor.
LEMMA TimesGrows == ASSUME NEW u \in Nat, NEW x \in Int, NEW y \in Int, x <= y PROVE u * x <= u * y
<1>1. u * (y - x) \in Nat
  BY y - x \in Nat
<1>2. u * (y - x) = u * y - u * x
  OBVIOUS
<1> QED
  BY <1>1, <1>2

\* What an account is paid, or pays, by a payment that is too small to be shown.
LEMMA DroppedIsSmall ==
    ASSUME NEW x \in Items, ~(200 * x.paymentAmount >= Unit), NEW a \in Accounts
    PROVE  Paid(a)[x] \in Int /\ 200 * Paid(a)[x] <= Unit /\ -200 * Paid(a)[x] <= Unit
<1> DEFINE m == x.paymentAmount
           k == Paid(a)[x]
<1>1. m \in Nat /\ Unit \in Nat /\ 200 * m < Unit
  BY BalanceBounds DEF Items
<1>2. k = (IF x.creditorId = a THEN m ELSE 0) - (IF x.debitorId = a THEN m ELSE 0)
  BY DEF Paid
<1>3. k = m \/ k = -m \/ k = 0
  BY <1>1, <1>2
<1> HIDE DEF m, k
<1>4. k \in Int /\ 200 * k <= Unit /\ -200 * k <= Unit
  BY <1>1, <1>3
<1> QED
  BY <1>4 DEF k

\* The plan settles everything.
LEMMA SettlementSettles ==
    ASSUME NEW all, HasBalances(all)
    PROVE  Settles(all, computeGroupSettlement(all))
<1>1. PICK payments \in Seq(Items) :
        /\ computeGroupSettlement(all) = Selected(payments, Shown(payments))
        /\ Len(payments) <= Cardinality(Unsettled(all))
        /\ Unsettled(all) # {} => Len(payments) < Cardinality(Unsettled(all))
        /\ Sum(Amounts(all)) = 0 => \A a \in Accounts : Amounts(all)[a] = -Weigh(Paid(a), payments)
  BY SettlementIs
<1> DEFINE pl == computeGroupSettlement(all)
           S == Shown(payments)
           R == DOMAIN payments
           D == R \ S
           u == Cardinality(Unsettled(all))
<1>2. R = 1 .. Len(payments) /\ Len(payments) \in Nat /\ \A i \in R : payments[i] \in Items
  OBVIOUS
<1>3. S \subseteq R
  BY DEF Shown
<1>4. \A i \in D : ~(200 * payments[i].paymentAmount >= Unit)
  BY DEF Shown
<1> HIDE DEF S
<1>5. /\ pl \in Seq(Items) /\ Len(pl) = Cardinality(S)
      /\ IsFiniteSet(S) /\ Cardinality(S) \in Nat /\ Cardinality(S) <= Len(payments)
      /\ \A w : Weighs(w, Items) => Weigh(w, pl) = Sum([i \in S |-> w[payments[i]]])
  BY <1>1, <1>3, SelectedIs DEF S
<1>6. u \in Nat /\ Len(payments) <= u
  BY <1>1, BeginningIs
<1>7. IsFiniteSet(R) /\ IsFiniteSet(D) /\ Cardinality(D) \in Nat /\ Cardinality(D) <= Len(payments)
  <2>1. D \subseteq R
    OBVIOUS
  <2>2. IsFiniteSet(R)
    BY <1>2, FS_Interval
  <2> HIDE DEF D, R
  <2>3. IsFiniteSet(D) /\ Cardinality(D) <= Cardinality(R)
    BY <2>1, <2>2, FS_Subset
  <2>4. Cardinality(D) \in Nat
    BY <2>3, FS_CardinalityType
  <2>5. Cardinality(R) = IF 1 > Len(payments) THEN 0 ELSE Len(payments) - 1 + 1
    BY <1>2, FS_Interval
  <2> QED
    BY <1>2, <2>2, <2>3, <2>4, <2>5
<1>8. ASSUME Unsettled(all) # {} PROVE Len(pl) < u
  <2>1. Len(payments) < u
    BY <1>1, <1>8
  <2> QED
    BY <1>2, <1>5, <1>6, <2>1
<1>9. ASSUME Sum(Amounts(all)) = 0, NEW a \in Accounts
      PROVE  200 * Abs(all[a].balance + Weigh(Paid(a), pl)) <= Unit * u
  <2> DEFINE v == Weights(Paid(a), payments)
             f == [i \in S |-> v[i]]
             d == [i \in D |-> v[i]]
             x == all[a].balance
             y == Weigh(Paid(a), pl)
             z == Sum(d)
             t == Weigh(Paid(a), payments)
             m == Unit * Cardinality(D)
             k == Unit * u
  <2>1. \A b \in Items : Paid(a)[b] \in Int
    BY WeightTypes
  <2>2. \A i \in R : v[i] = Paid(a)[payments[i]]
    BY DEF Weights
  <2>3. v \in [R -> Int]
    <3>1. DOMAIN v = R /\ v = [i \in R |-> Paid(a)[payments[i]]]
      BY DEF Weights
    <3> HIDE DEF v
    <3> QED
      BY <1>2, <2>1, <3>1
  <2>4. t = Sum(v) /\ t \in Int
    <3>1. t = Sum(v)
      BY DEF Weigh
    <3> HIDE DEF v, t
    <3> QED
      BY <1>7, <2>3, <3>1, SumInt
  <2>5. y = Sum(f)
    <3>1. Weighs(Paid(a), Items)
      BY <2>1 DEF Weighs
    <3>2. y = Sum([i \in S |-> Paid(a)[payments[i]]])
      BY <1>5, <3>1
    <3>3. [i \in S |-> Paid(a)[payments[i]]] = f
      BY <1>3, <2>2
    <3> HIDE DEF f, y
    <3> QED
      BY <3>2, <3>3
  <2>6. d \in [D -> Int] /\ f \in [S -> Int]
    BY <1>3, <2>3
  <2>7. ASSUME NEW i \in D PROVE 200 * d[i] <= Unit /\ -200 * d[i] <= Unit
    <3>1. payments[i] \in Items /\ ~(200 * payments[i].paymentAmount >= Unit) /\ d[i] = Paid(a)[payments[i]]
      BY <1>2, <1>4, <2>2
    <3> HIDE DEF d
    <3> QED
      BY <3>1, DroppedIsSmall
  <2> HIDE DEF v
  <2>8. Sum(f) + z = Sum(v)
    <3>1. S \in SUBSET R /\ D \in SUBSET R /\ S \cap D = {} /\ \A i \in R : i \in S \/ i \in D \/ v[i] = 0
      BY <1>3
    <3>2. f = Restrict(v, S) /\ d = Restrict(v, D)
      BY DEF Restrict
    <3> HIDE DEF R, D, f, d
    <3>3. Sum(Restrict(v, S)) + Sum(Restrict(v, D)) = Sum(v)
      BY <1>7, <2>3, <3>1, SumParts
    <3> QED
      BY <3>2, <3>3
  <2>9. x \in Int /\ x = -t
    <3>1. Amounts(all)[a] = -t
      BY <1>1, <1>9
    <3>2. Amounts(all)[a] = x /\ x \in Int
      BY DEF Amounts, HasBalances
    <3> HIDE DEF x, t
    <3> QED
      BY <3>1, <3>2
  <2> HIDE DEF d, f, D
  <2>10. z \in Int /\ y \in Int
    BY <1>5, <1>7, <2>5, <2>6, SumInt
  <2>11. Unit \in Int /\ Unit \in Nat
    BY BalanceBounds
  <2>12. 200 * z <= m /\ -200 * z <= m
    <3> DEFINE hi == 200
               lo == -200
    <3>1. AtMost(d, hi, Unit) /\ AtMost(d, lo, Unit)
      BY <2>6, <2>7 DEF AtMost
    <3>2. hi \in Int /\ lo \in Int
      OBVIOUS
    <3> HIDE DEF hi, lo
    <3>3. hi * Sum(d) <= Unit * Cardinality(D)
      BY <1>7, <2>6, <2>11, <3>1, <3>2, SumAtMost
    <3>4. lo * Sum(d) <= Unit * Cardinality(D)
      BY <1>7, <2>6, <2>11, <3>1, <3>2, SumAtMost
    <3>5. hi * z <= m /\ lo * z <= m
      BY <3>3, <3>4
    <3> HIDE DEF z, m
    <3> QED
      BY <2>10, <3>5 DEF hi, lo
  <2>13. m <= k
    <3>1. Cardinality(D) <= u /\ Cardinality(D) \in Int /\ u \in Int
      BY <1>2, <1>6, <1>7
    <3> HIDE DEF u
    <3> QED
      BY <2>11, <3>1, TimesGrows
  <2>14. m \in Int /\ k \in Int
    BY <1>6, <1>7, <2>11
  <2> HIDE DEF x, y, z, t, m, k
  <2>15. x + y = -z
    BY <2>4, <2>5, <2>8, <2>9, <2>10
  <2> DEFINE q == x + y
  <2>16. q \in Int /\ q = -z
    BY <2>9, <2>10, <2>15
  <2> HIDE DEF q
  <2>17. 200 * Abs(q) <= k
    BY <2>10, <2>12, <2>13, <2>14, <2>16 DEF Abs
  <2> QED
    BY <2>17 DEF q, x, y, k
<1> QED
  BY <1>5, <1>8, <1>9 DEF Settles

-----------------------------------------------------------------------------
(* What holds in every state. *)

Transfers == {Transfer(item) : item \in Items}
\* The transactions there can be.
Transactions == Purchases \cup Transfers

TypeOK == transactions \in Seq(Transactions) /\ drafts \in Seq(Transfers) /\ IsClearing(shares)
\* The selectors have followed the store.
Memoized == balances = computeAccountBalances(transactions, shares) /\ plan = computeGroupSettlement(balances)
IInv == TypeOK /\ Memoized

\* A list of transactions is one that the balances can be computed from.
LEMMA TransactionsType ==
    /\ \A t \in Transactions : IsTransaction(t)
    /\ \A ts \in Seq(Transactions) : AreTransactions(ts)
<1>1. ASSUME NEW item \in Items PROVE IsTransaction(Transfer(item))
  <2> DEFINE t == Transfer(item)
  <2>1. item.paymentAmount \in Int /\ item.creditorId \in Accounts /\ item.debitorId \in Accounts
    BY DEF Items
  <2>2. /\ t.value = item.paymentAmount /\ t.positions = <<>> /\ t.date \in Nat
        /\ t.creditor_shares = [x \in {item.creditorId} |-> 1] /\ t.debitor_shares = [x \in {item.debitorId} |-> 1]
    BY DEF Transfer
  <2> HIDE DEF t
  <2>3. IsShares(t.creditor_shares) /\ IsShares(t.debitor_shares)
    BY <2>1, <2>2 DEF IsShares
  <2>4. DOMAIN t.positions = {} /\ IsFiniteSet(DOMAIN t.positions)
    BY <2>2, FS_EmptySet
  <2> QED
    BY <2>1, <2>2, <2>3, <2>4 DEF IsTransaction, t
<1>2. ASSUME NEW t \in Transactions PROVE IsTransaction(t)
  BY <1>1, BalanceBounds DEF Transactions, Transfers
<1>3. ASSUME NEW ts \in Seq(Transactions) PROVE AreTransactions(ts)
  <2>1. DOMAIN ts = 1 .. Len(ts) /\ Len(ts) \in Nat /\ \A i \in DOMAIN ts : ts[i] \in Transactions
    OBVIOUS
  <2>2. IsFiniteSet(DOMAIN ts)
    BY <2>1, FS_Interval
  <2> QED
    BY <1>2, <2>1, <2>2 DEF AreTransactions
<1> QED
  BY <1>2, <1>3

\* The edited shares are shares: none of an account itself, and none of zero.
LEMMA EditedShares ==
    ASSUME NEW c \in Clearing, NEW a \in Accounts, NEW share \in 0 .. 2, IsClearing(shares), ShareSelect(c, a, share)
    PROVE  IsClearing(shares')
<1> DEFINE f == shares[c]
           g == IF share = 0 THEN Restrict(f, DOMAIN f \ {a})
                ELSE [x \in DOMAIN f \cup {a} |-> IF x = a THEN share ELSE f[x]]
<1>1. shares' = [shares EXCEPT ![c] = g] /\ a # c
  BY DEF ShareSelect
<1>2. /\ IsShares(f) /\ c \notin DOMAIN f /\ \A x \in DOMAIN f : f[x] > 0
      /\ DOMAIN shares = Clearing
      /\ \A d \in Clearing : /\ IsShares(shares[d]) /\ d \notin DOMAIN shares[d]
                              /\ \A x \in DOMAIN shares[d] : shares[d][x] > 0
  BY DEF IsClearing
<1> HIDE DEF f
<1>3. IsShares(g) /\ c \notin DOMAIN g /\ \A x \in DOMAIN g : g[x] > 0
  <2>1. CASE share = 0
    <3>1. g = [x \in DOMAIN f \ {a} |-> f[x]]
      BY <2>1 DEF Restrict
    <3> QED
      BY <1>2, <3>1 DEF IsShares
  <2>2. CASE share # 0
    <3>1. g = [x \in DOMAIN f \cup {a} |-> IF x = a THEN share ELSE f[x]] /\ share \in Nat /\ share > 0
      BY <2>2
    <3> QED
      BY <1>1, <1>2, <3>1 DEF IsShares
  <2> QED
    BY <2>1, <2>2
<1> HIDE DEF g
<1>4. DOMAIN shares' = Clearing /\ \A d \in Clearing : shares'[d] = IF d = c THEN g ELSE shares[d]
  BY <1>1, <1>2
<1> QED
  BY <1>2, <1>3, <1>4 DEF IsClearing

\* The plan is a list of payments between accounts.
LEMMA PlanType == IInv => HasBalances(balances) /\ plan \in Seq(Items) /\ Settles(balances, plan)
<1> SUFFICES ASSUME IInv PROVE HasBalances(balances) /\ plan \in Seq(Items) /\ Settles(balances, plan)
  OBVIOUS
<1>1. AreTransactions(transactions) /\ IsClearing(shares)
  BY TransactionsType DEF IInv, TypeOK
<1>2. HasBalances(balances)
  BY <1>1, AccountBalancesType DEF IInv, Memoized
<1>3. Settles(balances, plan)
  BY <1>2, SettlementSettles DEF IInv, Memoized
<1> QED
  BY <1>2, <1>3 DEF Settles

\* What the selectors compute from the store is memoized.
LEMMA Selects ==
    ASSUME NEW ts, NEW sh, selectAccountBalances(ts, sh), ts = transactions', sh = shares'
    PROVE  Memoized'
  BY ComputedIs DEF selectAccountBalances, Memoized

\* The inductive invariant holds in every state.
LEMMA Inductive == Spec => []IInv
<1>1. Init => IInv
  <2> SUFFICES ASSUME Init PROVE IInv
    OBVIOUS
  <2>1. transactions = <<>> /\ drafts = <<>> /\ shares = StartShares
    BY DEF Init
  <2>2. Memoized
    BY <2>1 DEF Init, Memoized
  <2>3. IsClearing(StartShares)
    BY BalanceBounds
  <2> QED
    BY <2>1, <2>2, <2>3 DEF IInv, TypeOK
<1>2. IInv /\ [Next]_vars => IInv'
  <2> SUFFICES ASSUME IInv, [Next]_vars PROVE IInv'
    OBVIOUS
  <2>1. transactions \in Seq(Transactions) /\ drafts \in Seq(Transfers) /\ IsClearing(shares) /\ Memoized
    BY DEF IInv, TypeOK
  <2>2. plan \in Seq(Items)
    BY PlanType
  <2>3. Transfers \subseteq Transactions /\ Purchases \subseteq Transactions
    BY DEF Transactions
  <2>4. ASSUME NEW p \in Purchases, Record(p) PROVE IInv'
    <3>1. transactions' = Append(transactions, p) /\ UNCHANGED <<shares, drafts>> /\ selectAccountBalances(transactions', shares)
      BY <2>4 DEF Record
    <3>2. transactions' \in Seq(Transactions)
      BY <2>1, <2>3, <3>1
    <3>3. Memoized'
      BY <3>1, Selects
    <3> QED
      BY <2>1, <3>1, <3>2, <3>3 DEF IInv, TypeOK
  <2>5. ASSUME NEW c \in Clearing, NEW a \in Accounts, NEW share \in 0 .. 2, ShareSelect(c, a, share) PROVE IInv'
    <3>1. UNCHANGED <<transactions, drafts>> /\ selectAccountBalances(transactions, shares')
      BY <2>5 DEF ShareSelect
    <3>2. IsClearing(shares')
      BY <2>1, <2>5, EditedShares
    <3>3. Memoized'
      BY <3>1, Selects
    <3> QED
      BY <2>1, <3>1, <3>2, <3>3 DEF IInv, TypeOK
  <2>6. ASSUME NEW i \in DOMAIN plan, onSettleClicked(i) PROVE IInv'
    <3>1. drafts' = Append(drafts, Transfer(plan[i])) /\ UNCHANGED <<transactions, shares, balances, plan>>
      BY <2>6 DEF onSettleClicked
    <3>2. plan[i] \in Items
      BY <2>2
    <3>3. Transfer(plan[i]) \in Transfers
      BY <3>2 DEF Transfers
    <3>4. drafts' \in Seq(Transfers)
      BY <2>1, <3>1, <3>3
    <3>5. Memoized'
      BY <2>1, <3>1 DEF Memoized
    <3> QED
      BY <2>1, <3>1, <3>4, <3>5 DEF IInv, TypeOK
  <2>7. ASSUME NEW i \in DOMAIN drafts PROVE drafts[i] \in Transfers /\ RemoveAt(drafts, i) \in Seq(Transfers)
    <3>1. i \in 1 .. Len(drafts) /\ drafts[i] \in Transfers
      BY <2>1
    <3> QED
      BY <2>1, <3>1, RemoveIs
  <2>8. ASSUME NEW i \in DOMAIN drafts, SaveTransfer(i) PROVE IInv'
    <3>1. /\ transactions' = Append(transactions, drafts[i]) /\ drafts' = RemoveAt(drafts, i) /\ shares' = shares
          /\ selectAccountBalances(transactions', shares)
      BY <2>8 DEF SaveTransfer
    <3>2. transactions' \in Seq(Transactions) /\ drafts' \in Seq(Transfers)
      BY <2>1, <2>3, <2>7, <3>1
    <3>3. Memoized'
      BY <3>1, Selects
    <3> QED
      BY <2>1, <3>1, <3>2, <3>3 DEF IInv, TypeOK
  <2>9. ASSUME NEW i \in DOMAIN drafts, DiscardTransfer(i) PROVE IInv'
    <3>1. drafts' = RemoveAt(drafts, i) /\ UNCHANGED <<transactions, shares, balances, plan>>
      BY <2>9 DEF DiscardTransfer
    <3>2. drafts' \in Seq(Transfers)
      BY <2>7, <3>1
    <3>3. Memoized'
      BY <2>1, <3>1 DEF Memoized
    <3> QED
      BY <2>1, <3>1, <3>2, <3>3 DEF IInv, TypeOK
  <2>10. CASE UNCHANGED vars
    BY <2>1, <2>10 DEF vars, IInv, TypeOK, Memoized
  <2> QED
    BY <2>4, <2>5, <2>6, <2>8, <2>9, <2>10 DEF Next
<1> QED
  BY <1>1, <1>2, PTL DEF Spec

\* Transactions whose divisions leave nothing are sound, and so is the distribution.
LEMMA NothingLost ==
    ASSUME IInv, AllConsumed, WithoutRemainder
    PROVE  Sound(transactions) /\ DividesInTurn(transactions, shares)
<1>1. AreTransactions(transactions)
  BY TransactionsType DEF IInv, TypeOK
<1>2. \A i \in DOMAIN transactions : transactions[i] \in Range(transactions)
  BY DEF Range
<1>3. Sound(transactions)
  BY <1>1, <1>2 DEF Sound, AllConsumed, WithoutRemainder
<1>4. DividesInTurn(transactions, shares)
  BY DEF DividesInTurn, DividesAt, WithoutRemainder
<1> QED
  BY <1>3, <1>4

\* In every state of the inductive invariant, the balances add up.
LEMMA AddingUp ==
    ASSUME IInv PROVE BalancesAddUp
<1> SUFFICES ASSUME AllConsumed, WithoutRemainder PROVE Sum([a \in Accounts |-> balances[a].balance]) = 0
  BY DEF BalancesAddUp
<1>1. Sound(transactions) /\ DividesInTurn(transactions, shares)
  BY NothingLost
<1>2. IsClearing(shares) /\ balances = computeAccountBalances(transactions, shares)
  BY DEF IInv, TypeOK, Memoized
<1>3. Sum(Amounts(balances)) = 0
  BY <1>1, <1>2, AccountBalancesAddUp
<1> QED
  BY <1>3 DEF Amounts

\* However many transactions there are and however the events share each other, no
\* amount appears or is lost between the accounts (balances.ts).
THEOREM BalancesAlwaysAddUp == Spec => []BalancesAddUp
  BY AddingUp, Inductive, PTL

\* The payments of the plan settle the group, in fewer payments than there are
\* accounts to settle (computeGroupSettlement).
THEOREM PlanAlwaysSettles == Spec => []PlanSettlesEverything
<1>1. IInv => PlanSettlesEverything
  <2> SUFFICES ASSUME IInv PROVE PlanSettlesEverything
    OBVIOUS
  <2> DEFINE open == {a \in Accounts : balances[a].balance # 0}
             paid(a) == Sum(Map(LAMBDA item : (IF item.creditorId = a THEN item.paymentAmount ELSE 0)
                                                - (IF item.debitorId = a THEN item.paymentAmount ELSE 0), plan))
  <2>1. HasBalances(balances) /\ plan \in Seq(Items) /\ Settles(balances, plan)
    BY PlanType
  <2>2. open = Unsettled(balances)
    BY DEF Unsettled
  <2>3. \A i \in DOMAIN plan : plan[i] \in Items /\ plan[i].paymentAmount > 0
    <3> HIDE DEF open, paid
    <3>1. \A i \in DOMAIN plan : plan[i] \in Items
      BY <2>1
    <3>2. \A x \in Items : x.paymentAmount > 0
      BY DEF Items
    <3> QED
      BY <3>1, <3>2
  <2>4. ASSUME NEW a \in Accounts PROVE paid(a) = Weigh(Paid(a), plan)
    <3> DEFINE v == [i \in DOMAIN plan |-> (IF plan[i].creditorId = a THEN plan[i].paymentAmount ELSE 0)
                                             - (IF plan[i].debitorId = a THEN plan[i].paymentAmount ELSE 0)]
    <3>1. paid(a) = Sum(Computed(v))
      BY ONLY DEF Map
    <3>2. v = Weights(Paid(a), plan)
      <4>1. \A i \in DOMAIN plan : v[i] = Paid(a)[plan[i]]
        BY <2>3 DEF Paid
      <4>2. v = [i \in DOMAIN plan |-> v[i]]
        OBVIOUS
      <4> HIDE DEF v
      <4> QED
        BY <4>1, <4>2 DEF Weights
    <3> HIDE DEF v
    <3> QED
      BY <3>1, <3>2, ComputedIs DEF Weigh
  <2> HIDE DEF open, paid
  <2>5. ASSUME AllConsumed, WithoutRemainder PROVE Sum(Amounts(balances)) = 0
    <3>1. Sound(transactions) /\ DividesInTurn(transactions, shares)
      BY <2>5, NothingLost
    <3> QED
      BY <3>1, AccountBalancesAddUp DEF IInv, TypeOK, Memoized
  <2>6. open # {} => Len(plan) < Cardinality(open)
    BY <2>1, <2>2 DEF Settles
  <2>7. ASSUME AllConsumed, WithoutRemainder, NEW a \in Accounts
        PROVE  200 * Abs(balances[a].balance + paid(a)) <= Unit * Cardinality(open)
    <3>1. 200 * Abs(balances[a].balance + Weigh(Paid(a), plan)) <= Unit * Cardinality(Unsettled(balances))
      BY <2>1, <2>5, <2>7 DEF Settles
    <3> QED
      BY <2>2, <2>4, <3>1
  <2> QED
    BY <2>3, <2>6, <2>7 DEF PlanSettlesEverything, open, paid
<1> QED
  BY <1>1, Inductive, PTL

-----------------------------------------------------------------------------
(* Lists without repetition. *)

\* s has every element of S once.
Lists(s, S) ==
    /\ s \in Seq(S) /\ \A i, j \in DOMAIN s : s[i] = s[j] => i = j
    /\ \A x \in S : \E i \in DOMAIN s : s[i] = x

\* The list of nothing.
LEMMA EmptyLists == Lists(<<>>, {})
  BY DEF Lists

\* A set in order is listed.
LEMMA OrderedLists ==
    ASSUME NEW S, S \subseteq Int, IsFiniteSet(S)
    PROVE  Lists(Ordered(S), S)
<1> DEFINE o == Ordered(S)
           T == 1 .. Cardinality(S)
<1>1. Renames(o, T, S) /\ o \in Seq(S)
  BY OrderedIs
<1>2. DOMAIN o = T
  BY <1>1 DEF Renames
<1> HIDE DEF o, T
<1> QED
  BY <1>1, <1>2 DEF Renames, Lists, o

\* One more.
LEMMA AppendLists ==
    ASSUME NEW s, NEW S, Lists(s, S), NEW x, x \notin S
    PROVE  Lists(Append(s, x), S \cup {x})
<1> DEFINE q == Append(s, x)
           n == Len(s)
           X == S \cup {x}
<1>1. s \in Seq(S) /\ n \in Nat /\ DOMAIN s = 1 .. n /\ \A i \in 1 .. n : s[i] \in S
  BY DEF Lists
<1>2. s \in Seq(X) /\ x \in X
  BY <1>1
<1>3. q \in Seq(X) /\ Len(q) = n + 1 /\ DOMAIN q = 1 .. n + 1 /\ q[n + 1] = x /\ \A i \in 1 .. n : q[i] = s[i]
  BY <1>1, <1>2
<1> HIDE DEF q, n
<1>4. ASSUME NEW i \in DOMAIN q, NEW j \in DOMAIN q, q[i] = q[j] PROVE i = j
  <2>1. i \in 1 .. n \/ i = n + 1
    BY <1>1, <1>3
  <2>2. j \in 1 .. n \/ j = n + 1
    BY <1>1, <1>3
  <2>3. CASE i \in 1 .. n /\ j \in 1 .. n
    BY <1>1, <1>3, <1>4, <2>3 DEF Lists
  <2> QED
    BY <1>1, <1>3, <1>4, <2>1, <2>2, <2>3
<1>5. ASSUME NEW y \in X PROVE \E i \in DOMAIN q : q[i] = y
  <2>1. CASE y = x
    BY <1>1, <1>3, <2>1
  <2>2. CASE y \in S
    <3>1. PICK i \in 1 .. n : s[i] = y
      BY <1>1, <2>2 DEF Lists
    <3> QED
      BY <1>1, <1>3, <3>1
  <2> QED
    BY <2>1, <2>2
<1> QED
  BY <1>3, <1>4, <1>5 DEF Lists, q

\* The last one and those in front of it.
LEMMA FrontLists ==
    ASSUME NEW s, NEW S, Lists(s, S), s # <<>>
    PROVE  Last(s) \in S /\ Lists(Front(s), S \ {Last(s)})
<1> DEFINE f == Front(s)
           n == Len(s)
           X == S \ {Last(s)}
           w == [x \in S |-> 0]
<1>1. s \in Seq(S) /\ DOMAIN s = 1 .. n
  BY DEF Lists
<1>2. Weighs(w, S)
  BY DEF Weighs
<1> HIDE DEF w, n
<1>3. /\ f \in Seq(S) /\ Last(s) \in S /\ Len(f) = Len(s) - 1 /\ Len(s) \in Nat \ {0}
      /\ \A j \in DOMAIN f : j \in DOMAIN s /\ f[j] = s[j]
      /\ Last(s) = s[Len(s)] /\ Len(s) \in DOMAIN s
  BY <1>1, <1>2, WeighFront
<1>4. DOMAIN f = 1 .. n - 1 /\ n \in Nat \ {0} /\ Last(s) = s[n] /\ n \in DOMAIN s
  BY <1>3 DEF n
<1> HIDE DEF f
<1>5. \A i, j \in DOMAIN s : s[i] = s[j] => i = j
  BY DEF Lists
<1>6. \A j \in DOMAIN f : f[j] \in X
  <2> SUFFICES ASSUME NEW j \in DOMAIN f PROVE f[j] \in X
    OBVIOUS
  <2>1. j \in DOMAIN s /\ f[j] = s[j] /\ j # n
    BY <1>3, <1>4
  <2>2. s[j] # s[n]
    BY <1>4, <1>5, <2>1
  <2> QED
    BY <1>3, <1>4, <2>1, <2>2
<1>7. f \in Seq(X)
  BY <1>3, <1>6
<1>8. \A i, j \in DOMAIN f : f[i] = f[j] => i = j
  BY <1>3, <1>5
<1>9. ASSUME NEW y \in X PROVE \E i \in DOMAIN f : f[i] = y
  <2>1. PICK i \in DOMAIN s : s[i] = y
    BY DEF Lists
  <2>2. i # n
    BY <1>4, <2>1
  <2>3. i \in DOMAIN f
    BY <1>1, <1>4, <2>1, <2>2
  <2> QED
    BY <1>3, <2>1, <2>3
<1> QED
  BY <1>3, <1>7, <1>8, <1>9 DEF Lists, f

\* Two lists one after the other.
LEMMA ConcatLists ==
    ASSUME NEW s, NEW S, Lists(s, S), NEW t, NEW T, Lists(t, T), S \cap T = {}
    PROVE  Lists(s \o t, S \cup T)
<1> DEFINE q == s \o t
           n == Len(s)
           m == Len(t)
           X == S \cup T
<1>1. /\ s \in Seq(S) /\ n \in Nat /\ DOMAIN s = 1 .. n /\ \A i \in 1 .. n : s[i] \in S
      /\ t \in Seq(T) /\ m \in Nat /\ DOMAIN t = 1 .. m /\ \A i \in 1 .. m : t[i] \in T
  BY DEF Lists
<1>2. s \in Seq(X) /\ t \in Seq(X)
  BY <1>1
<1>3. /\ q \in Seq(X) /\ Len(q) = n + m /\ DOMAIN q = 1 .. n + m
      /\ \A i \in 1 .. n : q[i] = s[i]
      /\ \A i \in n + 1 .. n + m : q[i] = t[i - n]
  BY <1>1, <1>2
<1> HIDE DEF q, n, m
<1>4. ASSUME NEW i \in DOMAIN q PROVE (i \in 1 .. n /\ q[i] = s[i] /\ q[i] \in S)
                                      \/ (i \in n + 1 .. n + m /\ i - n \in 1 .. m /\ q[i] = t[i - n] /\ q[i] \in T)
  <2>1. CASE i <= n
    BY <1>1, <1>3, <2>1
  <2>2. CASE i > n
    BY <1>1, <1>3, <2>2
  <2> QED
    BY <1>1, <1>3, <2>1, <2>2
<1>5. ASSUME NEW i \in DOMAIN q, NEW j \in DOMAIN q, q[i] = q[j] PROVE i = j
  <2>1. CASE i \in 1 .. n /\ j \in 1 .. n
    BY <1>1, <1>3, <1>5, <2>1 DEF Lists
  <2>2. CASE i \in n + 1 .. n + m /\ j \in n + 1 .. n + m
    <3>1. i - n \in DOMAIN t /\ j - n \in DOMAIN t /\ t[i - n] = t[j - n]
      BY <1>1, <1>3, <1>5, <2>2
    <3>2. i - n = j - n
      BY <3>1 DEF Lists
    <3> QED
      BY <1>1, <2>2, <3>2
  <2>3. q[i] \in S => q[i] \notin T
    OBVIOUS
  <2> QED
    BY <1>4, <1>5, <2>1, <2>2, <2>3
<1>6. ASSUME NEW y \in X PROVE \E i \in DOMAIN q : q[i] = y
  <2>1. CASE y \in S
    <3>1. PICK i \in 1 .. n : s[i] = y
      BY <1>1, <2>1 DEF Lists
    <3>2. i \in DOMAIN q
      BY <1>1, <1>3, <3>1
    <3> QED
      BY <1>1, <1>3, <3>1, <3>2
  <2>2. CASE y \in T
    <3>1. PICK i \in 1 .. m : t[i] = y
      BY <1>1, <2>2 DEF Lists
    <3>2. i + n \in n + 1 .. n + m /\ (i + n) - n = i /\ i + n \in DOMAIN q
      BY <1>1, <1>3, <3>1
    <3> QED
      BY <1>3, <3>1, <3>2
  <2> QED
    BY <2>1, <2>2
<1> QED
  BY <1>3, <1>5, <1>6 DEF Lists, q

-----------------------------------------------------------------------------
(* Circles. *)

\* Acyclic, of any shares.
NoCircle(sh) == \A S \in SUBSET Clearing : S # {} => ~(\A c \in S : DOMAIN sh[c] \cap S # {})
\* Every element of S is shared by one.
Backed(sh, S) == \A a \in S : \E c \in S : a \in DOMAIN sh[c]

\* Where no set flows into itself, none is fed by itself.
LEMMA NothingBacked ==
    ASSUME NEW sh, IsClearing(sh), NoCircle(sh), NEW S \in SUBSET Clearing, Backed(sh, S)
    PROVE  S = {}
<1> DEFINE P == {s \in SUBSET Clearing : Backed(sh, s) => s = {}}
<1>1. IsFiniteSet(Clearing)
  BY BalanceBounds, FS_Subset DEF Accounts
<1>2. {} \in P
  OBVIOUS
<1>3. ASSUME NEW s \in SUBSET Clearing, s # {}, \A x \in s : s \ {x} \in P PROVE s \in P
  <2> SUFFICES ASSUME Backed(sh, s) PROVE FALSE
    OBVIOUS
  <2>1. PICK x \in s : DOMAIN sh[x] \cap s = {}
    BY <1>3 DEF NoCircle
  <2>2. Backed(sh, s \ {x})
    <3> SUFFICES ASSUME NEW a \in s \ {x} PROVE \E c \in s \ {x} : a \in DOMAIN sh[c]
      BY DEF Backed
    <3>1. PICK c \in s : a \in DOMAIN sh[c]
      BY DEF Backed
    <3>2. c # x
      BY <2>1, <3>1
    <3> QED
      BY <3>1, <3>2
  <2>3. s \ {x} = {}
    BY <1>3, <2>1, <2>2
  <2>4. PICK c \in s : x \in DOMAIN sh[c]
    BY <2>1 DEF Backed
  <2> QED
    BY <2>1, <2>3, <2>4
<1> HIDE DEF P
<1>4. \A s \in SUBSET Clearing : s \in P
  BY <1>1, <1>2, <1>3, SetInduction
<1> QED
  BY <1>4 DEF P

-----------------------------------------------------------------------------
(* The search for the order of the clearing accounts. *)

\* Who shares account a.
Sharers(sh, a) == {c \in Sharing(sh) : a \in DOMAIN sh[c]}
\* Whoever shares an account of the list comes before it.
InTurn(sh, s) == \A i \in DOMAIN s : \A c \in Sharers(sh, s[i]) : \E j \in DOMAIN s : j < i /\ s[j] = c

\* The search with the accounts T put in order and the accounts Z open.
SearchOK(sh, x, Z, T) ==
    /\ T \subseteq Sharing(sh) /\ Lists(x.sorting, T) /\ InTurn(sh, x.sorting)
    /\ Z \subseteq Accounts /\ Lists(x.zero, Z) /\ Z \cap T = {}
    /\ \A a \in Accounts : x.degree[a] = Cardinality(Sharers(sh, a) \ T)
    /\ \A a \in Z : x.degree[a] = 0
    /\ \A c \in Sharing(sh) : x.degree[c] = 0 => c \in Z \cup T

\* The accounts that are open, or will be.
Pending(x, Z) == Z \cup {a \in Accounts : x.degree[a] > 0}

\* The sharers of an account that are not in order yet.
LEMMA SharersLeft ==
    ASSUME NEW sh, NEW a, NEW T
    PROVE  /\ IsFiniteSet(Sharers(sh, a) \ T) /\ Cardinality(Sharers(sh, a) \ T) \in Nat
           /\ Cardinality(Sharers(sh, a) \ T) = 0 <=> Sharers(sh, a) \subseteq T
<1> DEFINE W == Sharers(sh, a) \ T
<1>1. W \subseteq Accounts /\ IsFiniteSet(Accounts)
  BY BalanceBounds DEF Sharers, Sharing, Accounts
<1>2. W = {} <=> Sharers(sh, a) \subseteq T
  OBVIOUS
<1> HIDE DEF W
<1>3. IsFiniteSet(W)
  BY <1>1, FS_Subset
<1>4. Cardinality(W) \in Nat /\ (Cardinality(W) = 0 <=> W = {})
  BY <1>3, FS_CardinalityType, FS_EmptySet
<1> QED
  BY <1>2, <1>3, <1>4 DEF W

\* In the beginning nothing is in order.
LEMMA SearchBegins ==
    ASSUME NEW sh
    PROVE  SearchOK(sh, SearchStart(sh), {c \in Sharing(sh) : InDegree(sh)[c] = 0}, {})
<1> DEFINE x == SearchStart(sh)
           Z == {c \in Sharing(sh) : InDegree(sh)[c] = 0}
<1>1. x.zero = Ordered(Z) /\ x.degree = InDegree(sh) /\ x.sorting = <<>>
  BY DEF SearchStart
<1>2. Z \subseteq Accounts /\ Accounts \subseteq Int /\ IsFiniteSet(Accounts)
  BY BalanceBounds DEF Sharing, Accounts
<1>3. Lists(x.sorting, {}) /\ InTurn(sh, x.sorting)
  BY <1>1, EmptyLists DEF InTurn
<1>4. Lists(x.zero, Z)
  <2>1. IsFiniteSet(Z) /\ Z \subseteq Int
    BY <1>2, FS_Subset
  <2> HIDE DEF Z, x
  <2> QED
    BY <1>1, <2>1, OrderedLists
<1>5. \A a \in Accounts : x.degree[a] = Cardinality(Sharers(sh, a) \ {})
  <2> SUFFICES ASSUME NEW a \in Accounts PROVE x.degree[a] = Cardinality(Sharers(sh, a) \ {})
    OBVIOUS
  <2>1. Sharers(sh, a) \ {} = {c \in Sharing(sh) : a \in DOMAIN sh[c]}
    BY DEF Sharers
  <2>2. x.degree[a] = Cardinality({c \in Sharing(sh) : a \in DOMAIN sh[c]})
    BY <1>1 DEF InDegree
  <2> QED
    BY <2>1, <2>2
<1>6. \A c \in Sharing(sh) : x.degree[c] = 0 => c \in Z
  BY <1>1
<1>7. \A a \in Z : x.degree[a] = 0
  BY <1>1
<1> HIDE DEF Z, x
<1> QED
  BY <1>2, <1>3, <1>4, <1>5, <1>6, <1>7 DEF SearchOK, x, Z

\* The accounts that node flows into, and those of them that have no other inflow left.
Into(sh, node) == IF node \in Sharing(sh) THEN DOMAIN sh[node] ELSE {}
Opened(sh, x, node) == {a \in Into(sh, node) : x.degree[a] > 0 /\ x.degree[a] - 1 <= 0}
\* What is put in order with node.
Taken(sh, node) == IF node \in Sharing(sh) THEN {node} ELSE {}

\* One step of the search, by its parts.
LEMMA LinearizeIs ==
    ASSUME NEW sh, IsClearing(sh), NEW x, x.zero # <<>>, NEW node, node = Last(x.zero)
    PROVE  /\ Linearize(sh, x).zero = Front(x.zero) \o Ordered(Opened(sh, x, node))
           /\ Linearize(sh, x).sorting = IF node \in Sharing(sh) THEN Append(x.sorting, node) ELSE x.sorting
           /\ \A a \in Accounts : Linearize(sh, x).degree[a] = IF a \in Into(sh, node) THEN x.degree[a] - 1 ELSE x.degree[a]
           /\ Into(sh, node) \subseteq Accounts
<1> DEFINE now == [a \in Accounts |-> IF a \in Into(sh, node) THEN x.degree[a] - 1 ELSE x.degree[a]]
           opened == {a \in Into(sh, node) : x.degree[a] > 0 /\ now[a] <= 0}
<1>1. Linearize(sh, x) = [zero |-> Front(x.zero) \o Ordered(opened), degree |-> now,
                          sorting |-> IF node \in Sharing(sh) THEN Append(x.sorting, node) ELSE x.sorting]
  BY DEF Linearize, Into
<1>2. Into(sh, node) \subseteq Accounts
  BY DEF Into, Sharing, IsClearing, IsShares
<1>3. opened = Opened(sh, x, node)
  <2>1. \A a \in Into(sh, node) : now[a] = x.degree[a] - 1
    BY <1>2
  <2> HIDE DEF now
  <2> QED
    BY <2>1 DEF Opened
<1>4. \A a \in Accounts : now[a] = IF a \in Into(sh, node) THEN x.degree[a] - 1 ELSE x.degree[a]
  OBVIOUS
<1> HIDE DEF now, opened
<1> QED
  BY <1>1, <1>2, <1>3, <1>4

\* The sharers of an account that are left when one more is in order.
LEMMA SharersFewer ==
    ASSUME NEW sh, NEW T, NEW node, node \notin T, NEW a
    PROVE  /\ Cardinality(Sharers(sh, a) \ T) \in Nat
           /\ Cardinality(Sharers(sh, a) \ (T \cup Taken(sh, node)))
              = IF a \in Into(sh, node) THEN Cardinality(Sharers(sh, a) \ T) - 1 ELSE Cardinality(Sharers(sh, a) \ T)
           /\ Cardinality(Sharers(sh, a) \ (T \cup Taken(sh, node))) \in Nat
           /\ a \in Into(sh, node) => Cardinality(Sharers(sh, a) \ T) > 0
<1> DEFINE W == Sharers(sh, a) \ T
           V == Sharers(sh, a) \ (T \cup Taken(sh, node))
<1>1. IsFiniteSet(W) /\ Cardinality(W) \in Nat /\ Cardinality(V) \in Nat
  BY SharersLeft
<1>2. CASE a \in Into(sh, node)
  <2>1. node \in W /\ V = W \ {node}
    BY <1>2 DEF Into, Taken, Sharers
  <2> HIDE DEF V, W
  <2>2. Cardinality(V) = Cardinality(W) - 1
    BY <1>1, <2>1, FS_RemoveElement
  <2>3. Cardinality(W) > 0
    BY <1>1, <2>2
  <2> QED
    BY <1>1, <1>2, <2>2, <2>3 DEF V, W
<1>3. CASE a \notin Into(sh, node)
  <2>1. V = W
    BY <1>3 DEF Into, Taken, Sharers
  <2> HIDE DEF V, W
  <2> QED
    BY <1>1, <1>3, <2>1 DEF V, W
<1> QED
  BY <1>2, <1>3

\* What is in order has no inflow that is not.
LEMMA InOrderClosed ==
    ASSUME NEW sh, NEW x, NEW Z, NEW T, SearchOK(sh, x, Z, T), NEW c \in T
    PROVE  x.degree[c] = 0
<1>1. PICK i \in DOMAIN x.sorting : x.sorting[i] = c
  BY DEF SearchOK, Lists
<1>2. \A d \in Sharers(sh, c) : \E j \in DOMAIN x.sorting : x.sorting[j] = d
  BY <1>1 DEF SearchOK, InTurn
<1>3. \A j \in DOMAIN x.sorting : x.sorting[j] \in T
  BY DEF SearchOK, Lists
<1>4. Sharers(sh, c) \subseteq T
  BY <1>2, <1>3
<1>5. Cardinality(Sharers(sh, c) \ T) = 0
  BY <1>4, SharersLeft
<1>6. c \in Accounts
  BY DEF SearchOK, Sharing, Accounts
<1> QED
  BY <1>5, <1>6 DEF SearchOK

\* What is open, and what is in order, after node is taken.
OpenNext(sh, x, Z, node) == (Z \ {node}) \cup Opened(sh, x, node)
OrderedNext(sh, T, node) == T \cup Taken(sh, node)

\* How the open inflow changes with node.
LEMMA DegreesAfter ==
    ASSUME NEW sh, IsClearing(sh), NEW x, NEW Z, NEW T, SearchOK(sh, x, Z, T), x.zero # <<>>,
           NEW node, node = Last(x.zero), NEW y, y = Linearize(sh, x)
    PROVE  /\ node \in Z /\ node \in Accounts /\ node \notin T /\ x.degree[node] = 0
           /\ \A a \in Accounts : x.degree[a] \in Nat /\ y.degree[a] \in Nat
           /\ \A a \in Accounts : y.degree[a] = Cardinality(Sharers(sh, a) \ OrderedNext(sh, T, node))
           /\ \A a \in Into(sh, node) : a \in Accounts /\ x.degree[a] > 0 /\ y.degree[a] = x.degree[a] - 1
           /\ \A a \in Accounts : a \notin Into(sh, node) => y.degree[a] = x.degree[a]
           /\ Opened(sh, x, node) = {a \in Into(sh, node) : y.degree[a] = 0}
<1>1. node \in Z /\ Lists(Front(x.zero), Z \ {node})
  BY FrontLists DEF SearchOK
<1>2. node \in Accounts /\ node \notin T /\ x.degree[node] = 0
  BY <1>1 DEF SearchOK
<1>3. Into(sh, node) \subseteq Accounts /\ \A a \in Accounts : y.degree[a] = IF a \in Into(sh, node) THEN x.degree[a] - 1 ELSE x.degree[a]
  BY LinearizeIs
<1>4. ASSUME NEW a \in Accounts
      PROVE  /\ x.degree[a] \in Nat /\ y.degree[a] \in Nat
             /\ y.degree[a] = Cardinality(Sharers(sh, a) \ OrderedNext(sh, T, node))
             /\ a \in Into(sh, node) => x.degree[a] > 0 /\ y.degree[a] = x.degree[a] - 1
             /\ a \notin Into(sh, node) => y.degree[a] = x.degree[a]
             /\ a \in Opened(sh, x, node) <=> a \in Into(sh, node) /\ y.degree[a] = 0
  <2> DEFINE m == Cardinality(Sharers(sh, a) \ T)
             k == Cardinality(Sharers(sh, a) \ OrderedNext(sh, T, node))
  <2>1. /\ m \in Nat /\ k \in Nat /\ k = IF a \in Into(sh, node) THEN m - 1 ELSE m
        /\ a \in Into(sh, node) => m > 0
    BY <1>2, SharersFewer DEF OrderedNext
  <2>2. x.degree[a] = m
    BY DEF SearchOK
  <2> HIDE DEF m, k
  <2>3. y.degree[a] = k
    BY <1>3, <2>1, <2>2
  <2>4. a \in Opened(sh, x, node) <=> a \in Into(sh, node) /\ m > 0 /\ m - 1 <= 0
    BY <2>2 DEF Opened
  <2> QED
    BY <2>1, <2>2, <2>3, <2>4 DEF k
<1>5. Opened(sh, x, node) \subseteq Into(sh, node)
  BY DEF Opened
<1>6. Opened(sh, x, node) = {a \in Into(sh, node) : y.degree[a] = 0}
  BY <1>3, <1>4, <1>5
<1>7. \A a \in Into(sh, node) : a \in Accounts /\ x.degree[a] > 0 /\ y.degree[a] = x.degree[a] - 1
  BY <1>3, <1>4
<1> QED
  BY <1>1, <1>2, <1>4, <1>6, <1>7

\* A step keeps to the order, and takes one account that was open or would be.
LEMMA LinearizeKeeps ==
    ASSUME NEW sh, IsClearing(sh), NEW x, NEW Z, NEW T, SearchOK(sh, x, Z, T), x.zero # <<>>,
           NEW node, node = Last(x.zero), NEW y, y = Linearize(sh, x)
    PROVE  /\ SearchOK(sh, y, OpenNext(sh, x, Z, node), OrderedNext(sh, T, node))
           /\ node \in Pending(x, Z) /\ Pending(y, OpenNext(sh, x, Z, node)) = Pending(x, Z) \ {node}
<1> DEFINE O == Opened(sh, x, node)
           Z2 == OpenNext(sh, x, Z, node)
           T2 == OrderedNext(sh, T, node)
           N == Into(sh, node)
<1>1. /\ node \in Z /\ node \in Accounts /\ node \notin T /\ x.degree[node] = 0
      /\ \A a \in Accounts : x.degree[a] \in Nat /\ y.degree[a] \in Nat
      /\ \A a \in Accounts : y.degree[a] = Cardinality(Sharers(sh, a) \ T2)
      /\ \A a \in N : a \in Accounts /\ x.degree[a] > 0 /\ y.degree[a] = x.degree[a] - 1
      /\ \A a \in Accounts : a \notin N => y.degree[a] = x.degree[a]
      /\ O = {a \in N : y.degree[a] = 0}
  BY DegreesAfter
<1>2. /\ T \subseteq Sharing(sh) /\ Lists(x.sorting, T) /\ InTurn(sh, x.sorting)
      /\ Z \subseteq Accounts /\ Lists(x.zero, Z) /\ Z \cap T = {}
      /\ \A a \in Z : x.degree[a] = 0
      /\ \A c \in Sharing(sh) : x.degree[c] = 0 => c \in Z \cup T
  BY DEF SearchOK
<1>3. \A c \in T : x.degree[c] = 0
  BY InOrderClosed
<1>4. /\ y.zero = Front(x.zero) \o Ordered(O)
      /\ y.sorting = IF node \in Sharing(sh) THEN Append(x.sorting, node) ELSE x.sorting
  BY LinearizeIs
<1>5. Lists(Front(x.zero), Z \ {node})
  BY <1>2, FrontLists
<1>6. Accounts \subseteq Int /\ IsFiniteSet(Accounts) /\ Sharing(sh) \subseteq Accounts
  BY BalanceBounds DEF Sharing, Accounts
<1>7. Z2 = (Z \ {node}) \cup O /\ T2 = T \cup Taken(sh, node)
  BY DEF OpenNext, OrderedNext
<1>8. node \notin O /\ node \notin N
  BY <1>1
<1> HIDE DEF O, N, Z2, T2
<1>9. Lists(y.zero, Z2)
  <2>1. IsFiniteSet(O) /\ O \subseteq Int
    BY <1>1, <1>6, FS_Subset
  <2>2. Lists(Ordered(O), O)
    BY <2>1, OrderedLists
  <2>3. (Z \ {node}) \cap O = {}
    BY <1>1, <1>2
  <2>4. Lists(Front(x.zero) \o Ordered(O), (Z \ {node}) \cup O)
    BY <1>5, <2>2, <2>3, ConcatLists
  <2> QED
    BY <1>4, <1>7, <2>4
<1>10. T2 \subseteq Sharing(sh) /\ Lists(y.sorting, T2)
  <2>1. CASE node \in Sharing(sh)
    <3>1. T2 = T \cup {node}
      BY <1>7, <2>1 DEF Taken
    <3>2. Lists(Append(x.sorting, node), T \cup {node})
      BY <1>1, <1>2, AppendLists
    <3>3. y.sorting = Append(x.sorting, node)
      BY <1>4, <2>1
    <3> QED
      BY <1>2, <2>1, <3>1, <3>2, <3>3
  <2>2. CASE node \notin Sharing(sh)
    BY <1>2, <1>4, <1>7, <2>2 DEF Taken
  <2> QED
    BY <2>1, <2>2
<1>11. InTurn(sh, y.sorting)
  <2>1. CASE node \notin Sharing(sh)
    BY <1>2, <1>4, <2>1
  <2>2. CASE node \in Sharing(sh)
    <3> DEFINE s == x.sorting
               q == y.sorting
               n == Len(s)
    <3>1. s \in Seq(Sharing(sh)) /\ n \in Nat /\ DOMAIN s = 1 .. n
      BY <1>2 DEF Lists
    <3>2. q = Append(s, node)
      BY <1>4, <2>2
    <3> HIDE DEF s, q, n
    <3>3. DOMAIN q = 1 .. n + 1 /\ q[n + 1] = node /\ \A i \in 1 .. n : q[i] = s[i]
      BY <2>2, <3>1, <3>2 DEF n
    <3> SUFFICES ASSUME NEW i \in DOMAIN q, NEW c \in Sharers(sh, q[i]) PROVE \E j \in DOMAIN q : j < i /\ q[j] = c
      BY DEF InTurn, q
    <3>4. CASE i = n + 1
      <4>1. Sharers(sh, node) \subseteq T
        <5>1. Cardinality(Sharers(sh, node) \ T) = 0
          BY <1>1 DEF SearchOK
        <5> QED
          BY <5>1, SharersLeft
      <4>2. c \in T
        BY <3>3, <3>4, <4>1
      <4>3. PICK j \in DOMAIN s : s[j] = c
        BY <1>2, <4>2 DEF Lists, s
      <4>4. j \in 1 .. n
        BY <3>1, <4>3
      <4> QED
        BY <3>1, <3>3, <3>4, <4>3, <4>4
    <3>5. CASE i # n + 1
      <4>1. i \in 1 .. n
        BY <3>1, <3>3, <3>5
      <4>2. i \in DOMAIN s /\ c \in Sharers(sh, s[i])
        BY <3>1, <3>3, <4>1
      <4>3. PICK j \in DOMAIN s : j < i /\ s[j] = c
        BY <1>2, <4>2 DEF InTurn, s
      <4> QED
        BY <3>1, <3>3, <4>3
    <3> QED
      BY <3>4, <3>5
  <2> QED
    BY <2>1, <2>2
<1>12. Z2 \subseteq Accounts /\ Z2 \cap T2 = {}
  <2>1. Z2 \subseteq Accounts
    BY <1>1, <1>2, <1>7
  <2>2. O \cap T = {}
    BY <1>1, <1>2, <1>3, <1>6
  <2> QED
    BY <1>2, <1>7, <1>8, <2>1, <2>2 DEF Taken
<1>13. \A a \in Z2 : y.degree[a] = 0
  <2> SUFFICES ASSUME NEW a \in Z2 PROVE y.degree[a] = 0
    OBVIOUS
  <2>1. CASE a \in O
    BY <1>1, <2>1
  <2>2. CASE a \in Z
    BY <1>1, <1>2, <2>2
  <2> QED
    BY <1>7, <2>1, <2>2
<1>14. \A c \in Sharing(sh) : y.degree[c] = 0 => c \in Z2 \cup T2
  <2> SUFFICES ASSUME NEW c \in Sharing(sh), y.degree[c] = 0 PROVE c \in Z2 \cup T2
    OBVIOUS
  <2>1. CASE c \in N
    BY <1>1, <1>6, <1>7, <2>1
  <2>2. CASE c \notin N
    <3>1. c \in Z \cup T
      BY <1>1, <1>2, <1>6, <2>2
    <3>2. c = node => c \in Taken(sh, node)
      BY DEF Taken
    <3> QED
      BY <1>7, <3>1, <3>2
  <2> QED
    BY <2>1, <2>2
<1>15. SearchOK(sh, y, Z2, T2)
  BY <1>1, <1>9, <1>10, <1>11, <1>12, <1>13, <1>14 DEF SearchOK
<1>16. Pending(y, Z2) = Pending(x, Z) \ {node}
  <2>1. ASSUME NEW a \in Pending(y, Z2) PROVE a \in Pending(x, Z) \ {node}
    <3>1. a \in Accounts /\ (a \in Z2 \/ y.degree[a] > 0)
      BY <1>12, <2>1 DEF Pending
    <3>2. a # node
      BY <1>1, <1>7, <1>8, <3>1
    <3>3. a \in Z \/ x.degree[a] > 0
      BY <1>1, <1>7, <3>1
    <3> QED
      BY <3>1, <3>2, <3>3 DEF Pending
  <2>2. ASSUME NEW a \in Pending(x, Z), a # node PROVE a \in Pending(y, Z2)
    <3>1. a \in Accounts /\ (a \in Z \/ x.degree[a] > 0)
      BY <1>2, <2>2 DEF Pending
    <3>2. a \in Z2 \/ y.degree[a] > 0
      BY <1>1, <1>7, <2>2, <3>1
    <3> QED
      BY <3>1, <3>2 DEF Pending
  <2> QED
    BY <2>1, <2>2
<1>17. node \in Pending(x, Z)
  BY <1>1 DEF Pending
<1> QED
  BY <1>15, <1>16, <1>17 DEF Z2, T2

\* An end of the search leaves it as it is.
LEMMA LinearizeEnds ==
    ASSUME NEW sh, NEW x, x.zero = <<>> PROVE Linearize(sh, x) = x
  BY DEF Linearize

\* The search of so many steps, of n, has ended or has no more accounts ahead than steps.
SearchedFor(sh, x, left) ==
    \E Z, T : SearchOK(sh, x, Z, T) /\ (x.zero = <<>> \/ Cardinality(Pending(x, Z)) <= left)

\* The accounts ahead are accounts.
LEMMA PendingIs ==
    ASSUME NEW sh, NEW x, NEW Z, NEW T, SearchOK(sh, x, Z, T)
    PROVE  IsFiniteSet(Pending(x, Z)) /\ Cardinality(Pending(x, Z)) \in Nat /\ Cardinality(Pending(x, Z)) <= Cardinality(Accounts)
<1>1. Pending(x, Z) \subseteq Accounts
  BY DEF SearchOK, Pending
<1>2. IsFiniteSet(Accounts)
  BY BalanceBounds
<1> QED
  BY <1>1, <1>2, FS_Subset, FS_CardinalityType

\* The search ends.
LEMMA SearchEnds ==
    ASSUME NEW sh, IsClearing(sh)
    PROVE  \E T : SearchOK(sh, Searches(sh)[Cardinality(Accounts)], {}, T)
<1> DEFINE n == Cardinality(Accounts)
           E == Searches(sh)
           P == {k \in Nat : k <= n => SearchedFor(sh, E[k], n - k)}
<1>1. n \in Nat /\ E[0] = SearchStart(sh) /\ \A k \in 1 .. n : E[k] = Linearize(sh, E[k - 1])
  BY SearchIs
<1> HIDE DEF E
<1>2. 0 \in P
  <2>1. SearchOK(sh, E[0], {c \in Sharing(sh) : InDegree(sh)[c] = 0}, {})
    BY <1>1, SearchBegins
  <2>2. PICK Z : SearchOK(sh, E[0], Z, {})
    BY <2>1
  <2>3. Cardinality(Pending(E[0], Z)) <= n
    BY <2>2, PendingIs
  <2> HIDE DEF n
  <2>4. n - 0 = n
    BY <1>1
  <2>5. SearchedFor(sh, E[0], n)
    BY <2>2, <2>3 DEF SearchedFor
  <2> QED
    BY <2>4, <2>5
<1>3. ASSUME NEW k \in Nat, k \in P PROVE k + 1 \in P
  <2> SUFFICES ASSUME k + 1 <= n PROVE SearchedFor(sh, E[k + 1], n - (k + 1))
    OBVIOUS
  <2> HIDE DEF n
  <2>1. k <= n /\ k + 1 \in 1 .. n /\ (k + 1) - 1 = k
    BY <1>1
  <2>2. PICK Z, T : SearchOK(sh, E[k], Z, T) /\ (E[k].zero = <<>> \/ Cardinality(Pending(E[k], Z)) <= n - k)
    BY <1>3, <2>1 DEF SearchedFor
  <2>3. E[k + 1] = Linearize(sh, E[k])
    BY <1>1, <2>1
  <2>4. CASE E[k].zero = <<>>
    <3>1. E[k + 1] = E[k]
      BY <2>3, <2>4, LinearizeEnds
    <3> QED
      BY <2>2, <2>4, <3>1 DEF SearchedFor
  <2>5. CASE E[k].zero # <<>>
    <3> DEFINE node == Last(E[k].zero)
               Z2 == OpenNext(sh, E[k], Z, node)
               A == Pending(E[k], Z)
               B == Pending(E[k + 1], Z2)
    <3>1. SearchOK(sh, E[k + 1], Z2, OrderedNext(sh, T, node)) /\ node \in A /\ B = A \ {node}
      BY <2>2, <2>3, <2>5, LinearizeKeeps
    <3>2. IsFiniteSet(A) /\ Cardinality(A) \in Nat /\ Cardinality(A) <= n - k
      BY <2>2, <2>5, PendingIs
    <3> HIDE DEF A, B, Z2, node
    <3>3. Cardinality(B) = Cardinality(A) - 1
      BY <3>1, <3>2, FS_RemoveElement
    <3>4. Cardinality(B) <= n - (k + 1)
      BY <1>1, <3>2, <3>3
    <3> QED
      BY <3>1, <3>4 DEF B, SearchedFor
  <2> QED
    BY <2>4, <2>5
<1>4. n \in P
  <2> HIDE DEF P
  <2>1. \A k \in Nat : k \in P
    BY <1>2, <1>3, Induction
  <2> QED
    BY <1>1, <2>1
<1>5. PICK Z, T : SearchOK(sh, E[n], Z, T) /\ (E[n].zero = <<>> \/ Cardinality(Pending(E[n], Z)) <= 0)
  <2> HIDE DEF n
  <2>1. n - n = 0
    BY <1>1
  <2>2. SearchedFor(sh, E[n], 0)
    BY <1>1, <1>4, <2>1
  <2> QED
    BY <2>2 DEF SearchedFor
<1>6. Z = {}
  <2>1. CASE E[n].zero = <<>>
    BY <1>5, <2>1 DEF SearchOK, Lists
  <2>2. CASE Cardinality(Pending(E[n], Z)) <= 0
    <3> DEFINE A == Pending(E[n], Z)
    <3>1. IsFiniteSet(A) /\ Cardinality(A) \in Nat
      BY <1>5, PendingIs
    <3>2. Z \subseteq A
      BY DEF Pending
    <3> HIDE DEF A
    <3>3. A = {}
      BY <2>2, <3>1, FS_EmptySet DEF A
    <3> QED
      BY <3>2, <3>3
  <2> QED
    BY <1>5, <2>1, <2>2
<1> QED
  BY <1>5, <1>6 DEF E

\* Clearing accounts are put in order after those that they have a share of.
LEMMA SortingLists ==
    ASSUME NEW sh, IsClearing(sh)
    PROVE  \E T : T \subseteq Sharing(sh) /\ Lists(Sorting(sh), T) /\ InTurn(sh, Sorting(sh))
<1> DEFINE x == Searches(sh)[Cardinality(Accounts)]
<1>1. PICK T : SearchOK(sh, x, {}, T)
  BY SearchEnds
<1>2. Sorting(sh) = x.sorting
  BY SearchIs
<1> HIDE DEF x
<1> QED
  BY <1>1, <1>2 DEF SearchOK

\* Without a circle every clearing account with shares is put in order, after those
\* that it has a share of.
LEMMA SortingInTurn ==
    ASSUME NEW sh, IsClearing(sh), NoCircle(sh)
    PROVE  Lists(Sorting(sh), Sharing(sh)) /\ InTurn(sh, Sorting(sh))
<1> DEFINE x == Searches(sh)[Cardinality(Accounts)]
<1>1. PICK T : SearchOK(sh, x, {}, T)
  BY SearchEnds
<1>2. Sorting(sh) = x.sorting
  BY SearchIs
<1> HIDE DEF x
<1> DEFINE S == Sharing(sh) \ T
<1>3. S \in SUBSET Clearing
  BY DEF Sharing
<1>4. Backed(sh, S)
  <2> SUFFICES ASSUME NEW a \in S PROVE \E c \in S : a \in DOMAIN sh[c]
    BY DEF Backed
  <2>1. x.degree[a] # 0 /\ a \in Accounts
    BY <1>1 DEF SearchOK, Sharing, Accounts
  <2>2. Cardinality(Sharers(sh, a) \ T) # 0
    BY <1>1, <2>1 DEF SearchOK
  <2>3. ~(Sharers(sh, a) \subseteq T)
    BY <2>2, SharersLeft
  <2> QED
    BY <2>3 DEF Sharers
<1>5. S = {}
  <2> HIDE DEF S
  <2> QED
    BY <1>3, <1>4, NothingBacked
<1>6. T = Sharing(sh)
  BY <1>1, <1>5 DEF SearchOK
<1> QED
  BY <1>1, <1>2, <1>6 DEF SearchOK

-----------------------------------------------------------------------------
(* What has reached an account. *)

\* Paid less consumed, and what the transactions alone make of it.
Net(b) == [a \in Accounts |-> b[a].totalPaid - b[a].totalConsumed]
Own(ts) == [a \in Accounts |-> Sum([i \in DOMAIN ts |-> Change(ts[i])[a]])]

\* What account a gets of the amount of clearing account c.
Share(sh, amount, c, a) == (amount * sh[c][a]) \div Sum(sh[c])

Fields == {"balance", "totalConsumed", "totalPaid", "clearingResolution"}
\* The entries of an account are there.
HasFields(b) ==
    /\ DOMAIN b = Accounts
    /\ \A a \in Accounts : DOMAIN b[a] = Fields /\ b[a].balance \in Int /\ b[a].totalPaid \in Int /\ b[a].totalConsumed \in Int

\* Before the clearing accounts are emptied, the balance is paid less consumed.
LEMMA BeforeClearingNet ==
    ASSUME NEW ts, AreTransactions(ts)
    PROVE  /\ HasFields(BeforeClearing(ts))
           /\ \A a \in Accounts : /\ BeforeClearing(ts)[a].balance = Own(ts)[a]
                                  /\ Net(BeforeClearing(ts))[a] = Own(ts)[a]
                                  /\ BeforeClearing(ts)[a].clearingResolution = [x \in {} |-> 0]
<1> DEFINE b == BeforeClearing(ts)
           S == DOMAIN ts
           effects == Map(computeTransactionBalanceEffect, ts)
           T(a) == {j \in S : a \in DOMAIN effects[j]}
           total(a) == [i \in T(a) |-> effects[i][a].total]
           consumed(a) == [i \in T(a) |-> effects[i][a].commonDebitors + effects[i][a].positions]
           paid(a) == [i \in T(a) |-> effects[i][a].commonCreditors]
<1>1. effects = [i \in S |-> computeTransactionBalanceEffect(ts[i])]
  BY ComputedIs DEF Map
<1>2. /\ DOMAIN b = Accounts
      /\ \A a \in Accounts : /\ DOMAIN b[a] = Fields /\ b[a].balance = Sum(total(a))
                             /\ b[a].totalConsumed = Sum(consumed(a)) /\ b[a].totalPaid = Sum(paid(a))
                             /\ b[a].clearingResolution = [x \in {} |-> 0]
  BY DEF BeforeClearing, Fields
<1>3. \A i \in S : IsTransaction(ts[i]) /\ IsFiniteSet(S)
  BY DEF AreTransactions
<1>4. ASSUME NEW a \in Accounts, NEW i \in T(a)
      PROVE  /\ total(a)[i] = paid(a)[i] - consumed(a)[i]
             /\ paid(a)[i] \in Int /\ consumed(a)[i] \in Int
  <2> DEFINE t == ts[i]
             e == computeTransactionBalanceEffect(t)
  <2>1. i \in S /\ effects[i] = e /\ a \in Involved(t) /\ IsTransaction(t)
    BY <1>1, <1>3 DEF Involved
  <2>2. e[a].commonCreditors = Credit(t)[a] /\ e[a].commonDebitors = Debit(t)[a] /\ e[a].positions = Positions(t)[a]
    BY <2>1 DEF Credit, Debit, Positions, Involved, computeTransactionBalanceEffect
  <2>3. e[a].total = Credit(t)[a] - Positions(t)[a] - Debit(t)[a]
    BY <2>1, EffectIs
  <2>4. Credit(t)[a] \in Int /\ Positions(t)[a] \in Int /\ Debit(t)[a] \in Int
    BY <2>1, EffectParts
  <2>5. paid(a)[i] = e[a].commonCreditors /\ consumed(a)[i] = e[a].commonDebitors + e[a].positions /\ total(a)[i] = e[a].total
    BY <2>1
  <2> HIDE DEF e, t, paid, consumed, total
  <2> QED
    BY <2>2, <2>3, <2>4, <2>5
<1>5. ASSUME NEW a \in Accounts
      PROVE  Sum(total(a)) = Sum(paid(a)) - Sum(consumed(a)) /\ Sum(paid(a)) \in Int /\ Sum(consumed(a)) \in Int
  <2> DEFINE t == total(a)
             p == paid(a)
             c == consumed(a)
             U == T(a)
  <2>1. U \in SUBSET S /\ DOMAIN t = U /\ DOMAIN p = U /\ DOMAIN c = U
    OBVIOUS
  <2>2. \A i \in U : t[i] = p[i] - c[i] /\ p[i] \in Int /\ c[i] \in Int
    BY <1>4
  <2>3. t = [i \in U |-> t[i]] /\ p = [i \in U |-> p[i]] /\ c = [i \in U |-> c[i]]
    BY <2>1
  <2>4. IsFiniteSet(S)
    BY DEF AreTransactions
  <2> HIDE DEF t, p, c, U
  <2>5. IsFiniteSet(U)
    BY <2>1, <2>4, FS_Subset
  <2>6. p \in [U -> Int] /\ c \in [U -> Int] /\ t = [i \in U |-> p[i] - c[i]]
    BY <2>2, <2>3
  <2>7. Sum(t) = Sum(p) - Sum(c) /\ Sum(p) \in Int /\ Sum(c) \in Int
    BY <2>5, <2>6, SumMinus, SumInt
  <2> QED
    BY <2>7 DEF t, p, c
<1> HIDE DEF b, total, paid, consumed
<1>6. \A a \in Accounts : b[a].balance = Own(ts)[a]
  BY BeforeClearingIs DEF Own, b
<1>7. \A a \in Accounts : Net(b)[a] = b[a].balance
  BY <1>2, <1>5 DEF Net
<1>8. HasFields(b)
  BY <1>2, <1>5 DEF HasFields
<1> QED
  BY <1>2, <1>6, <1>7, <1>8 DEF b

\* What it means that a clearing account is emptied.
LEMMA DistributeIs ==
    ASSUME NEW sh, IsClearing(sh), NEW c \in Sharing(sh), NEW b, HasFields(b), NEW n, n = Distribute(sh, b, c)
    PROVE  /\ HasFields(n)
           /\ \A a \in DOMAIN sh[c] : a \in Accounts /\ Share(sh, b[c].balance, c, a) \in Int
           /\ \A a \in Accounts :
                 a # c => n[a].balance = b[a].balance + (IF a \in DOMAIN sh[c] THEN Share(sh, b[c].balance, c, a) ELSE 0)
           /\ n[c].balance = 0
           /\ \A a \in Accounts : Net(n)[a] = Net(b)[a] + (IF a \in DOMAIN sh[c] THEN Share(sh, b[c].balance, c, a) ELSE 0)
           /\ \A a \in Accounts : a # c => n[a].clearingResolution = b[a].clearingResolution
           /\ n[c].clearingResolution = [x \in DOMAIN sh[c] |-> Share(sh, b[c].balance, c, x)]
<1> DEFINE D == DOMAIN sh[c]
           share(a) == (b[c].balance * At(sh[c], a)) \div Sum(sh[c])
           got(a) == [b[a] EXCEPT !.balance = b[a].balance + share(a),
                                  !.totalPaid = b[a].totalPaid + (IF share(a) > 0 THEN share(a) ELSE 0),
                                  !.totalConsumed = b[a].totalConsumed + (IF share(a) > 0 THEN 0 ELSE -share(a))]
           res == [x \in D |-> Share(sh, b[c].balance, c, x)]
<1>1. c \in Accounts /\ IsShares(sh[c]) /\ Sum(sh[c]) \in Nat /\ Sum(sh[c]) > 0 /\ c \notin D
  BY SharesPositive
<1>2. D \subseteq Accounts /\ \A a \in D : share(a) = Share(sh, b[c].balance, c, a)
  BY <1>1 DEF At, Share, IsShares
<1>3. ASSUME NEW a \in D PROVE Share(sh, b[c].balance, c, a) \in Int
  <2> DEFINE x == b[c].balance * sh[c][a]
  <2>1. sh[c][a] \in Nat /\ b[c].balance \in Int
    BY <1>1 DEF HasFields, IsShares
  <2>2. x \in Int
    BY <2>1
  <2> HIDE DEF x
  <2>3. x \div Sum(sh[c]) \in Int
    BY <1>1, <2>2, WholeQuotient
  <2> QED
    BY <2>3 DEF x, Share
<1>4. n = [a \in Accounts |-> CASE a = c -> [b[c] EXCEPT !.balance = 0, !.clearingResolution = [x \in D |-> share(x)]]
                                [] a # c /\ a \in D -> got(a)
                                [] OTHER -> b[a]]
  BY DEF Distribute
<1>5. [x \in D |-> share(x)] = res
  BY <1>2
<1>6. n[c] = [b[c] EXCEPT !.balance = 0, !.clearingResolution = res]
  BY <1>1, <1>4, <1>5
<1>7. \A a \in D : n[a] = got(a)
  BY <1>1, <1>2, <1>4
<1>8. \A a \in Accounts : a \notin D /\ a # c => n[a] = b[a]
  BY <1>4
<1>9. DOMAIN n = Accounts
  BY <1>4
<1> HIDE DEF res
<1>10. \A a \in Accounts : DOMAIN b[a] = Fields /\ b[a].balance \in Int /\ b[a].totalPaid \in Int /\ b[a].totalConsumed \in Int
  BY DEF HasFields
<1>11. /\ DOMAIN n[c] = Fields /\ n[c].balance = 0 /\ n[c].totalPaid = b[c].totalPaid /\ n[c].totalConsumed = b[c].totalConsumed
       /\ n[c].clearingResolution = res
  BY <1>1, <1>6, <1>10 DEF Fields
<1>12. ASSUME NEW a \in D
       PROVE  /\ DOMAIN n[a] = Fields /\ n[a].balance = b[a].balance + Share(sh, b[c].balance, c, a)
              /\ n[a].totalPaid \in Int /\ n[a].totalConsumed \in Int
              /\ n[a].totalPaid - n[a].totalConsumed
                 = (b[a].totalPaid - b[a].totalConsumed) + Share(sh, b[c].balance, c, a)
              /\ n[a].clearingResolution = b[a].clearingResolution
  <2> DEFINE z == Share(sh, b[c].balance, c, a)
  <2>1. share(a) = z /\ z \in Int /\ a \in Accounts
    BY <1>2, <1>3
  <2> HIDE DEF z, share
  <2>2. n[a] = [b[a] EXCEPT !.balance = b[a].balance + z,
                            !.totalPaid = b[a].totalPaid + (IF z > 0 THEN z ELSE 0),
                            !.totalConsumed = b[a].totalConsumed + (IF z > 0 THEN 0 ELSE -z)]
    BY <1>7, <2>1
  <2>3. /\ DOMAIN n[a] = Fields /\ n[a].balance = b[a].balance + z
        /\ n[a].totalPaid = b[a].totalPaid + (IF z > 0 THEN z ELSE 0)
        /\ n[a].totalConsumed = b[a].totalConsumed + (IF z > 0 THEN 0 ELSE -z)
        /\ n[a].clearingResolution = b[a].clearingResolution
    BY <1>10, <2>1, <2>2 DEF Fields
  <2> QED
    BY <1>10, <2>1, <2>3 DEF z
<1> HIDE DEF got, share
<1>13. HasFields(n)
  <2> SUFFICES ASSUME NEW a \in Accounts
               PROVE  DOMAIN n[a] = Fields /\ n[a].balance \in Int /\ n[a].totalPaid \in Int /\ n[a].totalConsumed \in Int
    BY <1>9 DEF HasFields
  <2>1. CASE a = c
    BY <1>10, <1>11, <2>1
  <2>2. CASE a \in D
    BY <1>3, <1>10, <1>12, <2>2
  <2>3. CASE a \notin D /\ a # c
    BY <1>8, <1>10, <2>3
  <2> QED
    BY <2>1, <2>2, <2>3
<1>14. ASSUME NEW a \in Accounts
       PROVE  Net(n)[a] = Net(b)[a] + (IF a \in D THEN Share(sh, b[c].balance, c, a) ELSE 0)
  <2>1. Net(n)[a] = n[a].totalPaid - n[a].totalConsumed /\ Net(b)[a] = b[a].totalPaid - b[a].totalConsumed
    BY DEF Net
  <2>2. CASE a = c
    BY <1>1, <1>10, <1>11, <2>1, <2>2
  <2>3. CASE a \in D
    BY <1>12, <2>1, <2>3
  <2>4. CASE a \notin D /\ a # c
    BY <1>8, <1>10, <2>1, <2>4
  <2> QED
    BY <2>2, <2>3, <2>4
<1>15. \A a \in Accounts : a # c => n[a].balance = b[a].balance + (IF a \in D THEN Share(sh, b[c].balance, c, a) ELSE 0)
  BY <1>8, <1>10, <1>12
<1>16. \A a \in Accounts : a # c => n[a].clearingResolution = b[a].clearingResolution
  BY <1>8, <1>12
<1> QED
  BY <1>2, <1>3, <1>11, <1>13, <1>14, <1>15, <1>16 DEF res

\* The part of a share is an integer.
LEMMA ShareType ==
    ASSUME NEW sh, IsClearing(sh), NEW c \in Sharing(sh), NEW amount \in Int, NEW a \in DOMAIN sh[c]
    PROVE  Share(sh, amount, c, a) \in Int
<1> DEFINE x == amount * sh[c][a]
<1>1. IsShares(sh[c]) /\ Sum(sh[c]) \in Nat /\ Sum(sh[c]) > 0
  BY SharesPositive
<1>2. sh[c][a] \in Nat
  BY <1>1 DEF IsShares
<1>3. x \in Int
  BY <1>2
<1> HIDE DEF x
<1>4. x \div Sum(sh[c]) \in Int
  BY <1>1, <1>3, WholeQuotient
<1> QED
  BY <1>4 DEF x, Share

\* One element and the sum of the others, by a name.
Without(f, x) == [y \in DOMAIN f \ {x} |-> f[y]]
LEMMA SumWithout ==
    ASSUME NEW S, IsFiniteSet(S), NEW f \in [S -> Int], NEW x \in S
    PROVE  Sum(f) = f[x] + Sum(Without(f, x))
<1>1. DOMAIN f = S
  OBVIOUS
<1>2. Without(f, x) = [y \in S \ {x} |-> f[y]]
  BY <1>1 DEF Without
<1> QED
  BY <1>2, SumElement

\* What account a gets of the clearing accounts of S, when N has reached them.
Fed(sh, a, S) == {d \in S : a \in DOMAIN sh[d]}
Flow(sh, N, a, S) == [c \in Fed(sh, a, S) |-> Share(sh, N[c], c, a)]

\* What is passed on depends only on what has reached those who pass it on.
LEMMA FlowSame ==
    ASSUME NEW sh, NEW a, NEW S, NEW N, NEW M, \A d \in Fed(sh, a, S) : M[d] = N[d]
    PROVE  Flow(sh, M, a, S) = Flow(sh, N, a, S)
  BY DEF Flow, Fed

\* What is passed on is an integer.
LEMMA FlowIs ==
    ASSUME NEW sh, IsClearing(sh), NEW S, S \subseteq Sharing(sh), NEW N \in [Accounts -> Int], NEW a
    PROVE  /\ IsFiniteSet(Fed(sh, a, S))
           /\ Flow(sh, N, a, S) \in [Fed(sh, a, S) -> Int]
           /\ Sum(Flow(sh, N, a, S)) \in Int
<1> DEFINE U == Fed(sh, a, S)
           f == Flow(sh, N, a, S)
<1>1. U \subseteq Accounts /\ IsFiniteSet(Accounts) /\ U \subseteq Sharing(sh)
  BY BalanceBounds DEF Sharing, Accounts, Fed
<1>2. ASSUME NEW d \in U PROVE Share(sh, N[d], d, a) \in Int
  <2>1. d \in Accounts /\ d \in Sharing(sh) /\ a \in DOMAIN sh[d]
    BY <1>1 DEF Fed
  <2>2. N[d] \in Int
    BY <2>1
  <2> QED
    BY <2>1, <2>2, ShareType
<1>3. f \in [U -> Int]
  BY <1>2 DEF Flow, Fed
<1> HIDE DEF U, f
<1>4. IsFiniteSet(U)
  BY <1>1, FS_Subset
<1>5. Sum(f) \in Int
  BY <1>3, <1>4, SumInt
<1> QED
  BY <1>3, <1>4, <1>5 DEF U, f

\* One more passes on what has reached it.
LEMMA FlowGrows ==
    ASSUME NEW sh, IsClearing(sh), NEW S, S \subseteq Sharing(sh), NEW N \in [Accounts -> Int], NEW a,
           NEW c \in Sharing(sh), c \notin S
    PROVE  Sum(Flow(sh, N, a, S \cup {c})) = Sum(Flow(sh, N, a, S))
                                            + (IF a \in DOMAIN sh[c] THEN Share(sh, N[c], c, a) ELSE 0)
<1> DEFINE V == S \cup {c}
           U == Fed(sh, a, V)
           f == Flow(sh, N, a, V)
           g == Flow(sh, N, a, S)
<1>1. IsFiniteSet(U) /\ f \in [U -> Int]
  <2>1. V \subseteq Sharing(sh)
    OBVIOUS
  <2> HIDE DEF V
  <2> QED
    BY <2>1, FlowIs
<1>2. Sum(g) \in Int
  BY FlowIs
<1>3. CASE a \in DOMAIN sh[c]
  <2>0. c \in U
    BY <1>3 DEF Fed
  <2>1. f[c] = Share(sh, N[c], c, a)
    BY <1>3 DEF Flow, Fed
  <2>2. Without(f, c) = g
    <3>0. DOMAIN f = U
      BY <1>1
    <3>1. U \ {c} = Fed(sh, a, S)
      BY DEF Fed
    <3>2. \A d \in U : f[d] = Share(sh, N[d], d, a)
      BY DEF Flow, Fed
    <3>3. [d \in U \ {c} |-> f[d]] = [d \in U \ {c} |-> Share(sh, N[d], d, a)]
      <4> HIDE DEF f, U
      <4> QED
        BY <3>2
    <3>4. Without(f, c) = [d \in U \ {c} |-> Share(sh, N[d], d, a)]
      <4> HIDE DEF f, U
      <4> QED
        BY <3>0, <3>3 DEF Without
    <3> QED
      BY <3>1, <3>4 DEF Flow
  <2> HIDE DEF U, f, g, V
  <2>3. Sum(f) = f[c] + Sum(g)
    BY <1>1, <2>0, <2>2, SumWithout
  <2>4. Share(sh, N[c], c, a) \in Int
    <3>1. N[c] \in Int
      BY DEF Sharing, Accounts
    <3> QED
      BY <1>3, <3>1, ShareType
  <2>5. Sum(f) = Sum(g) + Share(sh, N[c], c, a)
    BY <1>2, <2>1, <2>3, <2>4
  <2> QED
    BY <1>3, <2>5 DEF f, g, V
<1>4. CASE a \notin DOMAIN sh[c]
  <2>1. U = Fed(sh, a, S)
    BY <1>4 DEF Fed
  <2>2. f = g
    BY <2>1 DEF Flow, Fed
  <2> HIDE DEF f, g
  <2>3. Sum(f) = Sum(g) + 0
    BY <1>2, <2>2
  <2> QED
    BY <1>4, <2>3 DEF f, g
<1> QED
  BY <1>3, <1>4

\* What the emptied clearing accounts pass on.
Passed(sh, N, c) == [x \in DOMAIN sh[c] |-> Share(sh, N[c], c, x)]

\* The balances when those of S are emptied: paid less consumed is what has reached an
\* account, and it is the balance of those that are not emptied.
EmptiedOK(sh, own, b, S) ==
    /\ HasFields(b)
    /\ \A a \in Accounts : Net(b)[a] = own[a] + Sum(Flow(sh, Net(b), a, S))
    /\ \A a \in Accounts : b[a].balance = IF a \in S THEN 0 ELSE Net(b)[a]
    /\ \A a \in Accounts : b[a].clearingResolution = IF a \in S THEN Passed(sh, Net(b), a) ELSE [x \in {} |-> 0]

\* What has reached an account is an integer.
LEMMA NetType ==
    ASSUME NEW b, HasFields(b) PROVE Net(b) \in [Accounts -> Int]
  BY DEF HasFields, Net

\* One more is emptied, that shares none of those before it, nor itself.
LEMMA EmptyNext ==
    ASSUME NEW sh, IsClearing(sh), NEW own \in [Accounts -> Int], NEW S, S \subseteq Sharing(sh),
           NEW b, EmptiedOK(sh, own, b, S), NEW c \in Sharing(sh), c \notin S, S \cap DOMAIN sh[c] = {},
           NEW n, n = Distribute(sh, b, c)
    PROVE  EmptiedOK(sh, own, n, S \cup {c})
<1> DEFINE N == Net(b)
           M == Net(n)
           V == S \cup {c}
<1>1. /\ HasFields(b)
      /\ \A a \in Accounts : N[a] = own[a] + Sum(Flow(sh, N, a, S))
      /\ \A a \in Accounts : b[a].balance = IF a \in S THEN 0 ELSE N[a]
      /\ \A a \in Accounts : b[a].clearingResolution = IF a \in S THEN Passed(sh, N, a) ELSE [x \in {} |-> 0]
  BY DEF EmptiedOK
<1>2. c \in Accounts /\ c \notin DOMAIN sh[c] /\ S \subseteq Accounts /\ V \subseteq Sharing(sh)
  BY SharesPositive DEF Sharing, Accounts
<1>3. b[c].balance = N[c]
  BY <1>1, <1>2
<1>4. /\ HasFields(n)
      /\ \A a \in DOMAIN sh[c] : a \in Accounts /\ Share(sh, N[c], c, a) \in Int
      /\ \A a \in Accounts : a # c => n[a].balance = b[a].balance + (IF a \in DOMAIN sh[c] THEN Share(sh, N[c], c, a) ELSE 0)
      /\ n[c].balance = 0
      /\ \A a \in Accounts : M[a] = N[a] + (IF a \in DOMAIN sh[c] THEN Share(sh, N[c], c, a) ELSE 0)
      /\ \A a \in Accounts : a # c => n[a].clearingResolution = b[a].clearingResolution
      /\ n[c].clearingResolution = [x \in DOMAIN sh[c] |-> Share(sh, N[c], c, x)]
  <2> HIDE DEF N, M
  <2>1. /\ HasFields(n)
        /\ \A a \in DOMAIN sh[c] : a \in Accounts /\ Share(sh, b[c].balance, c, a) \in Int
        /\ \A a \in Accounts : a # c => n[a].balance = b[a].balance + (IF a \in DOMAIN sh[c] THEN Share(sh, b[c].balance, c, a) ELSE 0)
        /\ n[c].balance = 0
        /\ \A a \in Accounts : Net(n)[a] = Net(b)[a] + (IF a \in DOMAIN sh[c] THEN Share(sh, b[c].balance, c, a) ELSE 0)
        /\ \A a \in Accounts : a # c => n[a].clearingResolution = b[a].clearingResolution
        /\ n[c].clearingResolution = [x \in DOMAIN sh[c] |-> Share(sh, b[c].balance, c, x)]
    BY <1>1, DistributeIs
  <2> QED
    BY <1>3, <2>1 DEF N, M
<1>5. N \in [Accounts -> Int] /\ M \in [Accounts -> Int]
  BY <1>1, <1>4, NetType
<1> HIDE DEF N, M
<1>6. \A d \in V : M[d] = N[d]
  <2> SUFFICES ASSUME NEW d \in V PROVE M[d] = N[d]
    OBVIOUS
  <2>1. d \notin DOMAIN sh[c] /\ d \in Accounts
    BY <1>2
  <2> QED
    BY <1>4, <1>5, <2>1
<1>7. ASSUME NEW a \in Accounts PROVE M[a] = own[a] + Sum(Flow(sh, M, a, V))
  <2> DEFINE z == IF a \in DOMAIN sh[c] THEN Share(sh, N[c], c, a) ELSE 0
             x == Sum(Flow(sh, N, a, S))
  <2>1. Flow(sh, M, a, V) = Flow(sh, N, a, V)
    <3> HIDE DEF V
    <3> QED
      BY <1>6, FlowSame DEF Fed
  <2>2. Sum(Flow(sh, N, a, V)) = x + z
    BY <1>5, FlowGrows
  <2>3. x \in Int
    BY <1>5, FlowIs
  <2>4. M[a] = N[a] + z /\ z \in Int /\ N[a] = own[a] + x
    BY <1>1, <1>4
  <2> HIDE DEF x, z, V
  <2>5. M[a] = own[a] + (x + z)
    BY <2>3, <2>4
  <2> QED
    BY <2>1, <2>2, <2>5
<1>8. ASSUME NEW a \in Accounts PROVE n[a].balance = IF a \in V THEN 0 ELSE M[a]
  <2>1. CASE a = c
    BY <1>4, <2>1
  <2>2. CASE a \in S
    <3>1. a # c /\ a \notin DOMAIN sh[c] /\ b[a].balance = 0
      BY <1>1, <2>2
    <3> QED
      BY <1>4, <2>2, <3>1
  <2>3. CASE a \notin V
    <3>1. a # c /\ b[a].balance = N[a]
      BY <1>1, <2>3
    <3> QED
      BY <1>4, <2>3, <3>1
  <2> QED
    BY <2>1, <2>2, <2>3
<1>9. ASSUME NEW a \in Accounts PROVE n[a].clearingResolution = IF a \in V THEN Passed(sh, M, a) ELSE [x \in {} |-> 0]
  <2>1. ASSUME a \in V PROVE Passed(sh, M, a) = Passed(sh, N, a)
    BY <1>6, <2>1 DEF Passed
  <2>2. CASE a = c
    <3>1. n[a].clearingResolution = Passed(sh, N, a)
      BY <1>4, <2>2 DEF Passed
    <3> QED
      BY <2>1, <2>2, <3>1
  <2>3. CASE a # c
    BY <1>1, <1>4, <2>1, <2>3
  <2> QED
    BY <2>2, <2>3
<1> QED
  BY <1>4, <1>7, <1>8, <1>9 DEF EmptiedOK, M

\* The first k of a list.
Firsts(s, k) == {s[j] : j \in 1 .. k}

\* What has reached an account is its part of the transactions and of what has reached
\* the clearing accounts that are put in order, of which nothing is left.
LEMMA EmptiedReach ==
    ASSUME NEW ts, AreTransactions(ts), NEW sh, IsClearing(sh),
           NEW S, S \subseteq Sharing(sh), Lists(Sorting(sh), S), InTurn(sh, Sorting(sh))
    PROVE  EmptiedOK(sh, Own(ts), computeAccountBalances(ts, sh), S)
<1> DEFINE E == Emptied(ts, sh)
           s == Sorting(sh)
           m == Len(s)
           own == Own(ts)
           P == {k \in Nat : k <= m => EmptiedOK(sh, own, E[k], Firsts(s, k))}
<1>1. Lists(s, S) /\ InTurn(sh, s)
  OBVIOUS
<1>2. s \in Seq(S) /\ m \in Nat /\ DOMAIN s = 1 .. m /\ \A k \in 1 .. m : s[k] \in Sharing(sh)
  BY <1>1 DEF Lists
<1>3. \A k \in 0 .. m : E[k] = Stage(sh, s, BeforeClearing(ts), E, k)
  BY <1>2, EmptiedIs
<1>4. computeAccountBalances(ts, sh) = E[m]
  BY ComputedIs DEF computeAccountBalances
<1> HIDE DEF E, s
<1>5. own \in [Accounts -> Int] /\ EmptiedOK(sh, own, BeforeClearing(ts), {})
  <2> DEFINE b == BeforeClearing(ts)
  <2>1. /\ HasFields(b)
        /\ \A a \in Accounts : b[a].balance = own[a] /\ Net(b)[a] = own[a] /\ b[a].clearingResolution = [x \in {} |-> 0]
    BY BeforeClearingNet
  <2>2. \A a \in Accounts : own[a] \in Int
    BY <2>1 DEF HasFields
  <2>3. own = [a \in Accounts |-> own[a]]
    BY DEF Own
  <2>4. \A a \in Accounts : Sum(Flow(sh, Net(b), a, {})) = 0
    <3> SUFFICES ASSUME NEW a \in Accounts PROVE Sum(Flow(sh, Net(b), a, {})) = 0
      OBVIOUS
    <3> DEFINE f == Flow(sh, Net(b), a, {})
    <3>1. DOMAIN f = {}
      BY DEF Flow, Fed
    <3> HIDE DEF f
    <3> QED
      BY <3>1, SumEmpty DEF f
  <2> HIDE DEF b, own
  <2>5. own \in [Accounts -> Int]
    BY <2>2, <2>3
  <2>6. \A a \in Accounts : Net(b)[a] = own[a] + Sum(Flow(sh, Net(b), a, {}))
    BY <2>1, <2>2, <2>4
  <2> QED
    BY <2>1, <2>5, <2>6 DEF EmptiedOK, b, own
<1> HIDE DEF own
<1>6. 0 \in P
  <2>1. Firsts(s, 0) = {}
    BY DEF Firsts
  <2>2. E[0] = BeforeClearing(ts)
    BY <1>2, <1>3 DEF Stage
  <2> QED
    BY <1>5, <2>1, <2>2
<1>7. ASSUME NEW k \in Nat, k \in P PROVE k + 1 \in P
  <2> SUFFICES ASSUME k + 1 <= m PROVE EmptiedOK(sh, own, E[k + 1], Firsts(s, k + 1))
    OBVIOUS
  <2> DEFINE c == s[k + 1]
             F == Firsts(s, k)
  <2>1. k + 1 \in 0 .. m /\ k + 1 \in 1 .. m /\ k + 1 # 0 /\ (k + 1) - 1 = k /\ EmptiedOK(sh, own, E[k], F)
    BY <1>2, <1>7
  <2>2. E[k + 1] = Distribute(sh, E[k], c)
    BY <1>3, <2>1 DEF Stage
  <2>3. c \in Sharing(sh) /\ F \subseteq Sharing(sh)
    BY <1>2, <2>1 DEF Firsts
  <2>4. Firsts(s, k + 1) = F \cup {c}
    BY DEF Firsts
  <2>5. \A i, j \in 1 .. m : s[i] = s[j] => i = j
    BY <1>1, <1>2 DEF Lists
  <2>6. c \notin F
    BY <2>1, <2>5 DEF Firsts
  <2>7. ASSUME NEW d \in F PROVE d \notin DOMAIN sh[c]
    <3>1. PICK j \in 1 .. k : s[j] = d
      BY DEF Firsts
    <3>2. j \in DOMAIN s /\ j \in 1 .. m /\ j < k + 1
      BY <1>2, <2>1, <3>1
    <3> SUFFICES ASSUME d \in DOMAIN sh[c] PROVE FALSE
      OBVIOUS
    <3>3. c \in Sharers(sh, s[j])
      BY <2>3, <3>1 DEF Sharers
    <3>4. PICK i \in DOMAIN s : i < j /\ s[i] = c
      BY <1>1, <3>2, <3>3 DEF InTurn
    <3>5. i = k + 1
      BY <1>2, <2>1, <2>5, <3>4
    <3> QED
      BY <1>2, <3>2, <3>4, <3>5
  <2> HIDE DEF F, c
  <2>8. EmptiedOK(sh, own, E[k + 1], F \cup {c})
    BY <1>5, <2>1, <2>2, <2>3, <2>6, <2>7, EmptyNext
  <2> QED
    BY <2>4, <2>8
<1> HIDE DEF P
<1>8. m \in P
  BY <1>2, <1>6, <1>7, Induction
<1>9. Firsts(s, m) = S
  <2>1. \A c \in S : \E j \in 1 .. m : s[j] = c
    BY <1>1, <1>2 DEF Lists
  <2> QED
    BY <1>2, <2>1 DEF Firsts
<1>10. EmptiedOK(sh, own, E[m], Firsts(s, m))
  BY <1>2, <1>8 DEF P
<1> QED
  BY <1>4, <1>9, <1>10 DEF own

\* Without a circle those are all of them.
LEMMA AccountBalancesReach ==
    ASSUME NEW ts, AreTransactions(ts), NEW sh, IsClearing(sh), NoCircle(sh)
    PROVE  EmptiedOK(sh, Own(ts), computeAccountBalances(ts, sh), Sharing(sh))
  BY SortingInTurn, EmptiedReach

-----------------------------------------------------------------------------
(* The reference definition. *)

\* What N makes of itself: the part of the transactions and of the clearing accounts.
Reaching(sh, own, N) == [a \in Accounts |-> own[a] + Sum(Flow(sh, N, a, Sharing(sh)))]

\* Without a circle only one function makes itself.
LEMMA ReachingUnique ==
    ASSUME NEW sh, IsClearing(sh), NoCircle(sh), NEW own,
           NEW N, N = Reaching(sh, own, N), NEW M, M = Reaching(sh, own, M)
    PROVE  N = M
<1> DEFINE S == {c \in Sharing(sh) : N[c] # M[c]}
<1>1. /\ \A a \in Accounts : N[a] = own[a] + Sum(Flow(sh, N, a, Sharing(sh)))
      /\ \A a \in Accounts : M[a] = own[a] + Sum(Flow(sh, M, a, Sharing(sh)))
      /\ N = [a \in Accounts |-> N[a]] /\ M = [a \in Accounts |-> M[a]]
  BY DEF Reaching
<1>2. \A a \in Accounts : N[a] # M[a] => \E d \in S : a \in DOMAIN sh[d]
  <2> SUFFICES ASSUME NEW a \in Accounts, ~\E d \in S : a \in DOMAIN sh[d] PROVE N[a] = M[a]
    OBVIOUS
  <2>1. \A d \in Fed(sh, a, Sharing(sh)) : M[d] = N[d]
    BY DEF Fed
  <2>2. Flow(sh, M, a, Sharing(sh)) = Flow(sh, N, a, Sharing(sh))
    BY <2>1, FlowSame
  <2> QED
    BY <1>1, <2>2
<1>3. S \in SUBSET Clearing /\ Sharing(sh) \subseteq Accounts
  BY DEF Sharing, Accounts
<1>4. Backed(sh, S)
  BY <1>2, <1>3 DEF Backed
<1>5. S = {}
  <2> HIDE DEF S
  <2> QED
    BY <1>3, <1>4, NothingBacked
<1>6. \A a \in Accounts : N[a] = M[a]
  BY <1>2, <1>5
<1> QED
  BY <1>1, <1>6

\* Inflow is a function that makes itself, if there is one.
LEMMA InflowIs ==
    Inflow = CHOOSE N : N = Reaching(shares, Own(transactions), N)
<1> DEFINE own(a, t) == LET e == computeTransactionBalanceEffect(t) IN IF a \in DOMAIN e THEN e[a].total ELSE 0
           parts(a) == Sum([i \in DOMAIN transactions |-> own(a, transactions[i])])
           fed(N, a) == [c \in {d \in Clearing : a \in DOMAIN shares[d]} |-> (N[c] * shares[c][a]) \div Sum(shares[c])]
<1>1. Inflow = CHOOSE N : N = [a \in Accounts |-> parts(a) + Sum(fed(N, a))]
  BY DEF Inflow
<1>2. \A a \in Accounts : parts(a) = Own(transactions)[a]
  <2> SUFFICES ASSUME NEW a \in Accounts PROVE parts(a) = Own(transactions)[a]
    OBVIOUS
  <2>1. \A t : own(a, t) = Change(t)[a]
    BY DEF Change, Involved
  <2> HIDE DEF own
  <2>2. [i \in DOMAIN transactions |-> own(a, transactions[i])] = [i \in DOMAIN transactions |-> Change(transactions[i])[a]]
    BY <2>1
  <2> QED
    BY <2>2 DEF Own
<1>3. \A N, a : fed(N, a) = Flow(shares, N, a, Sharing(shares))
  <2> SUFFICES ASSUME NEW N, NEW a PROVE fed(N, a) = Flow(shares, N, a, Sharing(shares))
    OBVIOUS
  <2>1. {d \in Clearing : a \in DOMAIN shares[d]} = Fed(shares, a, Sharing(shares))
    BY DEF Fed, Sharing
  <2> QED
    BY <2>1 DEF Flow, Share
<1> HIDE DEF parts, fed
<1>4. \A N : [a \in Accounts |-> parts(a) + Sum(fed(N, a))] = Reaching(shares, Own(transactions), N)
  BY <1>2, <1>3 DEF Reaching
<1> QED
  BY <1>1, <1>4

\* Inflow is what has reached the accounts.
LEMMA InflowReaches ==
    ASSUME IsClearing(shares), NoCircle(shares), NEW b, EmptiedOK(shares, Own(transactions), b, Sharing(shares))
    PROVE  Inflow = Net(b)
<1> DEFINE own == Own(transactions)
           N == Net(b)
<1>1. N = Reaching(shares, own, N)
  BY DEF EmptiedOK, Reaching, Net
<1> HIDE DEF own, N
<1>2. Inflow = Reaching(shares, own, Inflow)
  BY <1>1, InflowIs DEF own
<1>3. Inflow = N
  <2> DEFINE I == Inflow
  <2>1. I = Reaching(shares, own, I)
    BY <1>2
  <2> HIDE DEF I
  <2>2. I = N
    BY <1>1, <2>1, ReachingUnique
  <2> QED
    BY <2>2 DEF I
<1> QED
  BY <1>3 DEF N

-----------------------------------------------------------------------------
(* The history of a balance. *)

\* The values of a function on integers, in the order of those.
InTheOrder(e) == [i \in DOMAIN Ordered(DOMAIN e) |-> e[Ordered(DOMAIN e)[i]]]

\* They weigh what the function does.
LEMMA InTheOrderIs ==
    ASSUME NEW S, S \subseteq Int, IsFiniteSet(S), NEW X, NEW e \in [S -> X]
    PROVE  /\ InTheOrder(e) \in Seq(X)
           /\ \A w : Weighs(w, X) => Weigh(w, InTheOrder(e)) = Weigh(w, e)
<1> DEFINE o == Ordered(S)
           T == 1 .. Cardinality(S)
           l == [i \in T |-> e[o[i]]]
<1>1. Renames(o, T, S) /\ Cardinality(S) \in Nat
  BY OrderedIs
<1>2. o \in [T -> S]
  BY <1>1 DEF Renames
<1>3. InTheOrder(e) = l
  <2>1. DOMAIN e = S /\ DOMAIN o = T
    BY <1>2
  <2> HIDE DEF T
  <2>2. InTheOrder(e) = [i \in DOMAIN o |-> e[o[i]]]
    BY <2>1 DEF InTheOrder
  <2> QED
    BY <2>1, <2>2
<1> HIDE DEF o
<1>4. IsFiniteSet(T) /\ DOMAIN l = T
  BY <1>1, FS_Interval
<1>5. l \in Seq(X)
  <2>1. \A i \in T : l[i] \in X
    BY <1>2
  <2>2. l = [i \in T |-> l[i]]
    OBVIOUS
  <2> HIDE DEF l
  <2> QED
    BY <1>1, <2>1, <2>2
<1>6. ASSUME NEW w, Weighs(w, X) PROVE Weigh(w, l) = Weigh(w, e)
  <2> DEFINE h == [x \in S |-> w[e[x]]]
  <2>0. h = Weights(w, e)
    BY DEF Weights
  <2>1. h \in [S -> Int]
    BY <1>6 DEF Weighs
  <2>2. Weights(w, l) = Composed(h, o)
    <3>1. \A i \in T : w[l[i]] = h[o[i]] /\ DOMAIN o = T
      BY <1>2
    <3> HIDE DEF l, h, T
    <3> QED
      BY <1>2, <1>4, <3>1 DEF Weights, Composed
  <2> HIDE DEF h, T
  <2>3. Sum(Composed(h, o)) = Sum(h)
    BY <1>1, <1>4, <2>1, SumReindex
  <2> QED
    BY <2>0, <2>2, <2>3 DEF Weigh
<1> QED
  BY <1>3, <1>5, <1>6

\* Two lists weigh what one after the other does.
LEMMA WeighConcat ==
    ASSUME NEW X, NEW w, Weighs(w, X), NEW s \in Seq(X), NEW t \in Seq(X)
    PROVE  s \o t \in Seq(X) /\ Weigh(w, s \o t) = Weigh(w, s) + Weigh(w, t)
<1> DEFINE q == s \o t
           n == Len(s)
           m == Len(t)
           A == 1 .. n
           B == n + 1 .. n + m
           f == Weights(w, q)
           g == Weights(w, t)
           p == [i \in B |-> i - n]
<1>1. n \in Nat /\ m \in Nat /\ DOMAIN s = 1 .. n /\ DOMAIN t = 1 .. m
  OBVIOUS
<1>2. q \in Seq(X) /\ Len(q) = n + m /\ DOMAIN q = 1 .. n + m
  OBVIOUS
<1>3. (\A i \in 1 .. n : q[i] = s[i]) /\ (\A i \in B : q[i] = t[i - n])
  OBVIOUS
<1>4. /\ IsFiniteSet(DOMAIN q) /\ f \in [DOMAIN q -> Int] /\ Weigh(w, q) = Sum(f)
      /\ IsFiniteSet(DOMAIN t) /\ g \in [DOMAIN t -> Int] /\ Weigh(w, t) = Sum(g)
  BY <1>2, WeighType DEF Weigh
<1> HIDE DEF q, n, m
<1>5. Restrict(f, A) = Weights(w, s)
  BY <1>1, <1>2, <1>3 DEF Restrict, Weights
<1>6. Renames(p, B, 1 .. m)
  <2>1. p \in [B -> 1 .. m]
    BY <1>1
  <2>2. \A x, y \in B : p[x] = p[y] => x = y
    BY <1>1
  <2>3. ASSUME NEW z \in 1 .. m PROVE \E x \in B : p[x] = z
    <3>1. z + n \in B /\ p[z + n] = z
      BY <1>1
    <3> QED
      BY <3>1
  <2> QED
    BY <2>1, <2>2, <2>3 DEF Renames
<1>7. Restrict(f, B) = Composed(g, p)
  <2>1. \A i \in B : f[i] = g[p[i]]
    BY <1>1, <1>2, <1>3 DEF Weights
  <2>2. DOMAIN p = B
    OBVIOUS
  <2> HIDE DEF f, g, p
  <2> QED
    BY <2>1, <2>2 DEF Restrict, Composed
<1>8. IsFiniteSet(B)
  <2>1. n + 1 \in Int /\ n + m \in Int
    BY <1>1
  <2> QED
    BY <2>1, FS_Interval
<1>9. A \in SUBSET DOMAIN q /\ B \in SUBSET DOMAIN q /\ A \cap B = {} /\ \A i \in DOMAIN q : i \in A \/ i \in B
  BY <1>1, <1>2
<1> HIDE DEF f, g, p, A, B
<1>10. Sum(Restrict(f, A)) + Sum(Restrict(f, B)) = Sum(f)
  BY <1>4, <1>9, SumParts
<1>11. Sum(Composed(g, p)) = Sum(g)
  BY <1>1, <1>4, <1>6, <1>8, SumReindex
<1> QED
  BY <1>2, <1>4, <1>5, <1>7, <1>10, <1>11 DEF Weigh, q

Entries == [date : Nat, change : Int]
ChangeOf == [e \in Entries |-> e.change]

\* The changes of account a by transactions, and by clearing accounts.
OwnEntries(a, ts) ==
    [i \in {j \in DOMAIN ts : a \in Involved(ts[j])} |->
        [date |-> ts[i].date, change |-> computeTransactionBalanceEffect(ts[i])[a].total]]
ClearingEntries(a) ==
    [c \in {d \in Clearing : a \in DOMAIN balances[d].clearingResolution} |->
        [date |-> Date[c], change |-> balances[c].clearingResolution[a]]]

\* The changes are those of the transactions and then those of the clearing accounts.
LEMMA ChangesAre ==
    ASSUME NEW a \in Accounts, NEW ts, AreTransactions(ts), DOMAIN ts \subseteq Int
    PROVE  Changes(a, ts) = InTheOrder(OwnEntries(a, ts)) \o InTheOrder(ClearingEntries(a))
<1> DEFINE own == {i \in DOMAIN ts : a \in Involved(ts[i])}
           from == {c \in Clearing : a \in DOMAIN balances[c].clearingResolution}
           e == OwnEntries(a, ts)
           f == ClearingEntries(a)
<1>1. own \subseteq Int /\ IsFiniteSet(own)
  BY FS_Subset DEF AreTransactions
<1>2. from \subseteq Int /\ IsFiniteSet(from)
  BY FS_Subset, BalanceBounds DEF Accounts
<1>3. DOMAIN e = own /\ DOMAIN f = from
  BY DEF OwnEntries, ClearingEntries
<1>4. Ordered(own) \in [DOMAIN Ordered(own) -> own]
  <2> HIDE DEF own
  <2>1. Ordered(own) \in Seq(own)
    BY <1>1, OrderedIs
  <2> QED
    BY <2>1
<1>5. Ordered(from) \in [DOMAIN Ordered(from) -> from]
  <2> HIDE DEF from
  <2>1. Ordered(from) \in Seq(from)
    BY <1>2, OrderedIs
  <2> QED
    BY <2>1
<1>6. Map(LAMBDA i : [date |-> ts[i].date, change |-> computeTransactionBalanceEffect(ts[i])[a].total], Ordered(own))
      = InTheOrder(e)
  <2>1. e = [i \in own |-> [date |-> ts[i].date, change |-> computeTransactionBalanceEffect(ts[i])[a].total]]
    BY DEF OwnEntries
  <2>2. InTheOrder(e) = [i \in DOMAIN Ordered(own) |-> e[Ordered(own)[i]]]
    BY <1>3 DEF InTheOrder
  <2> DEFINE o == Ordered(own)
             l == [i \in DOMAIN o |->
                      [date |-> ts[o[i]].date, change |-> computeTransactionBalanceEffect(ts[o[i]])[a].total]]
  <2>3. o \in [DOMAIN o -> own] /\ InTheOrder(e) = [i \in DOMAIN o |-> e[o[i]]]
    BY <1>4, <2>2
  <2>4. Map(LAMBDA i : [date |-> ts[i].date, change |-> computeTransactionBalanceEffect(ts[i])[a].total], o) = Computed(l)
    BY ONLY DEF Map
  <2> HIDE DEF own, e, o
  <2>5. l = [i \in DOMAIN o |-> e[o[i]]]
    BY <2>1, <2>3
  <2> HIDE DEF l
  <2>6. Computed(l) = InTheOrder(e)
    BY <2>3, <2>5, ComputedIs
  <2> QED
    BY <2>4, <2>6 DEF o
<1>7. Map(LAMBDA c : [date |-> Date[c], change |-> balances[c].clearingResolution[a]], Ordered(from)) = InTheOrder(f)
  <2>1. f = [c \in from |-> [date |-> Date[c], change |-> balances[c].clearingResolution[a]]]
    BY DEF ClearingEntries
  <2>2. InTheOrder(f) = [i \in DOMAIN Ordered(from) |-> f[Ordered(from)[i]]]
    BY <1>3 DEF InTheOrder
  <2> DEFINE o == Ordered(from)
             l == [i \in DOMAIN o |-> [date |-> Date[o[i]], change |-> balances[o[i]].clearingResolution[a]]]
  <2>3. o \in [DOMAIN o -> from] /\ InTheOrder(f) = [i \in DOMAIN o |-> f[o[i]]]
    BY <1>5, <2>2
  <2>4. Map(LAMBDA c : [date |-> Date[c], change |-> balances[c].clearingResolution[a]], o) = Computed(l)
    BY ONLY DEF Map
  <2> HIDE DEF from, f, o
  <2>5. l = [i \in DOMAIN o |-> f[o[i]]]
    BY <2>1, <2>3
  <2> HIDE DEF l
  <2>6. Computed(l) = InTheOrder(f)
    BY <2>3, <2>5, ComputedIs
  <2> QED
    BY <2>4, <2>6 DEF o
<1> QED
  BY <1>6, <1>7 DEF Changes, Involved

\* The clearing accounts that have passed something on to account a.
From(a) == {d \in Clearing : a \in DOMAIN balances[d].clearingResolution}

\* The changes of an account add up to what has reached it.
LEMMA ChangesWeigh ==
    ASSUME NEW a \in Accounts, NEW ts, AreTransactions(ts), DOMAIN ts \subseteq Int,
           \A c \in From(a) : balances[c].clearingResolution[a] \in Int
    PROVE  /\ Changes(a, ts) \in Seq(Entries) /\ Weighs(ChangeOf, Entries)
           /\ Weigh(ChangeOf, Changes(a, ts)) = Own(ts)[a] + Sum([c \in From(a) |-> balances[c].clearingResolution[a]])
<1> DEFINE own == {i \in DOMAIN ts : a \in Involved(ts[i])}
           from == From(a)
           e == OwnEntries(a, ts)
           f == ClearingEntries(a)
<1>1. own \subseteq Int /\ IsFiniteSet(own)
  BY FS_Subset DEF AreTransactions
<1>2. from \subseteq Int /\ IsFiniteSet(from) /\ from \subseteq Clearing
  BY FS_Subset, BalanceBounds DEF Accounts, From
<1>3. \A x \in Entries : ChangeOf[x] = x.change /\ ChangeOf[x] \in Int
  BY DEF ChangeOf, Entries
<1>4. Weighs(ChangeOf, Entries)
  BY <1>3 DEF Weighs
<1>5. e \in [own -> Entries] /\ \A i \in own : ChangeOf[e[i]] = computeTransactionBalanceEffect(ts[i])[a].total
  <2>1. e = [i \in own |-> [date |-> ts[i].date, change |-> computeTransactionBalanceEffect(ts[i])[a].total]]
    BY DEF OwnEntries
  <2>2. ASSUME NEW i \in own
        PROVE  [date |-> ts[i].date, change |-> computeTransactionBalanceEffect(ts[i])[a].total] \in Entries
    <3>1. IsTransaction(ts[i]) /\ a \in Involved(ts[i])
      BY DEF AreTransactions
    <3>2. ts[i].date \in Nat
      BY <3>1 DEF IsTransaction
    <3>3. computeTransactionBalanceEffect(ts[i])[a].total \in Int
      BY <3>1, EffectType
    <3> HIDE DEF own, e
    <3> QED
      BY <3>2, <3>3 DEF Entries
  <2> HIDE DEF own, e
  <2>3. \A i \in own : e[i] = [date |-> ts[i].date, change |-> computeTransactionBalanceEffect(ts[i])[a].total]
    BY <2>1
  <2>4. ASSUME NEW i \in own PROVE e[i] \in Entries /\ e[i].change = computeTransactionBalanceEffect(ts[i])[a].total
    <3> DEFINE r == [date |-> ts[i].date, change |-> computeTransactionBalanceEffect(ts[i])[a].total]
    <3>1. e[i] = r
      BY <2>3
    <3>2. r \in Entries
      BY <2>2
    <3>3. r.change = computeTransactionBalanceEffect(ts[i])[a].total
      OBVIOUS
    <3> HIDE DEF r
    <3> QED
      BY <3>1, <3>2, <3>3
  <2>5. e \in [own -> Entries]
    <3>1. DOMAIN e = own /\ e = [i \in own |-> e[i]]
      BY <2>1
    <3> QED
      BY <2>4, <3>1
  <2> QED
    BY <1>3, <2>4, <2>5
<1>6. f \in [from -> Entries] /\ \A c \in from : ChangeOf[f[c]] = balances[c].clearingResolution[a]
  <2>1. f = [c \in from |-> [date |-> Date[c], change |-> balances[c].clearingResolution[a]]]
    BY DEF ClearingEntries, From
  <2>2. \A c \in from : [date |-> Date[c], change |-> balances[c].clearingResolution[a]] \in Entries
    BY <1>2, BalanceBounds DEF Entries
  <2> HIDE DEF from, f
  <2>3. \A c \in from : f[c] = [date |-> Date[c], change |-> balances[c].clearingResolution[a]]
    BY <2>1
  <2>4. ASSUME NEW c \in from PROVE f[c] \in Entries /\ f[c].change = balances[c].clearingResolution[a]
    <3> DEFINE r == [date |-> Date[c], change |-> balances[c].clearingResolution[a]]
    <3>1. f[c] = r
      BY <2>3
    <3>2. r \in Entries
      BY <2>2
    <3>3. r.change = balances[c].clearingResolution[a]
      OBVIOUS
    <3> HIDE DEF r
    <3> QED
      BY <3>1, <3>2, <3>3
  <2>5. f \in [from -> Entries]
    <3>1. DOMAIN f = from /\ f = [c \in from |-> f[c]]
      BY <2>1
    <3> QED
      BY <2>4, <3>1
  <2> QED
    BY <1>3, <2>4, <2>5
<1>7. Own(ts)[a] = Sum([i \in own |-> computeTransactionBalanceEffect(ts[i])[a].total])
  <2> DEFINE effects == Map(computeTransactionBalanceEffect, ts)
  <2>1. effects = [i \in DOMAIN ts |-> computeTransactionBalanceEffect(ts[i])]
    BY ComputedIs DEF Map
  <2>2. BeforeClearing(ts)[a].balance = Sum([i \in {j \in DOMAIN ts : a \in DOMAIN effects[j]} |-> effects[i][a].total])
    BY DEF BeforeClearing
  <2>3. {j \in DOMAIN ts : a \in DOMAIN effects[j]} = own
    <3>1. \A j \in DOMAIN ts : DOMAIN effects[j] = Involved(ts[j])
      BY <2>1 DEF Involved
    <3> HIDE DEF effects
    <3> QED
      BY <3>1
  <2>4. [i \in own |-> effects[i][a].total] = [i \in own |-> computeTransactionBalanceEffect(ts[i])[a].total]
    <3> HIDE DEF effects
    <3>1. own \subseteq DOMAIN ts
      OBVIOUS
    <3> HIDE DEF own
    <3> QED
      BY <2>1, <3>1
  <2> HIDE DEF own, effects
  <2>5. BeforeClearing(ts)[a].balance = Own(ts)[a]
    BY BeforeClearingNet
  <2> QED
    BY <2>2, <2>3, <2>4, <2>5
<1>8. Changes(a, ts) = InTheOrder(e) \o InTheOrder(f)
  BY ChangesAre
<1> HIDE DEF own, from, e, f
<1>9. /\ InTheOrder(e) \in Seq(Entries)
      /\ Weigh(ChangeOf, InTheOrder(e)) = Sum(Weights(ChangeOf, e))
  BY <1>1, <1>4, <1>5, InTheOrderIs DEF Weigh
<1>10. /\ InTheOrder(f) \in Seq(Entries)
       /\ Weigh(ChangeOf, InTheOrder(f)) = Sum(Weights(ChangeOf, f))
  BY <1>2, <1>4, <1>6, InTheOrderIs DEF Weigh
<1>11. /\ Weights(ChangeOf, e) = [i \in own |-> computeTransactionBalanceEffect(ts[i])[a].total]
       /\ Weights(ChangeOf, f) = [c \in from |-> balances[c].clearingResolution[a]]
  BY <1>5, <1>6 DEF Weights
<1>12. Weigh(ChangeOf, InTheOrder(e) \o InTheOrder(f))
       = Weigh(ChangeOf, InTheOrder(e)) + Weigh(ChangeOf, InTheOrder(f))
       /\ InTheOrder(e) \o InTheOrder(f) \in Seq(Entries)
  BY <1>4, <1>9, <1>10, WeighConcat
<1> QED
  BY <1>4, <1>7, <1>8, <1>9, <1>10, <1>11, <1>12 DEF from

\* What Sum makes of the changes of a list.
LEMMA ChangesSum ==
    ASSUME NEW s \in Seq(Entries)
    PROVE  Sum(Map(LAMBDA e : e.change, s)) = Weigh(ChangeOf, s)
<1> DEFINE l == [i \in DOMAIN s |-> s[i].change]
<1>1. Map(LAMBDA e : e.change, s) = Computed(l)
  BY ONLY DEF Map
<1>2. l = Weights(ChangeOf, s)
  <2>1. \A i \in DOMAIN s : s[i] \in Entries
    OBVIOUS
  <2>2. \A i \in DOMAIN s : ChangeOf[s[i]] = s[i].change
    BY <2>1 DEF ChangeOf
  <2> QED
    BY <2>2 DEF Weights
<1> HIDE DEF l
<1>3. Computed(l) = Weights(ChangeOf, s)
  BY <1>2, ComputedIs
<1> QED
  BY <1>1, <1>3 DEF Weigh

\* In whatever order the dates put the changes, the history ends with their sum.
LEMMA HistoryEnds ==
    ASSUME NEW a, NEW ts, ts # <<>>, Changes(a, ts) \in Seq(Entries), NEW h, h = computeAccountBalanceHistory(a, ts)
    PROVE  /\ h \in Seq([date : Nat, balance : Int])
           /\ (IF h = <<>> THEN 0 ELSE Last(h).balance) = Weigh(ChangeOf, Changes(a, ts))
<1> DEFINE changes == Changes(a, ts)
           keys == Map(LAMBDA e : e.date, changes)
           s == StableSort(changes, keys)
           n == Len(s)
<1>1. keys = [i \in DOMAIN changes |-> changes[i].date]
  <2> HIDE DEF changes
  <2>1. keys = Computed([i \in DOMAIN changes |-> changes[i].date])
    BY ONLY DEF Map
  <2> HIDE DEF keys
  <2> QED
    BY <2>1, ComputedIs
<1>2. h = [i \in DOMAIN s |-> [date |-> s[i].date, balance |-> Sum(Map(LAMBDA e : e.change, SubSeq(s, 1, i)))]]
  <2>1. Computed(changes) = changes /\ Computed(s) = s
    <3> HIDE DEF changes, s
    <3> QED
      BY ComputedIs
  <2> QED
    BY <2>1 DEF computeAccountBalanceHistory
<1> HIDE DEF changes, keys
<1>3. Weighs(ChangeOf, Entries)
  BY DEF Weighs, ChangeOf, Entries
<1>4. \A i \in DOMAIN changes : keys[i] \in Int
  <2>1. \A i \in DOMAIN changes : changes[i] \in Entries
    BY DEF changes
  <2> QED
    BY <1>1, <2>1 DEF Entries
<1>5. changes \in Seq(Entries)
  BY DEF changes
<1>6. s \in Seq(Entries) /\ Weigh(ChangeOf, s) = Weigh(ChangeOf, changes)
  BY <1>3, <1>4, <1>5, StableSortIs, SortWeighs
<1> HIDE DEF s
<1>7. n \in Nat /\ DOMAIN s = 1 .. n
  BY <1>6
<1>8. ASSUME NEW i \in 1 .. n
      PROVE  /\ h[i] = [date |-> s[i].date, balance |-> Weigh(ChangeOf, SubSeq(s, 1, i))]
             /\ h[i] \in [date : Nat, balance : Int]
  <2> DEFINE q == SubSeq(s, 1, i)
  <2>1. q \in Seq(Entries)
    BY <1>6, <1>7
  <2>2. h[i] = [date |-> s[i].date, balance |-> Sum(Map(LAMBDA e : e.change, q))]
    BY <1>2, <1>7
  <2> HIDE DEF q
  <2>3. Sum(Map(LAMBDA e : e.change, q)) = Weigh(ChangeOf, q)
    BY <2>1, ChangesSum
  <2>4. Weigh(ChangeOf, q) \in Int
    BY <1>3, <2>1, WeighType
  <2>5. s[i].date \in Nat
    <3>1. s[i] \in Entries
      BY <1>6, <1>7
    <3> QED
      BY <3>1 DEF Entries
  <2>6. h[i] = [date |-> s[i].date, balance |-> Weigh(ChangeOf, q)]
    BY <2>2, <2>3
  <2> QED
    BY <2>4, <2>5, <2>6 DEF q
<1>9. DOMAIN h = 1 .. n /\ h = [i \in 1 .. n |-> h[i]]
  BY <1>2, <1>7
<1>10. h \in Seq([date : Nat, balance : Int]) /\ Len(h) = n
  <2> DEFINE X == [date : Nat, balance : Int]
  <2>1. \A i \in 1 .. n : h[i] \in X
    BY <1>8
  <2> HIDE DEF X, n
  <2>2. h \in Seq(X) /\ Len(h) = n
    BY <1>7, <1>9, <2>1
  <2> QED
    BY <2>2 DEF X, n
<1>11. CASE n = 0
  <2>1. s = <<>> /\ h = <<>>
    BY <1>6, <1>7, <1>10, <1>11
  <2>2. Weigh(ChangeOf, s) = 0
    BY <2>1, WeighEmpty
  <2> QED
    BY <1>6, <1>10, <2>1, <2>2 DEF changes
<1>12. CASE n # 0
  <2>1. h # <<>> /\ Last(h) = h[n] /\ n \in 1 .. n
    BY <1>7, <1>10, <1>12 DEF Last
  <2>2. SubSeq(s, 1, n) = s
    BY <1>6, SubSeqFull
  <2>3. h[n].balance = Weigh(ChangeOf, s)
    <3> HIDE DEF n
    <3>1. h[n] = [date |-> s[n].date, balance |-> Weigh(ChangeOf, SubSeq(s, 1, n))]
      BY <1>8, <2>1
    <3>2. h[n].balance = Weigh(ChangeOf, SubSeq(s, 1, n))
      BY <3>1
    <3> QED
      BY <2>2, <3>2
  <2> QED
    BY <1>6, <1>10, <2>1, <2>3 DEF changes
<1> QED
  BY <1>11, <1>12

-----------------------------------------------------------------------------
(* The graph of a history. *)

Points == [date : Nat, balance : Int]

\* The series after so many points.
DrawnSoFar(h, g, k) == IF k = 0 THEN <<<<>>>> ELSE Drawn(h, g[k - 1], k)

\* The graph is drawn point by point.
LEMMA GraphIs ==
    ASSUME NEW h, h # <<>>, Len(h) \in Nat
    PROVE  \E g : /\ BalanceHistoryGraph(h) = g[Len(h)] /\ g[0] = <<<<>>>>
                  /\ \A k \in 1 .. Len(h) : g[k] = Drawn(h, g[k - 1], k)
<1> DEFINE n == Len(h)
           S(g, m) == [k \in 0 .. m |-> DrawnSoFar(h, g, k)]
           Q == {m \in Nat : \E g : g = S(g, m)}
           E == Rounds(LAMBDA series, i : Drawn(h, series, i), <<<<>>>>, n)
<1>1. E = CHOOSE g : g = [k \in 0 .. n |-> IF k = 0 THEN <<<<>>>>
                                          ELSE CHOOSE v \in {Drawn(h, x, k) : x \in {g[k - 1]}} : TRUE]
  BY DEF Rounds
<1>2. \A g : [k \in 0 .. n |-> IF k = 0 THEN <<<<>>>>
                              ELSE CHOOSE v \in {Drawn(h, x, k) : x \in {g[k - 1]}} : TRUE] = S(g, n)
  <2>1. \A x, k : (CHOOSE v \in {Drawn(h, y, k) : y \in {x}} : TRUE) = Drawn(h, x, k)
    OBVIOUS
  <2> QED
    BY <2>1 DEF DrawnSoFar
<1>3. BalanceHistoryGraph(h) = E[n]
  BY DEF BalanceHistoryGraph
<1> HIDE DEF E
<1>4. E = CHOOSE g : g = S(g, n)
  BY <1>1, <1>2
<1>5. 0 \in Q
  <2> DEFINE g == [k \in 0 .. 0 |-> <<<<>>>>]
  <2>1. g = S(g, 0)
    BY DEF DrawnSoFar
  <2> QED
    BY <2>1
<1>6. ASSUME NEW m \in Nat, m \in Q PROVE m + 1 \in Q
  <2>1. PICK g : g = S(g, m)
    BY <1>6
  <2> DEFINE f == [k \in 0 .. m + 1 |-> IF k <= m THEN g[k] ELSE Drawn(h, g[m], m + 1)]
  <2>2. ASSUME NEW k \in 0 .. m + 1 PROVE f[k] = DrawnSoFar(h, f, k)
    <3>1. CASE k = 0
      BY <2>1, <3>1 DEF DrawnSoFar
    <3>2. CASE k \in 1 .. m
      <4>1. f[k] = g[k] /\ f[k - 1] = g[k - 1] /\ k # 0 /\ k \in 0 .. m
        BY <3>2
      <4>2. g[k] = DrawnSoFar(h, g, k)
        BY <2>1, <4>1
      <4> HIDE DEF f
      <4> QED
        BY <4>1, <4>2 DEF DrawnSoFar
    <3>3. CASE k = m + 1
      <4>1. f[k] = Drawn(h, g[m], k) /\ f[k - 1] = g[m] /\ k # 0
        BY <3>3
      <4> HIDE DEF f
      <4> QED
        BY <4>1 DEF DrawnSoFar
    <3> QED
      BY <3>1, <3>2, <3>3
  <2>3. f = S(f, m + 1)
    <3>1. f = [k \in 0 .. m + 1 |-> f[k]]
      OBVIOUS
    <3> HIDE DEF f
    <3> QED
      BY <2>2, <3>1
  <2> HIDE DEF f
  <2> QED
    BY <2>3
<1> HIDE DEF Q
<1>7. n \in Q
  BY <1>5, <1>6, Induction
<1>8. E = S(E, n)
  BY <1>4, <1>7 DEF Q
<1>9. E[0] = <<<<>>>>
  BY <1>8 DEF DrawnSoFar
<1>10. ASSUME NEW k \in 1 .. n PROVE E[k] = Drawn(h, E[k - 1], k)
  <2>1. k \in 0 .. n /\ k # 0
    OBVIOUS
  <2>2. E[k] = DrawnSoFar(h, E, k)
    BY <1>8, <2>1
  <2> QED
    BY <2>1, <2>2 DEF DrawnSoFar
<1> QED
  BY <1>3, <1>9, <1>10

\* All entries but the last have the sign of the first; and all of them.
OneSign(s) == \A i \in 1 .. Len(s) - 1 : Sign(s[i]) = Sign(s[1])
SameSign(s) == \A i \in 1 .. Len(s) : Sign(s[i]) = Sign(s[1])

\* The series after i points.
GraphOK(h, x, i) ==
    /\ x \in Seq(Seq(Int)) /\ x # <<>> /\ \A j \in DOMAIN x : OneSign(x[j])
    /\ SameSign(Last(x))
    /\ i = 0 => Last(x) = <<>>
    /\ i > 0 => Last(x) # <<>> /\ Last(Last(x)) = h[i].balance

\* A series that has one sign may grow by any entry.
LEMMA GrownSign ==
    ASSUME NEW s \in Seq(Int), SameSign(s), NEW y \in Int
    PROVE  /\ Append(s, y) \in Seq(Int) /\ Append(s, y) # <<>> /\ Last(Append(s, y)) = y /\ OneSign(Append(s, y))
           /\ (s = <<>> \/ Sign(y) = Sign(Last(s))) => SameSign(Append(s, y))
<1> DEFINE q == Append(s, y)
           n == Len(s)
<1>1. n \in Nat /\ q \in Seq(Int) /\ Len(q) = n + 1 /\ q[n + 1] = y /\ \A i \in 1 .. n : q[i] = s[i]
  OBVIOUS
<1>2. q # <<>> /\ Last(q) = y
  BY <1>1 DEF Last
<1>3. \A i \in 1 .. n : Sign(s[i]) = Sign(s[1])
  BY DEF SameSign
<1>4. s # <<>> => n \in 1 .. n /\ Last(s) = s[n]
  BY DEF Last
<1>5. s = <<>> => n = 0
  OBVIOUS
<1> HIDE DEF q, n
<1>6. \A i \in 1 .. n : Sign(q[i]) = Sign(q[1])
  <2> SUFFICES ASSUME NEW i \in 1 .. n PROVE Sign(q[i]) = Sign(q[1])
    OBVIOUS
  <2>1. 1 \in 1 .. n
    BY <1>1
  <2>2. q[i] = s[i] /\ q[1] = s[1]
    BY <1>1, <2>1
  <2> QED
    BY <1>3, <2>2
<1>7. OneSign(q)
  BY <1>1, <1>6 DEF OneSign
<1>8. ASSUME s = <<>> \/ Sign(y) = Sign(Last(s)) PROVE SameSign(q)
  <2> SUFFICES ASSUME NEW i \in 1 .. n + 1 PROVE Sign(q[i]) = Sign(q[1])
    BY <1>1 DEF SameSign
  <2>1. CASE i \in 1 .. n
    BY <1>6, <2>1
  <2>2. CASE i = n + 1 /\ s = <<>>
    BY <1>5, <2>2
  <2>3. CASE i = n + 1 /\ s # <<>>
    <3>1. Sign(q[i]) = Sign(s[n]) /\ n \in 1 .. n
      BY <1>1, <1>4, <1>8, <2>3
    <3>2. Sign(s[n]) = Sign(s[1]) /\ q[1] = s[1]
      BY <1>1, <1>3, <3>1
    <3> QED
      BY <3>1, <3>2
  <2> QED
    BY <1>1, <2>1, <2>2, <2>3
<1> QED
  BY <1>1, <1>2, <1>7, <1>8 DEF q

\* The next point is drawn.
LEMMA DrawnKeeps ==
    ASSUME NEW h \in Seq(Points), NEW i \in Nat, i + 1 \in DOMAIN h, NEW x, GraphOK(h, x, i)
    PROVE  GraphOK(h, Drawn(h, x, i + 1), i + 1)
<1> DEFINE y == h[i + 1].balance
           u == Last(x)
           n == Len(x)
           X == Seq(Int)
           v == Append(u, y)
           grown == [x EXCEPT ![n] = v]
           z == Drawn(h, x, i + 1)
<1>1. x \in Seq(X) /\ n \in Nat /\ n # 0 /\ DOMAIN x = 1 .. n /\ n \in 1 .. n /\ u = x[n] /\ u \in X
  BY DEF GraphOK, Last
<1>2. y \in Int /\ (i + 1) - 1 = i /\ (i > 0 => i \in DOMAIN h)
  <2>1. h[i + 1] \in Points
    OBVIOUS
  <2> QED
    BY <2>1 DEF Points
<1>3. z = IF i + 1 > 1 /\ Sign(h[i].balance) # Sign(y) THEN Append(grown, <<y>>) ELSE grown
  <2>1. grown = [x EXCEPT ![Len(x)] = Append(@, h[i + 1].balance)]
    BY <1>1
  <2> HIDE DEF grown, y, n
  <2>2. z = IF i + 1 > 1 /\ Sign(h[(i + 1) - 1].balance) # Sign(h[i + 1].balance) THEN Append(grown, <<h[i + 1].balance>>) ELSE grown
    BY <2>1 DEF Drawn
  <2> QED
    BY <1>2, <2>2 DEF y
<1>4. /\ \A j \in 1 .. n : OneSign(x[j])
      /\ SameSign(u) /\ (i = 0 => u = <<>>) /\ (i > 0 => u # <<>> /\ Last(u) = h[i].balance)
  BY <1>1 DEF GraphOK
<1> HIDE DEF y, u, z
<1>5. /\ v \in X /\ v # <<>> /\ Last(v) = y /\ OneSign(v)
      /\ (u = <<>> \/ Sign(y) = Sign(Last(u))) => SameSign(v)
  BY <1>1, <1>2, <1>4, GrownSign
<1> HIDE DEF v
<1>6. grown \in Seq(X) /\ Len(grown) = n /\ grown[n] = v /\ DOMAIN grown = 1 .. n /\ \A j \in 1 .. n : j # n => grown[j] = x[j]
  <2> HIDE DEF X
  <2> QED
    BY <1>1, <1>5
<1> HIDE DEF grown
<1>7. \A j \in 1 .. n : OneSign(grown[j])
  BY <1>4, <1>5, <1>6
<1>8. CASE i + 1 > 1 /\ Sign(h[i].balance) # Sign(y)
  <2> DEFINE w == <<y>>
  <2>1. w \in X /\ w # <<>> /\ Last(w) = y /\ Len(w) = 1 /\ w[1] = y
    BY <1>2 DEF Last
  <2>2. SameSign(w) /\ OneSign(w)
    BY <2>1 DEF SameSign, OneSign
  <2>3. z = Append(grown, w)
    BY <1>3, <1>8
  <2> HIDE DEF w, X, n
  <2>4. z \in Seq(X) /\ Len(z) = n + 1 /\ z[n + 1] = w /\ DOMAIN z = 1 .. n + 1 /\ \A j \in 1 .. n : z[j] = grown[j]
    BY <1>1, <1>6, <2>1, <2>3
  <2>5. z # <<>> /\ Last(z) = w
    BY <1>1, <2>4 DEF Last
  <2>6. \A j \in DOMAIN z : OneSign(z[j])
    <3> SUFFICES ASSUME NEW j \in 1 .. n + 1 PROVE OneSign(z[j])
      BY <2>4
    <3>1. j \in 1 .. n \/ j = n + 1
      BY <1>1
    <3> QED
      BY <1>7, <2>2, <2>4, <3>1
  <2>7. i + 1 > 0 /\ i + 1 # 0
    OBVIOUS
  <2> QED
    BY <2>1, <2>2, <2>4, <2>5, <2>6, <2>7 DEF GraphOK, X, y, z
<1>9. CASE ~(i + 1 > 1 /\ Sign(h[i].balance) # Sign(y))
  <2>1. z = grown
    BY <1>3, <1>9
  <2>2. u = <<>> \/ Sign(y) = Sign(Last(u))
    <3>1. CASE i = 0
      BY <1>4, <3>1
    <3>2. CASE i # 0
      <4>1. i > 0 /\ i + 1 > 1
        BY <3>2
      <4> QED
        BY <1>4, <1>9, <4>1
    <3> QED
      BY <3>1, <3>2
  <2>3. SameSign(v)
    BY <1>5, <2>2
  <2> HIDE DEF X, n
  <2>4. z # <<>> /\ Last(z) = v
    BY <1>1, <1>6, <2>1 DEF Last
  <2>5. i + 1 > 0 /\ i + 1 # 0
    OBVIOUS
  <2> QED
    BY <1>5, <1>6, <1>7, <2>1, <2>3, <2>4, <2>5 DEF GraphOK, X, y, z
<1> QED
  BY <1>8, <1>9

\* A series of the graph changes its sign with its last entry, or not at all.
LEMMA GraphSigns ==
    ASSUME NEW h \in Seq(Points), NEW s \in Range(BalanceHistoryGraph(h))
    PROVE  \A i \in 1 .. Len(s) - 1 : Sign(s[i]) = Sign(s[1])
<1> DEFINE n == Len(h)
           x == BalanceHistoryGraph(h)
<1>1. CASE h = <<>>
  <2>1. x = <<>>
    BY <1>1 DEF BalanceHistoryGraph
  <2> QED
    BY <2>1 DEF Range
<1>2. CASE h # <<>>
  <2>1. n \in Nat /\ DOMAIN h = 1 .. n
    OBVIOUS
  <2>2. PICK g : x = g[n] /\ g[0] = <<<<>>>> /\ \A k \in 1 .. n : g[k] = Drawn(h, g[k - 1], k)
    BY <1>2, <2>1, GraphIs
  <2> DEFINE P == {k \in Nat : k <= n => GraphOK(h, g[k], k)}
  <2>3. 0 \in P
    <3> DEFINE w == <<<<>>>>
    <3>1. w \in Seq(Seq(Int)) /\ w # <<>> /\ Len(w) = 1 /\ w[1] = <<>> /\ DOMAIN w = {1}
      OBVIOUS
    <3>2. Last(w) = <<>>
      BY <3>1 DEF Last
    <3>3. SameSign(<<>>) /\ OneSign(<<>>)
      BY DEF SameSign, OneSign
    <3> HIDE DEF w
    <3>4. GraphOK(h, w, 0)
      BY <3>1, <3>2, <3>3 DEF GraphOK
    <3> QED
      BY <2>2, <3>4 DEF w
  <2>4. ASSUME NEW k \in Nat, k \in P PROVE k + 1 \in P
    <3> SUFFICES ASSUME k + 1 <= n PROVE GraphOK(h, g[k + 1], k + 1)
      OBVIOUS
    <3> HIDE DEF n, x
    <3>1. k <= n /\ k + 1 \in 1 .. n /\ (k + 1) - 1 = k
      BY <2>1
    <3>2. g[k + 1] = Drawn(h, g[k], k + 1) /\ GraphOK(h, g[k], k) /\ k + 1 \in DOMAIN h
      BY <2>1, <2>2, <2>4, <3>1
    <3> QED
      BY <3>2, DrawnKeeps
  <2> HIDE DEF P
  <2>5. n \in P
    BY <2>1, <2>3, <2>4, Induction
  <2>6. GraphOK(h, x, n)
    BY <2>1, <2>2, <2>5 DEF P
  <2>7. \A j \in DOMAIN x : OneSign(x[j])
    BY <2>6 DEF GraphOK
  <2> HIDE DEF x
  <2>8. s \in Range(x)
    BY DEF x
  <2>9. OneSign(s)
    BY <2>7, <2>8 DEF Range
  <2> QED
    BY <2>9 DEF OneSign
<1> QED
  BY <1>1, <1>2

-----------------------------------------------------------------------------
(* The balances and their reference definition. *)

\* In every reachable state, the balances are those of the accounts and transactions.
LEMMA StateIs ==
    ASSUME IInv
    PROVE  /\ transactions \in Seq(Transactions) /\ AreTransactions(transactions) /\ DOMAIN transactions \subseteq Int
           /\ IsClearing(shares) /\ balances = computeAccountBalances(transactions, shares)
<1>1. transactions \in Seq(Transactions) /\ IsClearing(shares) /\ balances = computeAccountBalances(transactions, shares)
  BY DEF IInv, TypeOK, Memoized
<1>2. AreTransactions(transactions)
  BY <1>1, TransactionsType
<1>3. Len(transactions) \in Nat /\ DOMAIN transactions = 1 .. Len(transactions)
  BY <1>1
<1> QED
  BY <1>1, <1>2, <1>3

\* Without transactions nothing reaches anybody.
LEMMA NothingReaches ==
    ASSUME IsClearing(shares), NoCircle(shares), transactions = <<>>, NEW N, N = Reaching(shares, Own(transactions), N),
           NEW a \in Accounts
    PROVE  N[a] = 0
<1> DEFINE Z == [x \in Accounts |-> 0]
           own == Own(transactions)
           S == Sharing(shares)
<1>1. Z \in [Accounts -> Int] /\ \A x \in Accounts : Z[x] = 0
  OBVIOUS
<1>2. ASSUME NEW x \in Accounts PROVE own[x] = 0
  <2>1. DOMAIN [i \in DOMAIN transactions |-> Change(transactions[i])[x]] = {}
    OBVIOUS
  <2>2. Sum([i \in DOMAIN transactions |-> Change(transactions[i])[x]]) = 0
    BY <2>1, SumEmpty
  <2> QED
    BY <2>2 DEF Own
<1>3. ASSUME NEW x \in Accounts PROVE Sum(Flow(shares, Z, x, S)) = 0
  <2> DEFINE F == Fed(shares, x, S)
  <2>1. IsFiniteSet(F)
    BY <1>1, FlowIs
  <2>2. ASSUME NEW c \in F PROVE Share(shares, Z[c], c, x) = 0
    <3>1. c \in S /\ c \in Accounts /\ x \in DOMAIN shares[c]
      BY DEF Fed, Sharing, Accounts
    <3>2. Sum(shares[c]) \in Nat /\ Sum(shares[c]) > 0 /\ shares[c][x] \in Nat
      BY <3>1, SharesPositive DEF Sharing, IsClearing, IsShares
    <3>3. Z[c] = 0
      BY <3>1
    <3> HIDE DEF Z
    <3> DEFINE n == Sum(shares[c])
               k == shares[c][x]
    <3>4. n \in Nat /\ n > 0 /\ k \in Nat
      BY <3>2
    <3>5. Share(shares, Z[c], c, x) = (0 * k) \div n
      BY <3>3 DEF Share
    <3> HIDE DEF n, k
    <3>6. 0 * k = 0
      BY <3>4
    <3>7. 0 \div n = 0
      BY <3>4
    <3> QED
      BY <3>5, <3>6, <3>7
  <2> HIDE DEF F
  <2>3. [c \in F |-> Share(shares, Z[c], c, x)] = [c \in F |-> 0]
    BY <2>2
  <2>4. Sum([c \in F |-> Share(shares, Z[c], c, x)]) = 0
    BY <2>1, <2>3, SumZero
  <2> QED
    BY <2>4 DEF Flow, F
<1>4. Z = Reaching(shares, own, Z)
  <2> HIDE DEF own, S
  <2>1. \A x \in Accounts : own[x] + Sum(Flow(shares, Z, x, S)) = 0
    BY <1>2, <1>3
  <2> QED
    BY <2>1 DEF Reaching, S
<1> HIDE DEF Z, own
<1>5. N = Z
  BY <1>4, ReachingUnique DEF own
<1> QED
  BY <1>1, <1>5

\* The last entry of a history is what has reached the account.
LEMMA HistoryReaches ==
    ASSUME IInv, NoCircle(shares), NEW a \in Accounts, NEW h, h = computeAccountBalanceHistory(a, transactions)
    PROVE  h \in Seq(Points) /\ (IF h = <<>> THEN 0 ELSE Last(h).balance) = Inflow[a]
<1> DEFINE N == Net(balances)
           S == Sharing(shares)
           own == Own(transactions)
<1>1. /\ AreTransactions(transactions) /\ DOMAIN transactions \subseteq Int
      /\ IsClearing(shares) /\ balances = computeAccountBalances(transactions, shares)
  BY StateIs
<1>2. EmptiedOK(shares, own, balances, S)
  BY <1>1, AccountBalancesReach
<1>3. Inflow = N
  BY <1>1, <1>2, InflowReaches
<1>4. CASE transactions = <<>>
  <2>1. h = <<>>
    BY <1>4 DEF computeAccountBalanceHistory
  <2>2. N = Reaching(shares, own, N)
    BY <1>2 DEF EmptiedOK, Reaching, Net
  <2> HIDE DEF N
  <2>3. N[a] = 0
    BY <1>1, <1>4, <2>2, NothingReaches
  <2> QED
    BY <1>3, <2>1, <2>3
<1>5. CASE transactions # <<>>
  <2> DEFINE flow == [c \in From(a) |-> balances[c].clearingResolution[a]]
  <2>1. N \in [Accounts -> Int] /\ N[a] = own[a] + Sum(Flow(shares, N, a, S))
    BY <1>2, NetType DEF EmptiedOK
  <2>2. \A c \in Accounts : balances[c].clearingResolution = IF c \in S THEN Passed(shares, N, c) ELSE [x \in {} |-> 0]
    BY <1>2 DEF EmptiedOK
  <2>3. Flow(shares, N, a, S) \in [Fed(shares, a, S) -> Int]
    BY <1>1, <2>1, FlowIs
  <2> HIDE DEF N
  <2>4. From(a) = Fed(shares, a, S)
    <3>1. \A c \in Clearing : c \in Accounts
      BY DEF Accounts
    <3>2. \A c \in Clearing : a \in DOMAIN balances[c].clearingResolution <=> c \in S /\ a \in DOMAIN shares[c]
      BY <2>2, <3>1 DEF Passed
    <3> QED
      BY <3>2 DEF From, Fed, Sharing
  <2>5. \A c \in From(a) : balances[c].clearingResolution[a] = Flow(shares, N, a, S)[c]
    <3>1. \A c \in Fed(shares, a, S) : c \in Accounts /\ c \in S /\ a \in DOMAIN shares[c]
      BY DEF Fed, Sharing, Accounts
    <3> SUFFICES ASSUME NEW c \in From(a) PROVE balances[c].clearingResolution[a] = Flow(shares, N, a, S)[c]
      OBVIOUS
    <3>2. c \in Fed(shares, a, S) /\ c \in Accounts /\ c \in S /\ a \in DOMAIN shares[c]
      BY <2>4, <3>1
    <3>3. balances[c].clearingResolution = Passed(shares, N, c)
      BY <2>2, <3>2
    <3>4. Passed(shares, N, c)[a] = Share(shares, N[c], c, a)
      BY <3>2 DEF Passed
    <3>5. Flow(shares, N, a, S)[c] = Share(shares, N[c], c, a)
      BY <3>2 DEF Flow
    <3> QED
      BY <3>3, <3>4, <3>5
  <2>6. flow = Flow(shares, N, a, S)
    <3> DEFINE g == Flow(shares, N, a, S)
    <3>1. g = [c \in From(a) |-> g[c]] /\ \A c \in From(a) : balances[c].clearingResolution[a] = g[c]
      BY <2>3, <2>4, <2>5
    <3> HIDE DEF g
    <3>2. flow = g
      BY <3>1
    <3> QED
      BY <3>2 DEF g
  <2>7. \A c \in From(a) : balances[c].clearingResolution[a] \in Int
    BY <2>3, <2>4, <2>5
  <2>8. /\ Changes(a, transactions) \in Seq(Entries)
        /\ Weigh(ChangeOf, Changes(a, transactions)) = own[a] + Sum(flow)
    BY <1>1, <2>7, ChangesWeigh
  <2> HIDE DEF flow, own
  <2>9. h \in Seq(Points) /\ (IF h = <<>> THEN 0 ELSE Last(h).balance) = Weigh(ChangeOf, Changes(a, transactions))
    BY <1>5, <2>8, HistoryEnds DEF Points
  <2> QED
    BY <1>3, <2>1, <2>6, <2>8, <2>9
<1> QED
  BY <1>4, <1>5

\* However many accounts and transactions there are, and whatever events share each
\* other: where no division leaves a remainder, the balances, the last entry of every
\* history and the series of its graph are those of the reference definition
\* (balances.ts, BalanceHistoryGraph.tsx).
THEOREM BalancesMatch == Spec => [](WithoutRemainder => BalancesMatchReference)
<1>1. IInv /\ WithoutRemainder => BalancesMatchReference
  <2> SUFFICES ASSUME IInv, WithoutRemainder PROVE BalancesMatchReference
    OBVIOUS
  <2>1. BalancesAddUp
    BY AddingUp
  <2>2. ASSUME Acyclic PROVE NoCircle(shares)
    BY <2>2 DEF Acyclic, NoCircle
  <2>3. ASSUME Acyclic, NEW a \in Accounts
        PROVE  LET history == Computed(computeAccountBalanceHistory(a, transactions))
               IN  /\ balances[a].balance = IF a \in Sharing(shares) THEN 0 ELSE Inflow[a]
                   /\ balances[a].totalPaid - balances[a].totalConsumed = Inflow[a]
                   /\ (IF history = <<>> THEN 0 ELSE Last(history).balance) = Inflow[a]
                   /\ \A s \in Range(BalanceHistoryGraph(history)) : \A i \in 1 .. Len(s) - 1 : Sign(s[i]) = Sign(s[1])
    <3> DEFINE h == computeAccountBalanceHistory(a, transactions)
               history == Computed(h)
    <3>1. NoCircle(shares)
      BY <2>2, <2>3
    <3>2. EmptiedOK(shares, Own(transactions), balances, Sharing(shares))
      BY <3>1, StateIs, AccountBalancesReach
    <3>3. Inflow = Net(balances)
      BY <3>1, <3>2, StateIs, InflowReaches
    <3>4. balances[a].balance = IF a \in Sharing(shares) THEN 0 ELSE Inflow[a]
      BY <3>2, <3>3 DEF EmptiedOK
    <3>5. balances[a].totalPaid - balances[a].totalConsumed = Inflow[a]
      BY <3>3 DEF Net
    <3>6. h \in Seq(Points) /\ (IF h = <<>> THEN 0 ELSE Last(h).balance) = Inflow[a]
      BY <3>1, HistoryReaches
    <3>7. history = h
      BY ComputedIs
    <3> HIDE DEF h, history
    <3>8. \A s \in Range(BalanceHistoryGraph(history)) : \A i \in 1 .. Len(s) - 1 : Sign(s[i]) = Sign(s[1])
      BY <3>6, <3>7, GraphSigns
    <3>9. (IF history = <<>> THEN 0 ELSE Last(history).balance) = Inflow[a]
      BY <3>6, <3>7
    <3> QED
      BY <3>4, <3>5, <3>8, <3>9 DEF h, history
  <2> QED
    BY <2>1, <2>3 DEF BalancesMatchReference
<1> QED
  BY <1>1, Inductive, PTL

-----------------------------------------------------------------------------
(* What the lines of the plan may ask for. *)

\* Weights that are never negative.
LEMMA WeighNat ==
    ASSUME NEW X, NEW w, \A b \in X : w[b] \in Nat, NEW s \in Seq(X)
    PROVE  Weigh(w, s) \in Nat /\ \A i \in DOMAIN s : w[s[i]] <= Weigh(w, s)
<1> DEFINE f == Weights(w, s)
<1>1. Weighs(w, X)
  BY DEF Weighs
<1>2. IsFiniteSet(DOMAIN s)
  BY <1>1, WeighType
<1>3. f = [i \in DOMAIN s |-> w[s[i]]]
  BY DEF Weights
<1>4. \A i \in DOMAIN s : s[i] \in X
  OBVIOUS
<1> HIDE DEF f
<1>5. f \in [DOMAIN s -> Nat] /\ \A i \in DOMAIN s : f[i] = w[s[i]]
  BY <1>3, <1>4
<1>6. Sum(f) \in Nat /\ \A i \in DOMAIN s : f[i] <= Sum(f)
  BY <1>2, <1>5, SumNat
<1> QED
  BY <1>5, <1>6 DEF Weigh, f

\* The opposite weights.
LEMMA WeighNegated ==
    ASSUME NEW X, NEW w, Weighs(w, X), NEW v, \A b \in X : v[b] = -w[b], NEW s \in Seq(X)
    PROVE  Weigh(v, s) = -Weigh(w, s)
<1> DEFINE f == Weights(w, s)
           S == DOMAIN s
           k == -1
<1>1. IsFiniteSet(S) /\ f \in [S -> Int] /\ Weigh(w, s) \in Int
  BY WeighType
<1>2. \A i \in S : s[i] \in X /\ f[i] = w[s[i]]
  BY DEF Weights
<1> HIDE DEF f
<1>3. Weights(v, s) = [i \in S |-> k * f[i]]
  <2>1. \A i \in S : v[s[i]] = k * f[i]
    BY <1>1, <1>2
  <2> HIDE DEF k
  <2> QED
    BY <2>1 DEF Weights
<1>4. k \in Int
  OBVIOUS
<1> HIDE DEF S
<1>5. Sum([i \in S |-> k * f[i]]) = k * Sum(f)
  <2> HIDE DEF k
  <2> QED
    BY <1>1, <1>4, SumTimes
<1>6. Sum(f) = Weigh(w, s)
  BY DEF Weigh, f
<1> QED
  BY <1>1, <1>3, <1>5, <1>6 DEF Weigh

\* A payment of what the payer owes at least, and the payee is owed at least.
Payable(all, x) ==
    all[x.creditorId].balance <= -x.paymentAmount /\ x.paymentAmount <= all[x.debitorId].balance

\* What has been paid is no more than what was open.
LEMMA JustifiedIs ==
    ASSUME NEW all, HasBalances(all), NEW r, Justified(Positive(all), Negative(all), Amounts(all), r)
    PROVE  r \in Seq(Items) /\ \A i \in DOMAIN r : Payable(all, r[i])
<1> DEFINE P == Positive(all)
           N == Negative(all)
           X == P \X (Nat \ {0})
           Y == N \X {x \in Int : x < 0}
           Z == [creditorId : N, debitorId : P, paymentAmount : Nat \ {0}]
<1>0. \A a \in Accounts : all[a].balance \in Int
  BY DEF HasBalances
<1>1. /\ \A a \in P : a \in Accounts /\ all[a].balance \in Int /\ all[a].balance > 0
      /\ \A a \in N : a \in Accounts /\ all[a].balance \in Int /\ all[a].balance < 0
  BY <1>0 DEF Positive, Negative
<1>2. P \cap N = {} /\ P \subseteq Accounts /\ N \subseteq Accounts
  <2> HIDE DEF P, N
  <2> QED
    BY <1>1
<1> HIDE DEF P, N
<1>3. PICK q \in Payings : q.result = r /\ Sided(P, N, q) /\ \A a \in Accounts : Open(a, q) = Amounts(all)[a]
  BY DEF Justified, P, N
<1>4. q.creditors \in Seq(X) /\ q.debitors \in Seq(Y) /\ r \in Seq(Z)
  BY <1>3 DEF Sided
<1>5. /\ \A b \in X : b \in Owed /\ b[1] \in P
      /\ \A b \in Y : b \in Owing /\ b[1] \in N
      /\ \A x \in Z : /\ x \in Items /\ x.creditorId \in N /\ x.debitorId \in P /\ x.paymentAmount \in Nat
  BY <1>2 DEF Owed, Owing, Items
<1>6. \A a \in Accounts : \A x \in Z : Paid(a)[x] = (IF x.creditorId = a THEN x.paymentAmount ELSE 0)
                                                   - (IF x.debitorId = a THEN x.paymentAmount ELSE 0)
  BY <1>5 DEF Paid
<1> HIDE DEF X, Y, Z
<1>7. r \in Seq(Items)
  BY <1>4, <1>5
<1>8. \A i \in DOMAIN r : r[i] \in Z
  BY <1>4
<1>9. \A a \in Accounts : all[a].balance = Weigh(Claim(a), q.creditors) + Weigh(Claim(a), q.debitors) - Weigh(Paid(a), r)
  BY <1>3 DEF Open, Amounts
<1>10. ASSUME NEW i \in DOMAIN r PROVE all[r[i].creditorId].balance <= -r[i].paymentAmount
  <2> DEFINE a == r[i].creditorId
             m == r[i].paymentAmount
             e == Weigh(Claim(a), q.creditors)
             d == Weigh(Claim(a), q.debitors)
             w == Weigh(Paid(a), r)
             minus == [b \in Y |-> -Claim(a)[b]]
             none == [b \in X |-> 0]
             b0 == all[a].balance
  <2>1. a \in N /\ a \in Accounts /\ a \notin P /\ m \in Nat
    BY <1>1, <1>2, <1>5, <1>8
  <2>2. b0 = e + d - w /\ b0 \in Int
    BY <1>1, <1>9, <2>1
  <2> DEFINE pay == Paid(a)
             cl == Claim(a)
  <2>3. \A x \in Z : pay[x] = IF x.creditorId = a THEN x.paymentAmount ELSE 0
    <3> HIDE DEF a, pay
    <3>1. \A x \in Z : x.debitorId # a /\ x.paymentAmount \in Nat
      BY <1>5, <2>1
    <3> QED
      BY <1>6, <2>1, <3>1 DEF pay
  <2>4. pay[r[i]] = m
    BY <1>8, <2>3
  <2>5. /\ \A b \in X : cl[b] = 0
        /\ \A b \in Y : cl[b] \in Int /\ -cl[b] \in Nat
    <3> HIDE DEF a
    <3>1. ASSUME NEW b \in X PROVE cl[b] = 0
      BY <1>5, <2>1, WeightTypes
    <3>2. ASSUME NEW b \in Y PROVE cl[b] \in Int /\ -cl[b] \in Nat
      <4>1. cl[b] = (IF b[1] = a THEN b[2] ELSE 0) /\ b[2] \in Int /\ b[2] < 0
        BY <1>5, <2>1, WeightTypes
      <4> QED
        BY <4>1
    <3> QED
      BY <3>1, <3>2
  <2> HIDE DEF a, pay, cl, m
  <2>6. w \in Nat /\ m <= w
    <3>1. \A x \in Z : pay[x] \in Nat
      BY <1>5, <2>3
    <3>2. Weigh(pay, r) \in Nat /\ \A j \in DOMAIN r : pay[r[j]] <= Weigh(pay, r)
      BY <1>4, <3>1, WeighNat
    <3> QED
      BY <2>4, <3>2 DEF pay
  <2>7. e = 0
    <3>1. Weights(cl, q.creditors) = [j \in DOMAIN q.creditors |-> 0]
      <4>1. \A j \in DOMAIN q.creditors : q.creditors[j] \in X
        BY <1>4
      <4> QED
        BY <2>5, <4>1 DEF Weights
    <3>2. IsFiniteSet(DOMAIN q.creditors)
      <4>1. Weighs(cl, X)
        BY <2>5 DEF Weighs
      <4> QED
        BY <1>4, <4>1, WeighType
    <3> QED
      BY <3>1, <3>2, SumZero DEF Weigh, cl
  <2>8. d \in Int /\ d <= 0
    <3> DEFINE n == [b \in Y |-> -cl[b]]
    <3>1. (\A b \in Y : n[b] = -cl[b] /\ n[b] \in Nat) /\ Weighs(cl, Y)
      BY <2>5 DEF Weighs
    <3> HIDE DEF n
    <3>2. Weigh(n, q.debitors) \in Nat
      BY <1>4, <3>1, WeighNat
    <3>3. Weigh(n, q.debitors) = -Weigh(cl, q.debitors)
      BY <1>4, <3>1, WeighNegated
    <3>4. Weigh(cl, q.debitors) \in Int
      BY <1>4, <3>1, WeighType
    <3> DEFINE u == Weigh(cl, q.debitors)
               v == Weigh(n, q.debitors)
    <3>5. u \in Int /\ v \in Nat /\ v = -u /\ d = u
      BY <3>2, <3>3, <3>4 DEF cl
    <3> HIDE DEF u, v, d
    <3> QED
      BY <3>5
  <2> HIDE DEF e, d, w, b0
  <2>9. b0 <= -m
    BY <2>1, <2>2, <2>6, <2>7, <2>8
  <2> QED
    BY <2>9 DEF b0, a, m
<1>11. ASSUME NEW i \in DOMAIN r PROVE r[i].paymentAmount <= all[r[i].debitorId].balance
  <2> DEFINE a == r[i].debitorId
             m == r[i].paymentAmount
             e == Weigh(Claim(a), q.creditors)
             d == Weigh(Claim(a), q.debitors)
             w == Weigh(Paid(a), r)
             b0 == all[a].balance
  <2>1. a \in P /\ a \in Accounts /\ a \notin N /\ m \in Nat
    BY <1>1, <1>2, <1>5, <1>8
  <2>2. b0 = e + d - w /\ b0 \in Int
    BY <1>1, <1>9, <2>1
  <2> DEFINE pay == Paid(a)
             cl == Claim(a)
  <2>3. \A x \in Z : pay[x] = -(IF x.debitorId = a THEN x.paymentAmount ELSE 0)
    <3> HIDE DEF a, pay
    <3>1. \A x \in Z : x.creditorId # a /\ x.paymentAmount \in Nat
      BY <1>5, <2>1
    <3> QED
      BY <1>6, <2>1, <3>1 DEF pay
  <2>4. pay[r[i]] = -m
    BY <1>8, <2>3
  <2>5. /\ \A b \in Y : cl[b] = 0
        /\ \A b \in X : cl[b] \in Nat
    <3> HIDE DEF a
    <3>1. ASSUME NEW b \in Y PROVE cl[b] = 0
      BY <1>5, <2>1, WeightTypes
    <3>2. ASSUME NEW b \in X PROVE cl[b] \in Nat
      <4>1. cl[b] = (IF b[1] = a THEN b[2] ELSE 0) /\ b[2] \in Nat
        BY <1>5, <2>1, WeightTypes
      <4> QED
        BY <4>1
    <3> QED
      BY <3>1, <3>2
  <2> HIDE DEF a, pay, cl, m
  <2>6. w \in Int /\ m <= -w
    <3> DEFINE n == [x \in Z |-> -pay[x]]
    <3>0. \A x \in Z : pay[x] \in Int /\ -pay[x] \in Nat
      BY <1>5, <2>3
    <3>1. (\A x \in Z : n[x] = -pay[x] /\ n[x] \in Nat) /\ Weighs(pay, Z)
      BY <3>0 DEF Weighs
    <3> HIDE DEF n
    <3>2. Weigh(n, r) \in Nat /\ \A j \in DOMAIN r : n[r[j]] <= Weigh(n, r)
      BY <1>4, <3>1, WeighNat
    <3>3. Weigh(n, r) = -Weigh(pay, r)
      BY <1>4, <3>1, WeighNegated
    <3>4. Weigh(pay, r) \in Int
      BY <1>4, <3>1, WeighType
    <3>5. n[r[i]] = m
      BY <1>8, <2>1, <2>4, <3>1
    <3> DEFINE u == Weigh(pay, r)
               v == Weigh(n, r)
    <3>6. u \in Int /\ v \in Nat /\ v = -u /\ w = u /\ m <= v
      BY <3>2, <3>3, <3>4, <3>5 DEF pay
    <3> HIDE DEF u, v, w
    <3> QED
      BY <2>1, <3>6
  <2>7. d = 0
    <3>1. Weights(cl, q.debitors) = [j \in DOMAIN q.debitors |-> 0]
      <4>1. \A j \in DOMAIN q.debitors : q.debitors[j] \in Y
        BY <1>4
      <4> QED
        BY <2>5, <4>1 DEF Weights
    <3>2. IsFiniteSet(DOMAIN q.debitors)
      <4>1. Weighs(cl, Y)
        BY <2>5 DEF Weighs
      <4> QED
        BY <1>4, <4>1, WeighType
    <3> QED
      BY <3>1, <3>2, SumZero DEF Weigh, cl
  <2>8. e \in Nat
    BY <1>4, <2>5, WeighNat DEF cl
  <2> HIDE DEF e, d, w, b0
  <2>9. m <= b0
    BY <2>1, <2>2, <2>6, <2>7, <2>8
  <2> QED
    BY <2>9 DEF b0, a, m
<1> QED
  BY <1>7, <1>10, <1>11 DEF Payable

\* Every line of the plan can be paid.
LEMMA PlanPayable ==
    ASSUME NEW all, HasBalances(all)
    PROVE  \A k \in DOMAIN computeGroupSettlement(all) :
              computeGroupSettlement(all)[k] \in Items /\ Payable(all, computeGroupSettlement(all)[k])
<1> DEFINE pl == computeGroupSettlement(all)
           X == {x \in Items : Payable(all, x)}
<1>1. PICK payments \in Seq(Items) :
        /\ pl = Selected(payments, Shown(payments))
        /\ Justified(Positive(all), Negative(all), Amounts(all), payments)
  BY SettlementIs
<1>2. \A i \in DOMAIN payments : Payable(all, payments[i])
  BY <1>1, JustifiedIs
<1>3. payments \in Seq(X)
  BY <1>2
<1>4. Shown(payments) \subseteq DOMAIN payments
  BY DEF Shown
<1> HIDE DEF pl, X
<1>5. pl \in Seq(X)
  BY <1>1, <1>3, <1>4, SelectedIs
<1>6. \A k \in DOMAIN pl : pl[k] \in X
  BY <1>5
<1> QED
  BY <1>6 DEF pl, X

-----------------------------------------------------------------------------
(* What one more transaction changes. *)

\* What reaches those in order depends only on what the transactions make of them.
LEMMA FlowsAlike ==
    ASSUME NEW sh, NEW s, NEW T, T \subseteq Sharing(sh), Lists(s, T), InTurn(sh, s),
           NEW own, NEW N, \A a \in Accounts : N[a] = own[a] + Sum(Flow(sh, N, a, T)),
           NEW own2, NEW M, \A a \in Accounts : M[a] = own2[a] + Sum(Flow(sh, M, a, T)),
           \A c \in T : own2[c] = own[c]
    PROVE  (\A c \in T : M[c] = N[c]) /\ \A a \in Accounts : Flow(sh, M, a, T) = Flow(sh, N, a, T)
<1> DEFINE P == {k \in Nat : \A j \in DOMAIN s : j <= k => M[s[j]] = N[s[j]]}
<1>1. s \in Seq(T) /\ DOMAIN s = 1 .. Len(s) /\ Len(s) \in Nat /\ \A c \in T : c \in Accounts
  BY DEF Lists, Sharing, Accounts
<1>2. 0 \in P
  BY <1>1
<1>3. ASSUME NEW k \in Nat, k \in P PROVE k + 1 \in P
  <2> SUFFICES ASSUME NEW j \in DOMAIN s, j <= k + 1 PROVE M[s[j]] = N[s[j]]
    OBVIOUS
  <2>1. s[j] \in T /\ s[j] \in Accounts /\ j \in Nat
    BY <1>1
  <2>2. \A d \in Fed(sh, s[j], T) : M[d] = N[d]
    <3> SUFFICES ASSUME NEW d \in Fed(sh, s[j], T) PROVE M[d] = N[d]
      OBVIOUS
    <3>1. d \in Sharers(sh, s[j])
      BY DEF Fed, Sharers
    <3>2. PICK i \in DOMAIN s : i < j /\ s[i] = d
      BY <3>1 DEF InTurn
    <3>3. i <= k
      BY <1>1, <2>1, <3>2
    <3> QED
      BY <1>3, <3>2, <3>3
  <2>3. Flow(sh, M, s[j], T) = Flow(sh, N, s[j], T)
    BY <2>2, FlowSame
  <2>4. own2[s[j]] = own[s[j]]
    BY <2>1
  <2>5. M[s[j]] = own2[s[j]] + Sum(Flow(sh, M, s[j], T)) /\ N[s[j]] = own[s[j]] + Sum(Flow(sh, N, s[j], T))
    BY <2>1
  <2> QED
    BY <2>3, <2>4, <2>5
<1> HIDE DEF P
<1>4. Len(s) \in P
  BY <1>1, <1>2, <1>3, Induction
<1>5. \A j \in DOMAIN s : M[s[j]] = N[s[j]]
  BY <1>1, <1>4 DEF P
<1>6. \A c \in T : M[c] = N[c]
  BY <1>5 DEF Lists
<1>7. \A a \in Accounts : Flow(sh, M, a, T) = Flow(sh, N, a, T)
  BY <1>6, FlowSame DEF Fed
<1> QED
  BY <1>6, <1>7

\* The part of the transactions grows by what the new one changes.
LEMMA OwnAppend ==
    ASSUME NEW ts \in Seq(Transactions), NEW t \in Transactions, NEW a \in Accounts
    PROVE  Own(ts)[a] \in Int /\ Own(Append(ts, t))[a] = Own(ts)[a] + Change(t)[a]
<1> DEFINE w == [x \in Transactions |-> Change(x)[a]]
<1>1. \A x \in Transactions : w[x] = Change(x)[a] /\ Change(x)[a] \in Int
  <2> SUFFICES ASSUME NEW x \in Transactions PROVE w[x] = Change(x)[a] /\ Change(x)[a] \in Int
    OBVIOUS
  <2>1. Change(x) \in [Accounts -> Int]
    BY TransactionsType, ChangeType
  <2> QED
    BY <2>1
<1>2. Weighs(w, Transactions)
  BY <1>1 DEF Weighs
<1> HIDE DEF w
<1>3. ASSUME NEW q \in Seq(Transactions) PROVE Own(q)[a] = Weigh(w, q)
  <2>1. \A i \in DOMAIN q : q[i] \in Transactions
    OBVIOUS
  <2>2. [i \in DOMAIN q |-> Change(q[i])[a]] = Weights(w, q)
    BY <1>1, <2>1 DEF Weights
  <2> QED
    BY <2>2 DEF Own, Weigh
<1>4. Append(ts, t) \in Seq(Transactions) /\ Weigh(w, Append(ts, t)) = w[t] + Weigh(w, ts)
  BY <1>2, WeighAppend
<1>5. Weigh(w, ts) \in Int
  BY <1>2, WeighType
<1>6. Own(ts)[a] = Weigh(w, ts) /\ Own(Append(ts, t))[a] = Weigh(w, Append(ts, t))
  BY <1>3, <1>4
<1>7. w[t] = Change(t)[a] /\ Change(t)[a] \in Int
  BY <1>1
<1> DEFINE u == Weigh(w, ts)
           v == Change(t)[a]
<1>8. Own(ts)[a] = u /\ Own(Append(ts, t))[a] = v + u /\ u \in Int /\ v \in Int
  BY <1>4, <1>5, <1>6, <1>7
<1> HIDE DEF u, v
<1>9. Own(ts)[a] \in Int /\ Own(Append(ts, t))[a] = Own(ts)[a] + v
  BY <1>8
<1> QED
  BY <1>9 DEF v

\* One share of one account is everything.
LEMMA OneShare ==
    ASSUME NEW x \in Accounts, NEW f, f = [y \in {x} |-> 1], NEW v \in Int, NEW a
    PROVE  Part(v, At(f, a), Sum(f)) = IF a = x THEN v ELSE 0
<1>1. f \in [{x} -> Nat] /\ IsFiniteSet({x}) /\ f[x] = 1
  BY FS_Singleton
<1>2. Sum(f) = 1
  <2> DEFINE S == {x}
             k == 1
  <2>1. f = [y \in S |-> IF y = x THEN k ELSE 0] /\ k \in Int /\ x \in S /\ IsFiniteSet(S)
    BY <1>1
  <2> HIDE DEF S, k
  <2>2. Sum(f) = k
    BY <2>1, SumOne
  <2> QED
    BY <2>2 DEF k
<1>3. At(f, a) = IF a = x THEN 1 ELSE 0
  BY DEF At
<1>4. v * 1 = v /\ v * 0 = 0 /\ v \div 1 = v /\ 0 \div 1 = 0
  OBVIOUS
<1> QED
  BY <1>2, <1>3, <1>4 DEF Part

\* A transfer is a payment of one account to another.
LEMMA TransferChanges ==
    ASSUME NEW x \in Items, x.creditorId # x.debitorId, NEW a \in Accounts
    PROVE  Change(Transfer(x))[a] = IF a = x.creditorId THEN x.paymentAmount
                                    ELSE IF a = x.debitorId THEN -x.paymentAmount ELSE 0
<1> DEFINE t == Transfer(x)
           m == x.paymentAmount
<1>0. m \in Int /\ x.creditorId \in Accounts /\ x.debitorId \in Accounts /\ IsTransaction(t)
  BY TransactionsType DEF Items, Transactions, Transfers
<1>1. /\ t.value = m /\ t.positions = <<>>
      /\ t.creditor_shares = [y \in {x.creditorId} |-> 1] /\ t.debitor_shares = [y \in {x.debitorId} |-> 1]
  BY DEF Transfer
<1> HIDE DEF t
<1>2. Alive(t) = {}
  BY <1>1 DEF Alive
<1>3. Involved(t) = {x.creditorId, x.debitorId}
  <2>1. Involved(t) = DOMAIN t.creditor_shares \cup DOMAIN t.debitor_shares
                      \cup UNION {DOMAIN t.positions[i].usages : i \in Alive(t)}
    BY DEF Involved, computeTransactionBalanceEffect
  <2> QED
    BY <1>1, <1>2, <2>1
<1>4. Remaining(t) = m
  <2> DEFINE left == [i \in Alive(t) |-> Common(t.positions[i]) - t.positions[i].price]
  <2>1. DOMAIN left = {}
    BY <1>2
  <2> HIDE DEF left
  <2>2. Sum(left) = 0
    BY <2>1, SumEmpty
  <2>3. Remaining(t) = t.value + Sum(left)
    BY DEF Remaining, left
  <2> QED
    BY <1>0, <1>1, <2>2, <2>3
<1>5. CASE a \notin Involved(t)
  <2>1. Change(t)[a] = 0
    BY <1>5 DEF Change
  <2> QED
    BY <1>3, <1>5, <2>1 DEF t
<1>6. CASE a \in Involved(t)
  <2>1. Positions(t)[a] = 0
    <3> DEFINE f == [i \in Alive(t) |-> Used(t.positions[i], a)]
    <3>1. DOMAIN f = {}
      BY <1>2
    <3> HIDE DEF f
    <3>2. Sum(f) = 0
      BY <3>1, SumEmpty
    <3> QED
      BY <1>6, <3>2 DEF Positions, f
  <2>2. Credit(t)[a] = IF a = x.creditorId THEN m ELSE 0
    <3>1. Credit(t)[a] = Part(t.value, At(t.creditor_shares, a), Sum(t.creditor_shares))
      BY <1>6 DEF Credit
    <3> HIDE DEF m
    <3>2. Part(m, At(t.creditor_shares, a), Sum(t.creditor_shares)) = IF a = x.creditorId THEN m ELSE 0
      <4> DEFINE f == t.creditor_shares
                 p == x.creditorId
      <4>1. p \in Accounts /\ f = [y \in {p} |-> 1] /\ m \in Int
        BY <1>0, <1>1
      <4> HIDE DEF f, p
      <4>2. Part(m, At(f, a), Sum(f)) = IF a = p THEN m ELSE 0
        BY ONLY <4>1, OneShare
      <4> QED
        BY <4>2 DEF f, p
    <3> QED
      BY <1>1, <3>1, <3>2
  <2>3. Debit(t)[a] = IF a = x.debitorId THEN m ELSE 0
    <3>1. Debit(t)[a] = Part(Remaining(t), At(t.debitor_shares, a), Sum(t.debitor_shares))
      BY <1>6 DEF Debit
    <3> HIDE DEF m
    <3>2. Part(m, At(t.debitor_shares, a), Sum(t.debitor_shares)) = IF a = x.debitorId THEN m ELSE 0
      <4> DEFINE f == t.debitor_shares
                 p == x.debitorId
      <4>1. p \in Accounts /\ f = [y \in {p} |-> 1] /\ m \in Int
        BY <1>0, <1>1
      <4> HIDE DEF f, p
      <4>2. Part(m, At(f, a), Sum(f)) = IF a = p THEN m ELSE 0
        BY ONLY <4>1, OneShare
      <4> QED
        BY <4>2 DEF f, p
    <3> QED
      BY <1>4, <3>1, <3>2
  <2>4. Change(t)[a] = Credit(t)[a] - Positions(t)[a] - Debit(t)[a]
    BY <1>0, <1>6, EffectIs DEF Change
  <2> QED
    BY <1>0, <1>3, <1>6, <2>1, <2>2, <2>3, <2>4 DEF t
<1> QED
  BY <1>5, <1>6 DEF t

-----------------------------------------------------------------------------
(* Settling a line. *)

\* From b to d, p has paid m to q.
Moves(b, d, p, q, m) == \A a \in Accounts : d[a] = b[a] + (IF a = p THEN m ELSE IF a = q THEN -m ELSE 0)
\* How far from zero the amounts are.
FromZero(b) == [a \in Accounts |-> Abs(b[a])]
\* None is on the other side of zero.
Nearer(b, d) == \A a \in Accounts : Abs(b[a]) = Abs(d[a]) + Abs(b[a] - d[a])

\* A payment of no more than what is open brings both accounts nearer to zero.
LEMMA PaymentReduces ==
    ASSUME NEW b \in [Accounts -> Int], NEW d, NEW p \in Accounts, NEW q \in Accounts, p # q,
           NEW m \in Nat, b[p] <= -m, m <= b[q], Moves(b, d, p, q, m)
    PROVE  Nearer(b, d) /\ Sum(FromZero(d)) = Sum(FromZero(b)) - 2 * m
<1> DEFINE f == FromZero(b)
           g == FromZero(d)
           ep == [a \in Accounts |-> IF a = p THEN m ELSE 0]
           eq == [a \in Accounts |-> IF a = q THEN m ELSE 0]
           e == [a \in Accounts |-> ep[a] + eq[a]]
<1>1. IsFiniteSet(Accounts)
  BY BalanceBounds
<1>2. \A a \in Accounts : /\ b[a] \in Int /\ d[a] \in Int
                          /\ Abs(b[a]) = Abs(d[a]) + Abs(b[a] - d[a]) /\ Abs(b[a]) \in Int /\ Abs(d[a]) \in Int
                          /\ Abs(b[a] - d[a]) = e[a]
  <2> SUFFICES ASSUME NEW a \in Accounts
               PROVE  /\ b[a] \in Int /\ d[a] \in Int
                      /\ Abs(b[a]) = Abs(d[a]) + Abs(b[a] - d[a]) /\ Abs(b[a]) \in Int /\ Abs(d[a]) \in Int
                      /\ Abs(b[a] - d[a]) = e[a]
    OBVIOUS
  <2> DEFINE x == b[a]
             y == d[a]
  <2>1. x \in Int /\ y = x + (IF a = p THEN m ELSE IF a = q THEN -m ELSE 0)
    BY DEF Moves
  <2>2. (a = p => x <= -m) /\ (a = q => m <= x)
    OBVIOUS
  <2>3. e[a] = (IF a = p THEN m ELSE 0) + (IF a = q THEN m ELSE 0)
    OBVIOUS
  <2> HIDE DEF x, y, e
  <2>4. CASE a = p
    BY <2>1, <2>2, <2>3, <2>4 DEF Abs, x, y
  <2>5. CASE a = q
    BY <2>1, <2>2, <2>3, <2>5 DEF Abs, x, y
  <2>6. CASE a # p /\ a # q
    BY <2>1, <2>2, <2>3, <2>6 DEF Abs, x, y
  <2> QED
    BY <2>4, <2>5, <2>6
<1>3. ep \in [Accounts -> Int] /\ eq \in [Accounts -> Int] /\ Sum(ep) = m /\ Sum(eq) = m
  <2>1. ep \in [Accounts -> Int] /\ eq \in [Accounts -> Int]
    OBVIOUS
  <2>2. m \in Int
    OBVIOUS
  <2> QED
    BY <1>1, <2>1, <2>2, SumOne
<1> HIDE DEF ep, eq
<1>4. e \in [Accounts -> Int] /\ Sum(e) = m + m
  BY <1>1, <1>3, SumPlus
<1>5. f \in [Accounts -> Int] /\ g \in [Accounts -> Int]
  BY <1>2 DEF FromZero
<1>6. \A a \in Accounts : f[a] = Abs(b[a]) /\ g[a] = Abs(d[a]) /\ f[a] = g[a] + e[a]
  <2> HIDE DEF e
  <2> QED
    BY <1>2 DEF FromZero
<1>7. f = [a \in Accounts |-> g[a] + e[a]]
  <2>1. f = [a \in Accounts |-> f[a]]
    BY DEF FromZero
  <2> HIDE DEF f, g, e
  <2> QED
    BY <1>6, <2>1
<1> HIDE DEF f, g, e
<1>8. Sum(f) = Sum(g) + Sum(e)
  <2>1. Sum([a \in Accounts |-> g[a] + e[a]]) = Sum(g) + Sum(e)
    BY <1>1, <1>4, <1>5, SumPlus
  <2> QED
    BY <1>7, <2>1
<1>9. Sum(g) \in Int
  BY <1>1, <1>5, SumInt
<1>10. Sum(g) = Sum(f) - 2 * m
  BY <1>4, <1>8, <1>9
<1> QED
  BY <1>2, <1>10 DEF f, g, Nearer

\* A transfer that both accounts of can be paid, when it is saved.
LEMMA TransferReduces ==
    ASSUME NEW ts \in Seq(Transactions), NEW sh, IsClearing(sh), NEW x \in Items,
           NEW b, b = computeAccountBalances(ts, sh), Payable(b, x),
           NEW d, d = computeAccountBalances(Append(ts, Transfer(x)), sh)
    PROVE  /\ \A a \in Accounts :
                 Abs(b[a].balance) = Abs(d[a].balance) + Abs(b[a].balance - d[a].balance)
           /\ Outstanding(d) = Outstanding(b) - 2 * x.paymentAmount
<1> DEFINE t == Transfer(x)
           ts2 == Append(ts, t)
           own == Own(ts)
           own2 == Own(ts2)
           N == Net(b)
           M == Net(d)
           p == x.creditorId
           q == x.debitorId
           m == x.paymentAmount
<1>1. t \in Transactions /\ ts2 \in Seq(Transactions)
  BY DEF Transactions, Transfers
<1>2. AreTransactions(ts) /\ AreTransactions(ts2)
  BY <1>1, TransactionsType
<1>3. PICK T : T \subseteq Sharing(sh) /\ Lists(Sorting(sh), T) /\ InTurn(sh, Sorting(sh))
  BY SortingLists
<1>4. EmptiedOK(sh, own, b, T) /\ EmptiedOK(sh, own2, d, T)
  <2> HIDE DEF ts2
  <2> QED
    BY <1>2, <1>3, EmptiedReach DEF ts2
<1>5. p \in Accounts /\ q \in Accounts /\ m \in Nat /\ m > 0 /\ b[p].balance <= -m /\ m <= b[q].balance
  BY DEF Items, Payable
<1>6. N \in [Accounts -> Int] /\ M \in [Accounts -> Int]
  BY <1>4, NetType DEF EmptiedOK
<1>7. /\ \A a \in Accounts : N[a] = own[a] + Sum(Flow(sh, N, a, T))
      /\ \A a \in Accounts : M[a] = own2[a] + Sum(Flow(sh, M, a, T))
      /\ \A a \in Accounts : b[a].balance = IF a \in T THEN 0 ELSE N[a]
      /\ \A a \in Accounts : d[a].balance = IF a \in T THEN 0 ELSE M[a]
  BY <1>4 DEF EmptiedOK
<1> HIDE DEF N, M
<1>8. \A a \in Accounts : b[a].balance \in Int
  BY <1>6, <1>7
<1>9. p # q /\ p \notin T /\ q \notin T
  <2>1. b[p].balance \in Int /\ b[q].balance \in Int
    BY <1>5, <1>8
  <2>2. b[p].balance # 0 /\ b[q].balance # 0
    BY <1>5, <2>1
  <2>3. p # q
    <3> SUFFICES ASSUME p = q PROVE FALSE
      OBVIOUS
    <3>1. m <= b[p].balance
      BY <1>5
    <3> QED
      BY <1>5, <2>1, <3>1
  <2>4. \A a \in Accounts : a \in T => b[a].balance = 0
    BY <1>7
  <2> QED
    BY <1>5, <2>2, <2>3, <2>4
<1>10. ASSUME NEW a \in Accounts
       PROVE  own[a] \in Int /\ own2[a] = own[a] + (IF a = p THEN m ELSE IF a = q THEN -m ELSE 0)
  <2>1. own[a] \in Int /\ own2[a] = own[a] + Change(t)[a]
    BY <1>1, OwnAppend
  <2>2. Change(t)[a] = IF a = p THEN m ELSE IF a = q THEN -m ELSE 0
    BY <1>9, TransferChanges
  <2> QED
    BY <2>1, <2>2
<1> HIDE DEF own, own2, p, q, m
<1>11. \A c \in T : own2[c] = own[c]
  <2> SUFFICES ASSUME NEW c \in T PROVE own2[c] = own[c]
    OBVIOUS
  <2>1. c \in Accounts /\ c # p /\ c # q
    BY <1>3, <1>9 DEF Sharing, Accounts
  <2> QED
    BY <1>10, <2>1
<1>12. \A a \in Accounts : Flow(sh, M, a, T) = Flow(sh, N, a, T)
  BY <1>3, <1>7, <1>11, FlowsAlike
<1> DEFINE B == Amounts(b)
           D == Amounts(d)
<1>13. B \in [Accounts -> Int] /\ \A a \in Accounts : B[a] = b[a].balance /\ D[a] = d[a].balance
  BY <1>8 DEF Amounts
<1>14. \A a \in Accounts : d[a].balance = b[a].balance + (IF a = p THEN m ELSE IF a = q THEN -m ELSE 0)
  <2> SUFFICES ASSUME NEW a \in Accounts
               PROVE  d[a].balance = b[a].balance + (IF a = p THEN m ELSE IF a = q THEN -m ELSE 0)
    OBVIOUS
  <2> DEFINE s == Sum(Flow(sh, N, a, T))
             z == IF a = p THEN m ELSE IF a = q THEN -m ELSE 0
  <2>1. s \in Int
    BY <1>3, <1>6, FlowIs
  <2>2. N[a] = own[a] + s /\ M[a] = own2[a] + s /\ own2[a] = own[a] + z /\ own[a] \in Int /\ z \in Int
    BY <1>5, <1>7, <1>10, <1>12
  <2>3. a \in T => z = 0
    BY <1>9
  <2>4. b[a].balance = (IF a \in T THEN 0 ELSE N[a]) /\ d[a].balance = IF a \in T THEN 0 ELSE M[a]
    BY <1>7
  <2> HIDE DEF s, z
  <2>5. M[a] = N[a] + z /\ N[a] \in Int
    BY <2>1, <2>2
  <2>6. d[a].balance = b[a].balance + z
    BY <2>2, <2>3, <2>4, <2>5
  <2> QED
    BY <2>6 DEF z
<1> HIDE DEF B, D
<1>15. Moves(B, D, p, q, m) /\ B[p] <= -m /\ m <= B[q]
  <2>1. Moves(B, D, p, q, m)
    BY <1>13, <1>14 DEF Moves
  <2> QED
    BY <1>5, <1>13, <2>1
<1>16. Nearer(B, D) /\ Sum(FromZero(D)) = Sum(FromZero(B)) - 2 * m
  BY ONLY <1>5, <1>9, <1>13, <1>15, PaymentReduces
<1>17. /\ FromZero(D) = [a \in Accounts |-> Abs(d[a].balance)]
       /\ FromZero(B) = [a \in Accounts |-> Abs(b[a].balance)]
  BY <1>13 DEF FromZero
<1>18. Outstanding(d) = Outstanding(b) - 2 * m
  BY <1>16, <1>17 DEF Outstanding
<1>19. \A a \in Accounts : Abs(b[a].balance) = Abs(d[a].balance) + Abs(b[a].balance - d[a].balance)
  BY <1>13, <1>16 DEF Nearer
<1> QED
  BY <1>18, <1>19 DEF m

\* However many accounts, transactions and drafts there are, and whatever events share
\* each other: a line of the plan that is saved while the plan asks for it is no more
\* than its payer owes and its payee is owed, so that it brings both nearer to zero and
\* what is open shrinks by both (computeGroupSettlement, SettlementPlanDisplay.tsx).
THEOREM SettlingReduces == Spec => SettlingReducesDebts
<1> DEFINE Reduced(i, k) ==
              /\ \A a \in Accounts :
                    Abs(balances[a].balance) = Abs(balances'[a].balance) + Abs(balances[a].balance - balances'[a].balance)
              /\ Outstanding(balances') = Outstanding(balances) - 2 * plan[k].paymentAmount
<1>1. ASSUME IInv, NEW i \in DOMAIN drafts, NEW k \in DOMAIN plan, SaveTransfer(i), drafts[i] = Transfer(plan[k])
      PROVE  Reduced(i, k)
  <2> DEFINE x == plan[k]
  <2>1. /\ transactions \in Seq(Transactions) /\ IsClearing(shares)
        /\ balances = computeAccountBalances(transactions, shares) /\ plan = computeGroupSettlement(balances)
    BY <1>1 DEF IInv, TypeOK, Memoized
  <2>2. HasBalances(balances)
    BY <1>1, PlanType
  <2>3. x \in Items /\ Payable(balances, x)
    BY <2>1, <2>2, PlanPayable
  <2>4. balances' = computeAccountBalances(Append(transactions, Transfer(x)), shares)
    <3>1. transactions' = Append(transactions, Transfer(x)) /\ selectAccountBalances(transactions', shares)
      BY <1>1 DEF SaveTransfer
    <3> QED
      BY <3>1, ComputedIs DEF selectAccountBalances
  <2> DEFINE b == balances
             d == balances'
  <2>5. b = computeAccountBalances(transactions, shares) /\ Payable(b, x)
    BY <2>1, <2>3
  <2>6. d = computeAccountBalances(Append(transactions, Transfer(x)), shares)
    BY <2>4
  <2> HIDE DEF b, d, x
  <2>7. x \in Items
    BY <2>3
  <2>8. /\ \A a \in Accounts : Abs(b[a].balance) = Abs(d[a].balance) + Abs(b[a].balance - d[a].balance)
        /\ Outstanding(d) = Outstanding(b) - 2 * x.paymentAmount
    BY <2>1, <2>5, <2>6, <2>7, TransferReduces
  <2> QED
    BY <2>8 DEF b, d, x
<1>2. IInv /\ [Next]_vars =>
         [\A i \in DOMAIN drafts, k \in DOMAIN plan : SaveTransfer(i) /\ drafts[i] = Transfer(plan[k]) => Reduced(i, k)]_vars
  BY <1>1
<1>3. Spec => [][\A i \in DOMAIN drafts, k \in DOMAIN plan :
                    SaveTransfer(i) /\ drafts[i] = Transfer(plan[k]) => Reduced(i, k)]_vars
  BY <1>2, Inductive, PTL DEF Spec
<1> QED
  BY <1>3 DEF SettlingReducesDebts

================================================================================
