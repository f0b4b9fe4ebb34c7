---------------------------- MODULE SumTheorems ----------------------------
(***************************************************************************)
(* Sums over finite sets, as the operators SumFunction and SumFunctionOnSet *)
(* of the community modules define them: by taking the elements out one by  *)
(* one, in an order nobody knows.                                           *)
(***************************************************************************)
EXTENDS Integers, FiniteSets, Functions, FiniteSetTheorems, WellFoundedInduction, TLAPS

\* Induction over the natural numbers.  What is to be proved is a set, not an
\* operator, which keeps the lemma within first-order logic.
LEMMA SetInduction ==
  ASSUME NEW T, 0 \in T, \A n \in Nat : n \in T => n + 1 \in T
  PROVE  Nat \subseteq T
<1> DEFINE R == OpToRel(<, Nat)
           C == Nat \ T
<1>1. SUFFICES ASSUME C # {} PROVE FALSE
  OBVIOUS
<1>2. IsWellFoundedOn(R, Nat) /\ C \subseteq Nat
  BY NatLessThanWellFounded
<1>3. PICK x \in C : \A y \in C : ~ (<<y, x>> \in R)
  <2> HIDE DEF R, C
  <2> QED BY <1>1, <1>2, WFMin
<1>4. x \in Nat /\ x # 0 /\ x - 1 \in Nat /\ x - 1 \notin T
  <2>1. x \in Nat /\ x # 0 /\ x \notin T
    BY <1>3
  <2>2. x - 1 \in Nat /\ (x - 1) + 1 = x
    BY <2>1
  <2> QED BY <2>1, <2>2
<1>5. <<x - 1, x>> \in R
  BY <1>4 DEF OpToRel
<1> QED BY <1>3, <1>4, <1>5

-----------------------------------------------------------------------------
(* The sum is defined.                                                      *)

\* The element that is taken out of s.
pick(s) == CHOOSE x \in s : TRUE

\* it sums f over the members of D.
IsSum(it, f, D) ==
  it = [s \in D |-> IF s = {} THEN 0 ELSE f[pick(s)] + it[s \ {pick(s)}]]

LEMMA SumUnfolds ==
  ASSUME NEW f, NEW S
  PROVE  SumFunctionOnSet(f, S) = (CHOOSE it : IsSum(it, f, SUBSET S))[S]
BY DEF SumFunctionOnSet, FoldFunctionOnSet, MapThenFoldSet, IsSum, pick

LEMMA PickIn ==
  ASSUME NEW s, s # {}
  PROVE  pick(s) \in s
BY DEF pick

\* A set of n + 1 elements can lose any of them.
LEMMA TakeOne ==
  ASSUME NEW S, IsFiniteSet(S), NEW s \in SUBSET S, NEW n \in Nat, Cardinality(s) = n + 1
  PROVE  /\ s # {} /\ pick(s) \in s
         /\ \A y \in s : Cardinality(s \ {y}) = n /\ s \ {y} \in SUBSET S
<1>1. IsFiniteSet(s) /\ Cardinality(s) # 0
  BY FS_Subset
<1>2. s # {}
  BY <1>1, FS_EmptySet
<1>3. ASSUME NEW y \in s PROVE Cardinality(s \ {y}) = n
  <2>1. Cardinality(s \ {y}) = Cardinality(s) - 1
    BY <1>1, FS_RemoveElement, Zenon
  <2> QED BY <2>1
<1> QED BY <1>2, <1>3, PickIn

\* The subsets of S with at most n elements.
Small(S, n) == {s \in SUBSET S : Cardinality(s) <= n}

LEMMA SumExists ==
  ASSUME NEW f, NEW S, IsFiniteSet(S)
  PROVE  \E it : IsSum(it, f, SUBSET S)
<1> DEFINE T == {n \in Nat : \E it : IsSum(it, f, Small(S, n))}
<1>1. 0 \in T
  <2> DEFINE it == [s \in Small(S, 0) |-> 0]
  <2>1. \A s \in Small(S, 0) : s = {}
    BY FS_Subset, FS_EmptySet, FS_CardinalityType DEF Small
  <2>2. IsSum(it, f, Small(S, 0))
    BY <2>1 DEF IsSum
  <2> QED BY <2>2
<1>2. ASSUME NEW n \in Nat, n \in T PROVE n + 1 \in T
  <2>1. PICK g : IsSum(g, f, Small(S, n))
    BY <1>2
  <2> DEFINE it == [s \in Small(S, n + 1) |-> IF s = {} THEN 0 ELSE f[pick(s)] + g[s \ {pick(s)}]]
  <2>2. ASSUME NEW s \in Small(S, n + 1), s # {}
        PROVE  it[s \ {pick(s)}] = g[s \ {pick(s)}]
    <3> DEFINE t == s \ {pick(s)}
    <3>1. pick(s) \in s /\ IsFiniteSet(s) /\ Cardinality(s) \in Nat /\ Cardinality(s) <= n + 1
      BY <2>2, PickIn, FS_Subset, FS_CardinalityType DEF Small
    <3>2. Cardinality(t) = Cardinality(s) - 1 /\ t \in SUBSET S
      BY <3>1, FS_RemoveElement DEF Small
    <3>3. t \in Small(S, n) /\ t \in Small(S, n + 1)
      BY <3>1, <3>2 DEF Small
    <3> HIDE DEF t
    <3>4. g[t] = IF t = {} THEN 0 ELSE f[pick(t)] + g[t \ {pick(t)}]
      BY <2>1, <3>3 DEF IsSum
    <3>5. it[t] = IF t = {} THEN 0 ELSE f[pick(t)] + g[t \ {pick(t)}]
      BY <3>3
    <3> QED BY <3>4, <3>5 DEF t
  <2>3. IsSum(it, f, Small(S, n + 1))
    BY <2>2 DEF IsSum
  <2> QED BY <2>3
<1>3. Cardinality(S) \in T
  <2> HIDE DEF T
  <2> QED BY <1>1, <1>2, SetInduction, FS_CardinalityType
<1>4. Small(S, Cardinality(S)) = SUBSET S
  BY FS_Subset DEF Small
<1> QED BY <1>3, <1>4

\* Two functions that sum f give every set the same sum.
LEMMA SumUnique ==
  ASSUME NEW f, NEW A, NEW B, IsFiniteSet(A), NEW i, NEW j,
         IsSum(i, f, SUBSET A), IsSum(j, f, SUBSET B),
         NEW U \in SUBSET A, U \in SUBSET B
  PROVE  i[U] = j[U]
<1> DEFINE T == {n \in Nat : \A s \in SUBSET U : Cardinality(s) = n => i[s] = j[s]}
<1>1. \A s \in SUBSET U : /\ i[s] = IF s = {} THEN 0 ELSE f[pick(s)] + i[s \ {pick(s)}]
                          /\ j[s] = IF s = {} THEN 0 ELSE f[pick(s)] + j[s \ {pick(s)}]
  BY DEF IsSum
<1>2. \A s \in SUBSET U : IsFiniteSet(s) /\ Cardinality(s) \in Nat
  BY FS_Subset, FS_CardinalityType
<1>3. 0 \in T
  BY <1>1, <1>2, FS_EmptySet
<1>4. ASSUME NEW n \in Nat, n \in T PROVE n + 1 \in T
  <2> SUFFICES ASSUME NEW s \in SUBSET U, Cardinality(s) = n + 1 PROVE i[s] = j[s]
    OBVIOUS
  <2>1. s # {} /\ pick(s) \in s
    BY <1>2, TakeOne
  <2>2. Cardinality(s \ {pick(s)}) = n /\ s \ {pick(s)} \in SUBSET U
    BY <1>2, <2>1, TakeOne
  <2>3. i[s \ {pick(s)}] = j[s \ {pick(s)}]
    BY <1>4, <2>2
  <2> QED BY <1>1, <2>1, <2>3
<1>5. Cardinality(U) \in T
  <2> HIDE DEF T
  <2> QED BY <1>2, <1>3, <1>4, SetInduction
<1> QED BY <1>5

LEMMA SumEmpty ==
  ASSUME NEW f
  PROVE  SumFunctionOnSet(f, {}) = 0
<1>1. \E it : IsSum(it, f, SUBSET {})
  BY SumExists, FS_EmptySet
<1>2. IsSum(CHOOSE it : IsSum(it, f, SUBSET {}), f, SUBSET {})
  BY <1>1
<1> QED BY <1>2, SumUnfolds DEF IsSum

LEMMA SumPicks ==
  ASSUME NEW f, NEW S, IsFiniteSet(S), S # {}
  PROVE  SumFunctionOnSet(f, S) = f[pick(S)] + SumFunctionOnSet(f, S \ {pick(S)})
<1> DEFINE U == S \ {pick(S)}
           i == CHOOSE it : IsSum(it, f, SUBSET S)
           j == CHOOSE it : IsSum(it, f, SUBSET U)
<1>1. IsFiniteSet(U) /\ U \in SUBSET S /\ U \in SUBSET U
  BY FS_Subset
<1>2. IsSum(i, f, SUBSET S) /\ IsSum(j, f, SUBSET U)
  BY <1>1, SumExists
<1>3. SumFunctionOnSet(f, S) = i[S] /\ SumFunctionOnSet(f, U) = j[U]
  BY SumUnfolds
<1> HIDE DEF i, j
<1>4. i[S] = f[pick(S)] + i[U]
  BY <1>2 DEF IsSum
<1>5. i[U] = j[U]
  <2> HIDE DEF U
  <2> QED BY <1>1, <1>2, SumUnique
<1> QED BY <1>3, <1>4, <1>5

-----------------------------------------------------------------------------
(* What the sum does, whatever the order.                                   *)

\* Sums stay in a set that is closed under addition.
LEMMA SumType ==
  ASSUME NEW f, NEW S, IsFiniteSet(S), NEW V, 0 \in V, \A x, y \in V : x + y \in V,
         \A a \in S : f[a] \in V
  PROVE  SumFunctionOnSet(f, S) \in V
<1> DEFINE T == {n \in Nat : \A s \in SUBSET S : Cardinality(s) = n => SumFunctionOnSet(f, s) \in V}
<1>1. \A s \in SUBSET S : IsFiniteSet(s) /\ Cardinality(s) \in Nat
  BY FS_Subset, FS_CardinalityType
<1>2. 0 \in T
  BY <1>1, SumEmpty, FS_EmptySet
<1>3. ASSUME NEW n \in Nat, n \in T PROVE n + 1 \in T
  <2> SUFFICES ASSUME NEW s \in SUBSET S, Cardinality(s) = n + 1
               PROVE  SumFunctionOnSet(f, s) \in V
    OBVIOUS
  <2>1. s # {} /\ pick(s) \in s
    BY TakeOne
  <2>2. Cardinality(s \ {pick(s)}) = n /\ s \ {pick(s)} \in SUBSET S
    BY <2>1, TakeOne
  <2>3. SumFunctionOnSet(f, s \ {pick(s)}) \in V /\ f[pick(s)] \in V
    BY <1>3, <2>1, <2>2
  <2>4. SumFunctionOnSet(f, s) = f[pick(s)] + SumFunctionOnSet(f, s \ {pick(s)})
    BY <1>1, <2>1, SumPicks
  <2> QED BY <2>3, <2>4
<1>4. Cardinality(S) \in T
  <2> HIDE DEF T
  <2> QED BY <1>1, <1>2, <1>3, SetInduction
<1> QED BY <1>4

\* Any element may be taken out first.
LEMMA SumTakes ==
  ASSUME NEW f, NEW S, IsFiniteSet(S), \A a \in S : f[a] \in Int, NEW x \in S
  PROVE  SumFunctionOnSet(f, S) = f[x] + SumFunctionOnSet(f, S \ {x})
<1> DEFINE T == {n \in Nat : \A s \in SUBSET S : Cardinality(s) = n => \A y \in s :
                   SumFunctionOnSet(f, s) = f[y] + SumFunctionOnSet(f, s \ {y})}
<1>1. \A s \in SUBSET S : IsFiniteSet(s) /\ Cardinality(s) \in Nat
  BY FS_Subset, FS_CardinalityType
<1>2. 0 \in T
  BY <1>1, FS_EmptySet
<1>3. ASSUME NEW n \in Nat, n \in T PROVE n + 1 \in T
  <2> SUFFICES ASSUME NEW s \in SUBSET S, Cardinality(s) = n + 1, NEW y \in s
               PROVE  SumFunctionOnSet(f, s) = f[y] + SumFunctionOnSet(f, s \ {y})
    OBVIOUS
  <2> DEFINE p == pick(s)
             rest == SumFunctionOnSet(f, (s \ {p}) \ {y})
  <2>1. s # {} /\ p \in s
    BY TakeOne
  <2>2. SumFunctionOnSet(f, s) = f[p] + SumFunctionOnSet(f, s \ {p})
    BY <1>1, <2>1, SumPicks
  <2> HIDE DEF p
  <2>3. CASE y = p
    BY <2>2, <2>3
  <2>4. CASE y # p
    <3>1. /\ Cardinality(s \ {p}) = n /\ s \ {p} \in SUBSET S /\ y \in s \ {p}
          /\ Cardinality(s \ {y}) = n /\ s \ {y} \in SUBSET S /\ p \in s \ {y}
      BY <2>1, <2>4, TakeOne
    <3>2. SumFunctionOnSet(f, s \ {p}) = f[y] + rest
      BY <1>3, <3>1
    <3>3. SumFunctionOnSet(f, s \ {y}) = f[p] + rest
      <4>1. (s \ {y}) \ {p} = (s \ {p}) \ {y}
        OBVIOUS
      <4> QED BY <1>3, <3>1, <4>1
    <3>4. rest \in Int /\ f[y] \in Int /\ f[p] \in Int
      <4>1. (s \ {p}) \ {y} \in SUBSET S
        OBVIOUS
      <4>2. rest \in Int
        BY <1>1, <4>1, SumType
      <4> QED BY <2>1, <4>2
    <3> HIDE DEF rest
    <3> QED BY <2>2, <3>2, <3>3, <3>4
  <2> QED BY <2>3, <2>4
<1>4. Cardinality(S) \in T
  <2> HIDE DEF T
  <2> QED BY <1>1, <1>2, <1>3, SetInduction
<1> QED BY <1>4

LEMMA SumInt ==
  ASSUME NEW f, NEW S, IsFiniteSet(S), \A a \in S : f[a] \in Int
  PROVE  SumFunctionOnSet(f, S) \in Int
<1>1. 0 \in Int /\ \A x, y \in Int : x + y \in Int
  OBVIOUS
<1> QED BY <1>1, SumType

LEMMA SumNat ==
  ASSUME NEW f, NEW S, IsFiniteSet(S), \A a \in S : f[a] \in Nat
  PROVE  SumFunctionOnSet(f, S) \in Nat
<1>1. 0 \in Nat /\ \A x, y \in Nat : x + y \in Nat
  OBVIOUS
<1> QED BY <1>1, SumType

LEMMA SumZero ==
  ASSUME NEW f, NEW S, IsFiniteSet(S), \A a \in S : f[a] = 0
  PROVE  SumFunctionOnSet(f, S) = 0
<1>1. 0 \in {0} /\ \A x, y \in {0} : x + y \in {0}
  OBVIOUS
<1>2. SumFunctionOnSet(f, S) \in {0}
  BY <1>1, SumType
<1> QED BY <1>2

\* Only the values count.
LEMMA SumCongruent ==
  ASSUME NEW f, NEW g, NEW S, IsFiniteSet(S), \A a \in S : f[a] = g[a]
  PROVE  SumFunctionOnSet(f, S) = SumFunctionOnSet(g, S)
<1> DEFINE T == {n \in Nat : \A s \in SUBSET S : Cardinality(s) = n =>
                   SumFunctionOnSet(f, s) = SumFunctionOnSet(g, s)}
<1>1. \A s \in SUBSET S : IsFiniteSet(s) /\ Cardinality(s) \in Nat
  BY FS_Subset, FS_CardinalityType
<1>2. 0 \in T
  BY <1>1, SumEmpty, FS_EmptySet
<1>3. ASSUME NEW n \in Nat, n \in T PROVE n + 1 \in T
  <2> SUFFICES ASSUME NEW s \in SUBSET S, Cardinality(s) = n + 1
               PROVE  SumFunctionOnSet(f, s) = SumFunctionOnSet(g, s)
    OBVIOUS
  <2>1. s # {} /\ pick(s) \in s
    BY TakeOne
  <2>2. Cardinality(s \ {pick(s)}) = n /\ s \ {pick(s)} \in SUBSET S
    BY <2>1, TakeOne
  <2>3. SumFunctionOnSet(f, s \ {pick(s)}) = SumFunctionOnSet(g, s \ {pick(s)})
    BY <1>3, <2>2
  <2>4. /\ SumFunctionOnSet(f, s) = f[pick(s)] + SumFunctionOnSet(f, s \ {pick(s)})
        /\ SumFunctionOnSet(g, s) = g[pick(s)] + SumFunctionOnSet(g, s \ {pick(s)})
    BY <1>1, <2>1, SumPicks
  <2> QED BY <2>1, <2>3, <2>4
<1>4. Cardinality(S) \in T
  <2> HIDE DEF T
  <2> QED BY <1>1, <1>2, <1>3, SetInduction
<1> QED BY <1>4

\* The sum of a multiple of f and of g is that multiple of the sum of f and the
\* sum of g.
LEMMA SumLinear ==
  ASSUME NEW f, NEW g, NEW h, NEW S, IsFiniteSet(S), NEW k \in Int,
         \A a \in S : f[a] \in Int /\ g[a] \in Int /\ h[a] = k * f[a] + g[a]
  PROVE  SumFunctionOnSet(h, S) = k * SumFunctionOnSet(f, S) + SumFunctionOnSet(g, S)
<1> DEFINE T == {n \in Nat : \A s \in SUBSET S : Cardinality(s) = n =>
                   SumFunctionOnSet(h, s) = k * SumFunctionOnSet(f, s) + SumFunctionOnSet(g, s)}
<1>1. \A s \in SUBSET S : IsFiniteSet(s) /\ Cardinality(s) \in Nat
  BY FS_Subset, FS_CardinalityType
<1>2. 0 \in T
  <2>1. \A s \in SUBSET S : Cardinality(s) = 0 => s = {}
    BY <1>1, FS_EmptySet
  <2>2. 0 = k * 0 + 0
    OBVIOUS
  <2> QED BY <2>1, <2>2, SumEmpty
<1>3. ASSUME NEW n \in Nat, n \in T PROVE n + 1 \in T
  <2> SUFFICES ASSUME NEW s \in SUBSET S, Cardinality(s) = n + 1
               PROVE  SumFunctionOnSet(h, s) = k * SumFunctionOnSet(f, s) + SumFunctionOnSet(g, s)
    OBVIOUS
  <2> DEFINE p == pick(s)
             F == SumFunctionOnSet(f, s \ {p})
             G == SumFunctionOnSet(g, s \ {p})
             H == SumFunctionOnSet(h, s \ {p})
  <2>1. s # {} /\ p \in s
    BY TakeOne
  <2>2. Cardinality(s \ {p}) = n /\ s \ {p} \in SUBSET S
    BY <2>1, TakeOne
  <2>3. H = k * F + G
    BY <1>3, <2>2
  <2>4. F \in Int /\ G \in Int
    BY <1>1, <2>2, SumInt
  <2>5. SumFunctionOnSet(f, s) = f[p] + F /\ SumFunctionOnSet(g, s) = g[p] + G
    BY <1>1, <2>1, SumPicks
  <2>6. SumFunctionOnSet(h, s) = h[p] + H
    BY <1>1, <2>1, SumPicks
  <2>7. f[p] \in Int /\ g[p] \in Int /\ h[p] = k * f[p] + g[p]
    BY <2>1
  <2> HIDE DEF p, F, G, H
  <2>8. (k * f[p] + g[p]) + (k * F + G) = k * (f[p] + F) + (g[p] + G)
    BY <2>4, <2>7, SMT
  <2> QED BY <2>3, <2>5, <2>6, <2>7, <2>8
<1>4. Cardinality(S) \in T
  <2> HIDE DEF T
  <2> QED BY <1>1, <1>2, <1>3, SetInduction
<1> QED BY <1>4

LEMMA SumPlus ==
  ASSUME NEW f, NEW g, NEW h, NEW S, IsFiniteSet(S),
         \A a \in S : f[a] \in Int /\ g[a] \in Int /\ h[a] = f[a] + g[a]
  PROVE  SumFunctionOnSet(h, S) = SumFunctionOnSet(f, S) + SumFunctionOnSet(g, S)
<1>1. \A a \in S : h[a] = 1 * f[a] + g[a]
  OBVIOUS
<1>2. SumFunctionOnSet(h, S) = 1 * SumFunctionOnSet(f, S) + SumFunctionOnSet(g, S)
  BY <1>1, SumLinear
<1> QED BY <1>2, SumInt

LEMMA SumTimes ==
  ASSUME NEW f, NEW h, NEW S, IsFiniteSet(S), NEW k \in Int,
         \A a \in S : f[a] \in Int /\ h[a] = k * f[a]
  PROVE  SumFunctionOnSet(h, S) = k * SumFunctionOnSet(f, S)
<1> DEFINE z == [a \in S |-> 0]
<1>1. \A a \in S : z[a] \in Int /\ f[a] \in Int /\ h[a] = k * f[a] + z[a]
  OBVIOUS
<1>2. SumFunctionOnSet(z, S) = 0
  BY SumZero
<1> HIDE DEF z
<1>3. SumFunctionOnSet(h, S) = k * SumFunctionOnSet(f, S) + SumFunctionOnSet(z, S)
  BY <1>1, SumLinear
<1>4. SumFunctionOnSet(f, S) \in Int
  BY SumInt
<1> QED BY <1>2, <1>3, <1>4, SMT

LEMMA SumMonotone ==
  ASSUME NEW f, NEW g, NEW S, IsFiniteSet(S),
         \A a \in S : f[a] \in Int /\ g[a] \in Int /\ f[a] <= g[a]
  PROVE  SumFunctionOnSet(f, S) <= SumFunctionOnSet(g, S)
<1> DEFINE d == [a \in S |-> g[a] - f[a]]
<1>1. \A a \in S : d[a] \in Nat /\ d[a] \in Int /\ g[a] = d[a] + f[a]
  OBVIOUS
<1> HIDE DEF d
<1>2. SumFunctionOnSet(g, S) = SumFunctionOnSet(d, S) + SumFunctionOnSet(f, S)
  BY <1>1, SumPlus
<1>3. SumFunctionOnSet(d, S) \in Nat /\ SumFunctionOnSet(f, S) \in Int
  BY <1>1, SumNat, SumInt
<1> QED BY <1>2, <1>3

\* One value changes.
LEMMA SumUpdate ==
  ASSUME NEW f, NEW g, NEW S, IsFiniteSet(S), NEW x \in S,
         \A a \in S : f[a] \in Int /\ g[a] \in Int,
         \A a \in S \ {x} : f[a] = g[a]
  PROVE  SumFunctionOnSet(g, S) = SumFunctionOnSet(f, S) + g[x] - f[x]
<1>1. IsFiniteSet(S \ {x})
  BY FS_Subset
<1>2. SumFunctionOnSet(f, S \ {x}) = SumFunctionOnSet(g, S \ {x})
  BY <1>1, SumCongruent
<1>3. SumFunctionOnSet(f, S \ {x}) \in Int
  BY <1>1, SumInt
<1>4. /\ SumFunctionOnSet(f, S) = f[x] + SumFunctionOnSet(f, S \ {x})
      /\ SumFunctionOnSet(g, S) = g[x] + SumFunctionOnSet(g, S \ {x})
  BY SumTakes
<1> QED BY <1>2, <1>3, <1>4

\* A sum of natural numbers is no less than any of them.
LEMMA SumBounds ==
  ASSUME NEW f, NEW S, IsFiniteSet(S), NEW x \in S, \A a \in S : f[a] \in Nat
  PROVE  f[x] <= SumFunctionOnSet(f, S)
<1>1. IsFiniteSet(S \ {x})
  BY FS_Subset
<1>2. SumFunctionOnSet(f, S \ {x}) \in Nat
  BY <1>1, SumNat
<1>3. SumFunctionOnSet(f, S) = f[x] + SumFunctionOnSet(f, S \ {x})
  BY SumTakes
<1> QED BY <1>2, <1>3

\* k for each member of R, 0 for the others.
LEMMA SumCounts ==
  ASSUME NEW S, IsFiniteSet(S), NEW R \in SUBSET S, NEW k \in Int, NEW f,
         \A a \in S : f[a] = IF a \in R THEN k ELSE 0
  PROVE  SumFunctionOnSet(f, S) = k * Cardinality(R)
<1> DEFINE T == {n \in Nat : \A s \in SUBSET S : Cardinality(s) = n =>
                   SumFunctionOnSet(f, s) = k * Cardinality(s \cap R)}
<1>1. \A s \in SUBSET S : IsFiniteSet(s) /\ Cardinality(s) \in Nat
  BY FS_Subset, FS_CardinalityType
<1>2. 0 \in T
  <2>1. \A s \in SUBSET S : Cardinality(s) = 0 => s = {}
    BY <1>1, FS_EmptySet
  <2>2. 0 = k * 0 /\ {} \cap R = {} /\ Cardinality({}) = 0
    BY FS_EmptySet
  <2> QED BY <2>1, <2>2, SumEmpty
<1>3. ASSUME NEW n \in Nat, n \in T PROVE n + 1 \in T
  <2> SUFFICES ASSUME NEW s \in SUBSET S, Cardinality(s) = n + 1
               PROVE  SumFunctionOnSet(f, s) = k * Cardinality(s \cap R)
    OBVIOUS
  <2> DEFINE p == pick(s)
             c == Cardinality((s \ {p}) \cap R)
  <2>1. s # {} /\ p \in s
    BY TakeOne
  <2>2. Cardinality(s \ {p}) = n /\ s \ {p} \in SUBSET S
    BY <2>1, TakeOne
  <2>3. SumFunctionOnSet(f, s \ {p}) = k * c
    BY <1>3, <2>2
  <2>4. SumFunctionOnSet(f, s) = f[p] + SumFunctionOnSet(f, s \ {p})
    BY <1>1, <2>1, SumPicks
  <2> HIDE DEF p
  <2>5. IsFiniteSet(s \cap R) /\ (s \cap R) \in SUBSET S /\ (s \ {p}) \cap R \in SUBSET S
    BY <1>1
  <2>6. c \in Nat /\ Cardinality(s \cap R) \in Nat
    BY <1>1, <2>5
  <2>7. CASE p \in R
    <3>1. (s \ {p}) \cap R = (s \cap R) \ {p} /\ p \in s \cap R
      BY <2>1, <2>7
    <3>2. Cardinality((s \cap R) \ {p}) = Cardinality(s \cap R) - 1
      BY <2>5, <3>1, FS_RemoveElement, Zenon
    <3>3. c = Cardinality(s \cap R) - 1
      BY <3>1, <3>2
    <3>4. f[p] = k
      BY <2>1, <2>7
    <3> HIDE DEF c
    <3>5. k + k * c = k * (c + 1)
      BY <2>6, SMT
    <3> QED BY <2>3, <2>4, <2>6, <3>3, <3>4, <3>5
  <2>8. CASE p \notin R
    <3>1. (s \ {p}) \cap R = s \cap R
      BY <2>8
    <3>2. f[p] = 0 /\ k * c \in Int
      BY <2>1, <2>6, <2>8
    <3> QED BY <2>3, <2>4, <3>1, <3>2
  <2> QED BY <2>7, <2>8
<1>4. Cardinality(S) \in T
  <2> HIDE DEF T
  <2> QED BY <1>1, <1>2, <1>3, SetInduction
<1>5. S \cap R = R
  OBVIOUS
<1> QED BY <1>4, <1>5

\* A table m, by rows, and w, by columns, with the sums r of its rows and c of
\* its columns.
IsTable(A, B, m, w, r, c) ==
  /\ IsFiniteSet(A) /\ IsFiniteSet(B)
  /\ \A a \in A, b \in B : m[a][b] \in Int /\ w[b][a] = m[a][b]
  /\ \A a \in A : r[a] = SumFunctionOnSet(m[a], B)
  /\ \A b \in B : c[b] = SumFunctionOnSet(w[b], A)

\* Rows first or columns first.
LEMMA SumExchange ==
  ASSUME NEW A, NEW B, NEW m, NEW w, NEW r, NEW c, IsTable(A, B, m, w, r, c)
  PROVE  SumFunctionOnSet(r, A) = SumFunctionOnSet(c, B)
<1> USE DEF IsTable
<1> DEFINE row(s) == [a \in A |-> SumFunctionOnSet(m[a], s)]
           T == {n \in Nat : \A s \in SUBSET B : Cardinality(s) = n =>
                   SumFunctionOnSet(row(s), A) = SumFunctionOnSet(c, s)}
<1>1. \A s \in SUBSET B : IsFiniteSet(s) /\ Cardinality(s) \in Nat
  BY FS_Subset, FS_CardinalityType
<1>2. 0 \in T
  <2>1. \A s \in SUBSET B : Cardinality(s) = 0 => s = {}
    BY <1>1, FS_EmptySet
  <2>2. \A a \in A : row({})[a] = 0
    BY SumEmpty
  <2>3. SumFunctionOnSet(row({}), A) = 0
    BY <2>2, SumZero
  <2> QED BY <2>1, <2>3, SumEmpty
<1>3. ASSUME NEW n \in Nat, n \in T PROVE n + 1 \in T
  <2> SUFFICES ASSUME NEW s \in SUBSET B, Cardinality(s) = n + 1
               PROVE  SumFunctionOnSet(row(s), A) = SumFunctionOnSet(c, s)
    OBVIOUS
  <2> DEFINE p == pick(s)
             col == [a \in A |-> m[a][p]]
  <2>1. s # {} /\ p \in s
    BY TakeOne
  <2>2. Cardinality(s \ {p}) = n /\ s \ {p} \in SUBSET B
    BY <2>1, TakeOne
  <2>3. SumFunctionOnSet(row(s \ {p}), A) = SumFunctionOnSet(c, s \ {p})
    BY <1>3, <2>2
  <2>4. SumFunctionOnSet(c, s) = c[p] + SumFunctionOnSet(c, s \ {p})
    BY <1>1, <2>1, SumPicks
  <2>5. \A a \in A : SumFunctionOnSet(m[a], s) = m[a][p] + SumFunctionOnSet(m[a], s \ {p})
    BY <1>1, <2>1, SumPicks
  <2> HIDE DEF p
  <2>6. \A a \in A : SumFunctionOnSet(m[a], s \ {p}) \in Int
    BY <1>1, <2>2, SumInt
  <2>7. \A a \in A : /\ col[a] \in Int /\ row(s \ {p})[a] \in Int
                     /\ row(s)[a] = col[a] + row(s \ {p})[a]
    BY <2>1, <2>5, <2>6
  <2>8. SumFunctionOnSet(col, A) = SumFunctionOnSet(w[p], A)
    <3>1. \A a \in A : col[a] = w[p][a]
      BY <2>1
    <3> HIDE DEF col
    <3> QED BY <3>1, SumCongruent
  <2>9. c[p] = SumFunctionOnSet(w[p], A)
    BY <2>1
  <2> HIDE DEF col, row
  <2> DEFINE before == row(s \ {p})
             now == row(s)
  <2>10. \A a \in A : col[a] \in Int /\ before[a] \in Int /\ now[a] = col[a] + before[a]
    BY <2>7
  <2> HIDE DEF before, now
  <2>11. SumFunctionOnSet(now, A) = SumFunctionOnSet(col, A) + SumFunctionOnSet(before, A)
    BY <2>10, SumPlus
  <2>12. SumFunctionOnSet(row(s), A) = SumFunctionOnSet(col, A) + SumFunctionOnSet(row(s \ {p}), A)
    BY <2>11 DEF before, now
  <2> QED BY <2>3, <2>4, <2>8, <2>9, <2>12
<1>4. Cardinality(B) \in T
  <2> HIDE DEF T
  <2> QED BY <1>1, <1>2, <1>3, SetInduction
<1>5. SumFunctionOnSet(row(B), A) = SumFunctionOnSet(c, B)
  BY <1>4
<1>6. \A a \in A : row(B)[a] = r[a]
  OBVIOUS
<1>7. SumFunctionOnSet(row(B), A) = SumFunctionOnSet(r, A)
  <2> HIDE DEF row
  <2> QED BY <1>6, SumCongruent
<1> QED BY <1>5, <1>7

\* Zeros do not count.
LEMMA SumSubset ==
  ASSUME NEW S, IsFiniteSet(S), NEW R \in SUBSET S, NEW f,
         \A a \in S : f[a] \in Int, \A a \in S \ R : f[a] = 0
  PROVE  SumFunctionOnSet(f, S) = SumFunctionOnSet(f, R)
<1> DEFINE T == {n \in Nat : \A s \in SUBSET S : Cardinality(s) = n =>
                   SumFunctionOnSet(f, s) = SumFunctionOnSet(f, s \cap R)}
<1>1. \A s \in SUBSET S : IsFiniteSet(s) /\ Cardinality(s) \in Nat
  BY FS_Subset, FS_CardinalityType
<1>2. 0 \in T
  <2>1. \A s \in SUBSET S : Cardinality(s) = 0 => s = {} /\ s \cap R = {}
    BY <1>1, FS_EmptySet
  <2> QED BY <2>1
<1>3. ASSUME NEW n \in Nat, n \in T PROVE n + 1 \in T
  <2> SUFFICES ASSUME NEW s \in SUBSET S, Cardinality(s) = n + 1
               PROVE  SumFunctionOnSet(f, s) = SumFunctionOnSet(f, s \cap R)
    OBVIOUS
  <2> DEFINE p == pick(s)
             rest == SumFunctionOnSet(f, (s \ {p}) \cap R)
  <2>1. s # {} /\ p \in s
    BY TakeOne
  <2>2. Cardinality(s \ {p}) = n /\ s \ {p} \in SUBSET S
    BY <2>1, TakeOne
  <2>3. SumFunctionOnSet(f, s \ {p}) = rest
    BY <1>3, <2>2
  <2>4. SumFunctionOnSet(f, s) = f[p] + SumFunctionOnSet(f, s \ {p})
    BY <1>1, <2>1, SumPicks
  <2> HIDE DEF p
  <2>5. CASE p \in R
    <3>1. (s \ {p}) \cap R = (s \cap R) \ {p} /\ p \in s \cap R /\ s \cap R \in SUBSET S
      BY <2>1, <2>5
    <3>2. SumFunctionOnSet(f, s \cap R) = f[p] + SumFunctionOnSet(f, (s \cap R) \ {p})
      <4> DEFINE u == s \cap R
      <4>1. IsFiniteSet(u) /\ p \in u /\ \A a \in u : f[a] \in Int
        BY <1>1, <3>1
      <4> HIDE DEF u
      <4>2. SumFunctionOnSet(f, u) = f[p] + SumFunctionOnSet(f, u \ {p})
        BY <4>1, SumTakes
      <4> QED BY <4>2 DEF u
    <3> QED BY <2>3, <2>4, <3>1, <3>2
  <2>6. CASE p \notin R
    <3>1. (s \ {p}) \cap R = s \cap R /\ f[p] = 0 /\ (s \ {p}) \cap R \in SUBSET S
      BY <2>1, <2>6
    <3>2. rest \in Int
      BY <1>1, <3>1, SumInt
    <3>3. SumFunctionOnSet(f, s \cap R) = rest
      BY <3>1
    <3> HIDE DEF rest
    <3> QED BY <2>3, <2>4, <3>1, <3>2, <3>3
  <2> QED BY <2>5, <2>6
<1>4. Cardinality(S) \in T
  <2> HIDE DEF T
  <2> QED BY <1>1, <1>2, <1>3, SetInduction
<1>5. S \cap R = R
  OBVIOUS
<1> QED BY <1>4, <1>5

-----------------------------------------------------------------------------
(* The sum of all that a function on S has.                                 *)

LEMMA TotalIsSum ==
  ASSUME NEW S, NEW f, DOMAIN f = S
  PROVE  SumFunction(f) = SumFunctionOnSet(f, S)
BY DEF SumFunction

LEMMA TotalNat ==
  ASSUME NEW S, IsFiniteSet(S), NEW f \in [S -> Nat]
  PROVE  SumFunction(f) \in Nat
<1>1. SumFunctionOnSet(f, S) \in Nat
  BY SumNat
<1>. QED BY <1>1, TotalIsSum

\* One number changes.
LEMMA TotalUpdate ==
  ASSUME NEW S, IsFiniteSet(S), NEW f \in [S -> Nat], NEW g \in [S -> Nat], NEW x \in S,
         \A a \in S \ {x} : g[a] = f[a]
  PROVE  SumFunction(g) = SumFunction(f) + g[x] - f[x]
<1>1. SumFunctionOnSet(g, S) = SumFunctionOnSet(f, S) + g[x] - f[x]
  BY SumUpdate
<1>. QED BY <1>1 DEF SumFunction

LEMMA TotalAdds ==
  ASSUME NEW S, IsFiniteSet(S), NEW f \in [S -> Nat], NEW g \in [S -> Nat], NEW h, DOMAIN h = S,
         \A a \in S : h[a] = f[a] + g[a]
  PROVE  SumFunction(h) = SumFunction(f) + SumFunction(g)
<1>1. SumFunctionOnSet(h, S) = SumFunctionOnSet(f, S) + SumFunctionOnSet(g, S)
  BY SumPlus
<1>. QED BY <1>1 DEF SumFunction

LEMMA TotalLeq ==
  ASSUME NEW S, IsFiniteSet(S), NEW f \in [S -> Nat], NEW g \in [S -> Nat],
         \A a \in S : f[a] <= g[a]
  PROVE  SumFunction(f) <= SumFunction(g)
<1>1. SumFunctionOnSet(f, S) <= SumFunctionOnSet(g, S)
  BY SumMonotone
<1>. QED BY <1>1 DEF SumFunction

\* A quotient, rounded down, times the divisor.
LEMMA RoundedDown ==
  ASSUME NEW x \in Nat, NEW d \in Nat \ {0}
  PROVE  x \div d \in Nat /\ d * (x \div d) <= x
<1>1. /\ x = d * (x \div d) + (x % d) /\ x % d \in Nat /\ x \div d \in Int
  BY SMT
<1>2. x \div d \in Nat
  BY SMT
<1>3. d * (x \div d) \in Int
  BY <1>1, SMT
<1>. QED BY <1>1, <1>2, <1>3, SMT

LEMMA FactorCancels ==
  ASSUME NEW d \in Nat \ {0}, NEW x \in Nat, NEW y \in Nat, d * x <= y * d
  PROVE  x <= y
<1> SUFFICES ASSUME x >= y + 1 PROVE FALSE
  OBVIOUS
<1>1. d * x >= d * (y + 1)
  BY SMT
<1>2. d * (y + 1) = y * d + d
  BY SMT
<1>3. d * x \in Nat /\ y * d \in Nat /\ d * (y + 1) \in Nat
  BY SMT
<1>. QED BY <1>1, <1>2, <1>3

\* shares is what is paid out of p in proportion to ext, each share rounded down
\* and none to v.
IsShares(S, ext, v, p, shares) ==
  /\ ext \in [S -> Nat] /\ v \in S /\ p \in Nat /\ shares = [s \in S |-> shares[s]]
  /\ \A s \in S : shares[s] = IF s = v \/ ext[s] = 0 THEN 0
                              ELSE (p * ext[s]) \div (SumFunction(ext) - ext[v])

\* It is no more than p.
LEMMA SharesFitIn ==
  ASSUME NEW S, IsFiniteSet(S), NEW ext, NEW v, NEW p, NEW shares, IsShares(S, ext, v, p, shares)
  PROVE  /\ shares \in [S -> Nat]
         /\ SumFunction(shares) \in Nat /\ SumFunction(shares) <= p
<1>. USE DEF IsShares
<1> DEFINE others == SumFunction(ext) - ext[v]
           weight == [s \in S |-> IF s = v THEN 0 ELSE ext[s]]
<1>1. weight \in [S -> Nat]
  OBVIOUS
<1>2. \A s \in S : shares[s] = IF s = v \/ ext[s] = 0 THEN 0
                                      ELSE (p * ext[s]) \div others
  OBVIOUS
<1>3. weight[v] = 0 /\ \A s \in S \ {v} : weight[s] = ext[s]
  OBVIOUS
<1> HIDE DEF weight
<1>4. others = SumFunction(weight) /\ others \in Nat
  <2>1. SumFunction(weight) = SumFunction(ext) + weight[v] - ext[v]
    BY <1>1, <1>3, TotalUpdate
  <2>2. SumFunction(weight) \in Nat /\ SumFunction(ext) \in Nat /\ ext[v] \in Nat
    BY <1>1, TotalNat
  <2>. QED BY <1>3, <2>1, <2>2
<1> HIDE DEF others
<1>5. \A s \in S : weight[s] <= others
  <2>1. \A s \in S : weight[s] <= SumFunctionOnSet(weight, S)
    BY <1>1, SumBounds
  <2>. QED BY <1>1, <1>4, <2>1 DEF SumFunction
<1>6. ASSUME NEW s \in S
      PROVE  shares[s] \in Nat /\ others * shares[s] <= p * weight[s]
  <2>1. weight[s] \in Nat /\ ext[s] \in Nat /\ p \in Nat
    BY <1>1
  <2>2. CASE s = v \/ ext[s] = 0
    <3>1. shares[s] = 0 /\ weight[s] = 0
      BY <1>2, <1>3, <2>2
    <3>2. others * 0 = 0 /\ p * 0 = 0
      BY <1>4, <2>1
    <3>. QED BY <3>1, <3>2
  <2>3. CASE s # v /\ ext[s] # 0
    <3>1. shares[s] = (p * weight[s]) \div others
      BY <1>2, <1>3, <2>3
    <3>2. others \in Nat \ {0}
      BY <1>3, <1>4, <1>5, <2>1, <2>3
    <3>3. p * weight[s] \in Nat
      BY <2>1
    <3>. QED BY <3>1, <3>2, <3>3, RoundedDown
  <2>. QED BY <2>2, <2>3
<1>7. shares \in [S -> Nat]
  BY <1>6
<1>8. SumFunction(shares) \in Nat
  BY <1>7, TotalNat
<1>9. SumFunction(shares) <= p
  <2>1. CASE others = 0
    <3>1. \A s \in S : shares[s] = 0
      <4>1. \A s \in S : weight[s] = 0
        BY <1>1, <1>5, <2>1
      <4>. QED BY <1>2, <1>3, <4>1
    <3>2. SumFunctionOnSet(shares, S) = 0
      BY <3>1, SumZero
    <3>. QED BY <1>7, <3>2 DEF SumFunction
  <2>2. CASE others # 0
    <3> DEFINE low == [s \in S |-> others * shares[s]]
               high == [s \in S |-> p * weight[s]]
    <3>1. \A s \in S : /\ low[s] \in Nat /\ high[s] \in Nat /\ low[s] <= high[s]
                              /\ shares[s] \in Int /\ weight[s] \in Int
                              /\ low[s] = others * shares[s] /\ high[s] = p * weight[s]
      <4>1. \A s \in S : /\ shares[s] \in Nat /\ weight[s] \in Nat
                                /\ others \in Nat /\ p \in Nat
        BY <1>1, <1>4, <1>7
      <4>2. \A s \in S : others * shares[s] \in Nat /\ p * weight[s] \in Nat
        BY <4>1
      <4>. QED BY <1>6, <4>1, <4>2
    <3>2. low \in [S -> Nat] /\ high \in [S -> Nat]
      BY <3>1
    <3> HIDE DEF low, high
    <3>3. SumFunctionOnSet(low, S) = others * SumFunctionOnSet(shares, S)
      <4>1. others \in Int /\ \A s \in S : shares[s] \in Int /\ low[s] = others * shares[s]
        BY <1>4, <3>1
      <4>. QED BY <4>1, SumTimes
    <3>4. SumFunctionOnSet(high, S) = p * SumFunctionOnSet(weight, S)
      <4>1. p \in Int /\ \A s \in S : weight[s] \in Int /\ high[s] = p * weight[s]
        BY <3>1
      <4>. QED BY <4>1, SumTimes
    <3>5. SumFunction(low) <= SumFunction(high)
      BY <3>1, <3>2, TotalLeq
    <3>6. others * SumFunction(shares) <= p * others
      BY <1>1, <1>4, <1>7, <3>2, <3>3, <3>4, <3>5 DEF SumFunction
    <3>. QED BY <1>4, <1>8, <2>2, <3>6, FactorCancels
  <2>. QED BY <2>1, <2>2
<1>. QED BY <1>7, <1>8, <1>9

\* Every member of R has c to give away; w[v] is what v gives to whom, given
\* what everybody gets and kept what is left of c.
IsShareOut(S, R, c, w, m, given, kept) ==
  /\ R \in SUBSET S /\ c \in Nat
  /\ \A v \in R : w[v] \in [S -> Nat] /\ SumFunction(w[v]) <= c
  /\ \A a \in S, v \in R : m[a][v] = w[v][a]
  /\ given = [a \in S |-> SumFunctionOnSet(m[a], R)]
  /\ kept = [a \in S |-> IF a \in R THEN c - SumFunction(w[a]) ELSE 0]

LEMMA ShareOut ==
  ASSUME NEW S, IsFiniteSet(S), NEW R, NEW c, NEW w, NEW m, NEW given, NEW kept,
         IsShareOut(S, R, c, w, m, given, kept)
  PROVE  /\ given \in [S -> Nat] /\ kept \in [S -> Nat]
         /\ SumFunction(given) + SumFunction(kept) = c * Cardinality(R)
<1>. USE DEF IsShareOut
<1> DEFINE paid == [a \in S |-> IF a \in R THEN SumFunction(w[a]) ELSE 0]
           reward == [a \in S |-> IF a \in R THEN c ELSE 0]
<1>1. IsFiniteSet(R)
  BY FS_Subset
<1>2. \A v \in R : SumFunction(w[v]) \in Nat
  BY TotalNat
<1>3. \A a \in S, v \in R : m[a][v] \in Nat /\ w[v][a] = m[a][v]
  OBVIOUS
<1>4. given \in [S -> Nat] /\ DOMAIN given = S
  <2> SUFFICES ASSUME NEW a \in S PROVE SumFunctionOnSet(m[a], R) \in Nat
    OBVIOUS
  <2>. QED BY <1>1, <1>3, SumNat
<1>5. kept \in [S -> Nat] /\ DOMAIN kept = S
  BY <1>2
<1>6. paid \in [S -> Nat] /\ reward \in [S -> Nat]
  BY <1>2
<1>7. \A a \in S : reward[a] = kept[a] + paid[a]
  BY <1>2
<1>8. SumFunctionOnSet(reward, S) = c * Cardinality(R)
  <2>1. \A a \in S : reward[a] = IF a \in R THEN c ELSE 0
    OBVIOUS
  <2> HIDE DEF reward
  <2>. QED BY <2>1, SumCounts
<1>9. SumFunctionOnSet(given, S) = SumFunctionOnSet(paid, S)
  <2>1. \A v \in R : paid[v] = SumFunctionOnSet(w[v], S)
    BY TotalIsSum
  <2>2. \A a \in S \ R : paid[a] = 0
    OBVIOUS
  <2>3. \A a \in S : given[a] = SumFunctionOnSet(m[a], R) /\ paid[a] \in Int
    BY <1>6
  <2> HIDE DEF paid
  <2>4. IsTable(S, R, m, w, given, paid)
    BY <1>1, <1>3, <2>1, <2>3 DEF IsTable
  <2>5. SumFunctionOnSet(given, S) = SumFunctionOnSet(paid, R)
    BY <2>4, SumExchange
  <2>6. SumFunctionOnSet(paid, S) = SumFunctionOnSet(paid, R)
    BY <2>2, <2>3, SumSubset
  <2>. QED BY <2>5, <2>6
<1>10. DOMAIN reward = S /\ DOMAIN paid = S
  OBVIOUS
<1> HIDE DEF paid, reward
<1>11. SumFunction(reward) = SumFunction(kept) + SumFunction(paid)
  BY <1>5, <1>6, <1>7, <1>10, TotalAdds
<1>12. SumFunction(given) = SumFunction(paid) /\ SumFunction(reward) = c * Cardinality(R)
  BY <1>4, <1>8, <1>9, <1>10, TotalIsSum
<1>13. SumFunction(kept) \in Nat /\ SumFunction(paid) \in Nat
  BY <1>5, <1>6, TotalNat
<1>14. SumFunction(given) + SumFunction(kept) = c * Cardinality(R)
  BY <1>11, <1>12, <1>13
<1>. QED BY <1>4, <1>5, <1>14

=============================================================================
