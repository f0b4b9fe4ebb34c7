-------------------------- MODULE EmptyBlockProofs --------------------------
(***************************************************************************)
(* Empty blocks, for any number of stakers, any pledges and chains of any   *)
(* length: which votes stand behind an empty block, and which blocks the    *)
(* fork choice may undo.                                                    *)
(***************************************************************************)
EXTENDS EmptyBlock, SumTheorems

Links == Stakers \cup {Normal}

-----------------------------------------------------------------------------
(* Chains. *)

LEMMA ChainIsSeq ==
  ASSUME NEW h \in Nat, NEW V, NEW c \in [1..h -> V]
  PROVE  c \in Seq(V) /\ Len(c) = h /\ DOMAIN c = 1..Len(c)
OBVIOUS

LEMMA SeqIsFunction ==
  ASSUME NEW V, NEW c \in Seq(V)
  PROVE  c \in [1..Len(c) -> V]
OBVIOUS

LEMMA ChainGrows ==
  ASSUME NEW V, NEW c \in Seq(V), NEW x \in V
  PROVE  /\ Append(c, x) \in [1..(Len(c) + 1) -> V] /\ Len(Append(c, x)) = Len(c) + 1
         /\ Append(c, x)[Len(c) + 1] = x
         /\ \A i \in 1..Len(c) : Append(c, x)[i] = c[i]
<1>1. Append(c, x) \in Seq(V) /\ Len(Append(c, x)) = Len(c) + 1 /\ Len(c) \in Nat
  OBVIOUS
<1>2. /\ Append(c, x)[Len(c) + 1] = x
      /\ \A i \in 1..Len(c) : Append(c, x)[i] = c[i]
  OBVIOUS
<1>3. Append(c, x) \in [1..Len(Append(c, x)) -> V]
  BY <1>1, SeqIsFunction, Zenon
<1>. QED BY <1>1, <1>2, <1>3

LEMMA PrefixIf ==
  ASSUME NEW V, NEW c \in Seq(V), NEW d \in Seq(V), Len(c) <= Len(d),
         \A i \in 1..Len(c) : c[i] = d[i]
  PROVE  IsPrefix(c, d)
BY DEF IsPrefix

-----------------------------------------------------------------------------
(* The fork choice. *)

\* The difficulties of chain c at the heights up to N.
weights(c, N) == [i \in 1..N |-> IF i <= Len(c) THEN Difficulty(c[i]) ELSE 0]

LEMMA DifficultyType == \A b : Difficulty(b) \in Nat /\ Difficulty(b) >= 1
BY EmptyBlockAssumption DEF Difficulty

LEMMA IntervalFinite ==
  ASSUME NEW a \in Int, NEW b \in Int
  PROVE  IsFiniteSet(a..b) /\ Cardinality(a..b) = IF a > b THEN 0 ELSE b - a + 1
BY FS_Interval

LEMMA TdOver ==
  ASSUME NEW c \in Seq(Links), NEW N \in Nat, Len(c) <= N
  PROVE  Td(c) = SumFunctionOnSet(weights(c, N), 1..N) /\ Td(c) \in Nat
<1> DEFINE d == [i \in DOMAIN c |-> Difficulty(c[i])]
           w == weights(c, N)
           R == 1..Len(c)
<1>1. R \in SUBSET (1..N) /\ DOMAIN d = R /\ Len(c) \in Nat
  OBVIOUS
<1>2. /\ \A i \in 1..N : w[i] \in Int
      /\ \A i \in (1..N) \ R : w[i] = 0
      /\ \A i \in R : d[i] = w[i] /\ d[i] \in Nat
  BY DifficultyType DEF weights
<1>3. Td(c) = SumFunctionOnSet(d, R)
  BY <1>1 DEF Td, SumFunction
<1>4. IsFiniteSet(R) /\ IsFiniteSet(1..N)
  BY <1>1, IntervalFinite
<1> HIDE DEF d, w, R
<1>5. SumFunctionOnSet(w, 1..N) = SumFunctionOnSet(w, R)
  BY <1>1, <1>2, <1>4, SumSubset, Zenon
<1>6. SumFunctionOnSet(d, R) = SumFunctionOnSet(w, R)
  BY <1>2, <1>4, SumCongruent
<1>7. SumFunctionOnSet(d, R) \in Nat
  BY <1>2, <1>4, SumNat
<1>. QED BY <1>3, <1>5, <1>6, <1>7 DEF w

\* At no height does d have an empty block that c has not.
NoneOfItsOwn(c, d) ==
  \A i \in 1..Len(d) : d[i] = Normal \/ (i \in 1..Len(c) /\ d[i] = c[i])

\* Where d, without an empty block of its own, departs from c or ends before it, it loses
\* difficulty; it gains 1 for every block more.
LEMMA Lighter ==
  ASSUME NEW c \in Seq(Links), NEW d \in Seq(Links), NoneOfItsOwn(c, d),
         NEW j \in 1..Len(c), j \in 1..Len(d) => c[j] # d[j]
  PROVE  /\ Len(d) <= Len(c) => Td(d) < Td(c)
         /\ Len(d) > Len(c) => Td(d) + (EmptyDifficulty - 1) <= Td(c) + (Len(d) - Len(c))
<1> DEFINE m == Len(c)
           k == Len(d)
           N == IF k > m THEN k ELSE m
           D == 1..N
           f == weights(c, N)
           g == weights(d, N)
           more == (m + 1)..k
           e == [i \in D |-> IF i \in more THEN 1 ELSE 0]
           u == [i \in D |-> f[i] + e[i]]
           gap == IF j \in 1..k THEN EmptyDifficulty - 1 ELSE 1
           v == [i \in D |-> IF i = j THEN g[i] + gap ELSE g[i]]
<1>1. m \in Nat /\ k \in Nat /\ N \in Nat /\ m <= N /\ k <= N /\ j \in D
  OBVIOUS
<1>2. /\ Td(c) = SumFunctionOnSet(f, D) /\ Td(c) \in Nat
      /\ Td(d) = SumFunctionOnSet(g, D) /\ Td(d) \in Nat
  BY <1>1, TdOver
<1>3. IsFiniteSet(D) /\ Cardinality(more) = IF k > m THEN k - m ELSE 0
  <2>1. m + 1 \in Int /\ k \in Int /\ N \in Int /\ 1 \in Int
    BY <1>1
  <2> HIDE DEF N, m, k
  <2>2. IsFiniteSet(D)
    BY <2>1, IntervalFinite
  <2>3. Cardinality(more) = IF m + 1 > k THEN 0 ELSE k - (m + 1) + 1
    BY <2>1, IntervalFinite, Zenon
  <2>. QED BY <1>1, <2>2, <2>3
<1>4. gap \in Nat
  BY EmptyBlockAssumption
<1>5. ASSUME NEW i \in D
      PROVE  /\ f[i] = IF i <= m THEN Difficulty(c[i]) ELSE 0
             /\ g[i] = IF i <= k THEN Difficulty(d[i]) ELSE 0
             /\ f[i] \in Nat /\ g[i] \in Nat
  BY DifficultyType DEF weights
<1>6. \A i \in D : /\ e[i] = (IF i \in more THEN 1 ELSE 0) /\ e[i] \in Int
                      /\ u[i] = f[i] + e[i] /\ u[i] \in Int /\ f[i] \in Int /\ g[i] \in Int
                      /\ v[i] \in Int /\ (i # j => g[i] = v[i])
  BY <1>4, <1>5
<1>7. v[j] = g[j] + gap
  BY <1>1
<1>8. ASSUME NEW i \in D PROVE v[i] <= u[i]
  <2>1. CASE i = j
    <3>1. i <= m /\ f[i] = Difficulty(c[i]) /\ e[i] = 0 /\ u[i] = f[i] + e[i]
      BY <1>1, <1>5, <2>1
    <3>2. CASE j \in 1..k
      <4>1. d[j] = Normal /\ c[j] # Normal
        BY <3>2 DEF NoneOfItsOwn
      <4>2. g[j] = 1 /\ f[j] = EmptyDifficulty
        BY <1>1, <1>5, <3>1, <3>2, <2>1, <4>1 DEF Difficulty
      <4>3. gap = EmptyDifficulty - 1
        BY <3>2
      <4>. QED BY <1>7, <2>1, <3>1, <4>2, <4>3, EmptyBlockAssumption
    <3>3. CASE j \notin 1..k
      <4>1. g[j] = 0 /\ gap = 1
        BY <1>1, <1>5, <3>3
      <4>2. f[j] \in Nat /\ f[j] >= 1
        BY <2>1, <3>1, DifficultyType
      <4>. QED BY <1>7, <2>1, <3>1, <4>1, <4>2
    <3>. QED BY <3>2, <3>3
  <2>2. CASE i # j
    <3>1. v[i] = g[i] /\ u[i] = f[i] + e[i] /\ f[i] \in Nat
      BY <1>5, <2>2
    <3>2. CASE i > k
      <4>1. g[i] = 0 /\ e[i] = 0
        BY <1>1, <1>5, <3>2
      <4>. QED BY <3>1, <4>1
    <3>3. CASE i <= k /\ i <= m
      <4>1. /\ g[i] = Difficulty(d[i]) /\ f[i] = Difficulty(c[i]) /\ e[i] = 0
            /\ d[i] = Normal \/ d[i] = c[i]
        BY <1>1, <1>5, <3>3 DEF NoneOfItsOwn
      <4>2. Difficulty(d[i]) <= Difficulty(c[i])
        BY <4>1, EmptyBlockAssumption DEF Difficulty
      <4>. QED BY <3>1, <4>1, <4>2
    <3>4. CASE i <= k /\ i > m
      <4>1. g[i] = Difficulty(d[i]) /\ f[i] = 0 /\ e[i] = 1 /\ d[i] = Normal
        BY <1>1, <1>5, <3>4 DEF NoneOfItsOwn
      <4>. QED BY <3>1, <4>1 DEF Difficulty
    <3>. QED BY <1>1, <3>2, <3>3, <3>4
  <2>. QED BY <2>1, <2>2
<1> HIDE DEF N, D, f, g, e, u, v, more, gap
<1>9. j \in D
  BY <1>1
<1>10. SumFunctionOnSet(v, D) <= SumFunctionOnSet(u, D)
  BY <1>3, <1>6, <1>8, SumMonotone
<1>11. SumFunctionOnSet(u, D) = SumFunctionOnSet(f, D) + SumFunctionOnSet(e, D)
  BY <1>3, <1>6, SumPlus
<1>12. SumFunctionOnSet(v, D) = SumFunctionOnSet(g, D) + v[j] - g[j]
  <2>1. \A i \in D \ {j} : g[i] = v[i]
    BY <1>6
  <2>2. \A i \in D : g[i] \in Int /\ v[i] \in Int
    BY <1>6
  <2>. QED BY <1>3, <1>9, <2>1, <2>2, SumUpdate, Zenon
<1>13. SumFunctionOnSet(e, D) = 1 * Cardinality(more)
  <2>1. more \in SUBSET D
    BY <1>1 DEF more, D
  <2>. QED BY <1>3, <1>6, <2>1, SumCounts
<1>14. Td(d) + gap <= Td(c) + Cardinality(more)
  <2>1. g[j] \in Int /\ Cardinality(more) \in Nat
    BY <1>1, <1>3, <1>6
  <2>. QED BY <1>2, <1>4, <1>7, <1>10, <1>11, <1>12, <1>13, <2>1, SMTT(30)
<1>15. CASE k <= m
  <2>1. Cardinality(more) = 0 /\ gap >= 1
    BY <1>1, <1>3, <1>15, EmptyBlockAssumption DEF gap
  <2>. QED BY <1>1, <1>2, <1>4, <1>14, <1>15, <2>1
<1>16. CASE k > m
  <2>1. Cardinality(more) = k - m
    BY <1>3, <1>16
  <2>2. gap = EmptyDifficulty - 1
    BY <1>1, <1>16 DEF gap
  <2>. QED BY <1>1, <1>14, <1>16, <2>1, <2>2
<1>. QED BY <1>1, <1>15, <1>16

\* A node that goes over from c to d.
LEMMA ReorgNeeds ==
  ASSUME NEW c \in Seq(Links), NEW d \in Seq(Links), TRUE \in Reorg(c, d)
  PROVE  \/ IsPrefix(c, d)
         \/ \E i \in DOMAIN d : d[i] # Normal /\ (i \in DOMAIN c => d[i] # c[i])
         \/ Len(d) > Len(c) + EmptyDifficulty - 1
<1> SUFFICES ASSUME ~IsPrefix(c, d), NoneOfItsOwn(c, d),
                    ~(Len(d) > Len(c) + EmptyDifficulty - 1)
             PROVE  FALSE
  BY DEF NoneOfItsOwn
<1>1. /\ Len(c) \in Nat /\ Len(d) \in Nat /\ EmptyDifficulty \in Nat /\ EmptyDifficulty > 1
      /\ Td(c) \in Nat /\ Td(d) \in Nat
  <2>1. Len(c) \in Nat /\ Len(d) \in Nat
    OBVIOUS
  <2>. QED BY <2>1, TdOver, EmptyBlockAssumption
<1>2. /\ Td(d) # Td(c) => Td(d) > Td(c)
      /\ Td(d) = Td(c) /\ Len(d) # Len(c) => Len(d) < Len(c)
  BY Zenon DEF Reorg
<1>3. PICK j \in 1..Len(c) : j \in 1..Len(d) => c[j] # d[j]
  <2>1. CASE Len(d) < Len(c)
    <3>1. Len(c) \in 1..Len(c) /\ Len(c) \notin 1..Len(d)
      BY <1>1, <2>1
    <3>. QED BY <3>1
  <2>2. CASE Len(d) >= Len(c)
    <3>1. \E i \in 1..Len(c) : c[i] # d[i]
      BY <1>1, <2>2, PrefixIf
    <3>. QED BY <3>1
  <2>. QED BY <1>1, <2>1, <2>2
<1>4. /\ Len(d) <= Len(c) => Td(d) < Td(c)
      /\ Len(d) > Len(c) => Td(d) + (EmptyDifficulty - 1) <= Td(c) + (Len(d) - Len(c))
  BY <1>3, Lighter
<1>. QED BY <1>1, <1>2, <1>4

-----------------------------------------------------------------------------
(* The votes. *)

\* A vote that n has counted for a height was given for that height, and so was
\* each one in the votes that emptyLoop makes a block of.
CountedGiven ==
  /\ DOMAIN assembling = Stakers
  /\ \A n, s \in Stakers, h \in Heights : proofs[n][h][s] = 1 => <<n, h>> \in voted[s]
  /\ \A n, s \in Stakers :
       assembling[n] # None /\ assembling[n].votes[s] = 1 =>
         <<n, assembling[n].height>> \in voted[s]

IInv == TypeOK /\ CountedGiven /\ EmptyBlocksVoted

\* The votes that were given to author a at height h, in the record vs.
given(vs, a, h) == [s \in Stakers |-> IF <<a, h>> \in vs[s] THEN 1 ELSE 0]

LEMMA TargetType == targetSizeWithWeight \in Int
<1> DEFINE w == [s \in Stakers |-> Balance[s] * Coefficient[s]]
<1>1. \A s \in Stakers : w[s] \in Nat
  <2> SUFFICES ASSUME NEW s \in Stakers PROVE Balance[s] * Coefficient[s] \in Nat
    OBVIOUS
  <2>1. Balance[s] \in Nat /\ Coefficient[s] \in Nat
    BY EmptyBlockAssumption
  <2>. QED BY <2>1
<1>2. DOMAIN w = Stakers /\ IsFiniteSet(Stakers)
  BY EmptyBlockAssumption
<1> HIDE DEF w
<1>3. SumFunctionOnSet(w, Stakers) \in Nat
  BY <1>1, <1>2, SumNat
<1>4. SumFunction(w) \in Nat
  BY <1>2, <1>3 DEF SumFunction
<1>5. targetSizeWithWeight = (50 * SumFunction(w)) \div 100
  BY DEF targetSizeWithWeight, w
<1>. QED BY <1>4, <1>5

\* More votes weigh more.
LEMMA MoreVotes ==
  ASSUME NEW a \in [Stakers -> 0..1], NEW b \in [Stakers -> 0..1],
         \A s \in Stakers : a[s] = 1 => b[s] = 1,
         receiveSum(a) > targetSizeWithWeight
  PROVE  receiveSum(b) > targetSizeWithWeight
<1> DEFINE f == [s \in Stakers |-> a[s] * Balance[s] * FullCoefficient]
           g == [s \in Stakers |-> b[s] * Balance[s] * FullCoefficient]
<1>1. \A s \in Stakers : f[s] \in Int /\ g[s] \in Int /\ f[s] <= g[s]
  <2> SUFFICES ASSUME NEW s \in Stakers PROVE f[s] \in Int /\ g[s] \in Int /\ f[s] <= g[s]
    OBVIOUS
  <2>1. Balance[s] \in Nat /\ FullCoefficient \in Nat
    BY EmptyBlockAssumption
  <2>2. Balance[s] * FullCoefficient \in Nat
    BY <2>1
  <2>3. \A x \in 0..1 : x * Balance[s] * FullCoefficient
                          = IF x = 1 THEN Balance[s] * FullCoefficient ELSE 0
    BY <2>1
  <2>4. a[s] \in 0..1 /\ b[s] \in 0..1 /\ (a[s] = 1 => b[s] = 1)
    OBVIOUS
  <2>. QED BY <2>2, <2>3, <2>4
<1>2. DOMAIN f = Stakers /\ DOMAIN g = Stakers /\ IsFiniteSet(Stakers)
  BY EmptyBlockAssumption
<1>3. receiveSum(a) = SumFunction(f) /\ receiveSum(b) = SumFunction(g)
  BY DEF receiveSum
<1> HIDE DEF f, g
<1>4. SumFunctionOnSet(f, Stakers) <= SumFunctionOnSet(g, Stakers)
  BY <1>1, <1>2, SumMonotone
<1>5. SumFunctionOnSet(f, Stakers) \in Int /\ SumFunctionOnSet(g, Stakers) \in Int
  BY <1>1, <1>2, SumInt
<1>. QED BY <1>2, <1>3, <1>4, <1>5, TargetType DEF SumFunction

LEMMA InitHolds == Init => IInv
<1> SUFFICES ASSUME Init PROVE IInv
  OBVIOUS
<1>1. TypeOK
  <2>1. proofs \in [Stakers -> [Heights -> [Stakers -> 0..1]]]
    BY DEF Init, NoVotes
  <2>. QED BY <2>1 DEF Init, TypeOK
<1>2. CountedGiven
  BY DEF Init, CountedGiven, NoVotes
<1>3. EmptyBlocksVoted
  BY DEF Init, EmptyBlocksVoted
<1>. QED BY <1>1, <1>2, <1>3 DEF IInv

LEMMA ChainTypes ==
  ASSUME TypeOK
  PROVE  /\ \A c \in blocks : c \in Seq(Links) /\ Len(c) \in Heights
         /\ \A n \in Stakers : chain[n] \in Seq(Links) /\ Len(chain[n]) \in 0..MaxHeight
<1>1. \A c \in blocks : c \in Seq(Links) /\ Len(c) \in Heights
  <2> SUFFICES ASSUME NEW c \in blocks PROVE c \in Seq(Links) /\ Len(c) \in Heights
    OBVIOUS
  <2>1. PICK h \in Heights : c \in [1..h -> Links]
    BY DEF TypeOK, Links
  <2>2. h \in Nat
    BY EmptyBlockAssumption DEF Heights
  <2>. QED BY <2>1, <2>2, ChainIsSeq
<1>2. ASSUME NEW n \in Stakers
      PROVE  chain[n] \in Seq(Links) /\ Len(chain[n]) \in 0..MaxHeight
  <2>1. chain[n] \in blocks \/ chain[n] = << >>
    BY DEF TypeOK
  <2>2. CASE chain[n] \in blocks
    BY <1>1, <2>2, EmptyBlockAssumption DEF Heights
  <2>3. CASE chain[n] = << >>
    BY <2>3, EmptyBlockAssumption
  <2>. QED BY <2>1, <2>2, <2>3
<1>. QED BY <1>1, <1>2

\* The next block of a chain that is not full.
LEMMA NextBlock ==
  ASSUME TypeOK, NEW n \in Stakers, Height(n) <= MaxHeight, NEW b \in Links
  PROVE  /\ Append(chain[n], b) \in UNION {[1..h -> Stakers \cup {Normal}] : h \in Heights}
         /\ Len(Append(chain[n], b)) = Height(n) /\ Height(n) \in Heights
         /\ Append(chain[n], b)[Len(Append(chain[n], b))] = b
<1>1. chain[n] \in Seq(Links) /\ Len(chain[n]) \in 0..MaxHeight /\ MaxHeight \in Nat
  BY ChainTypes, EmptyBlockAssumption
<1>2. Height(n) \in Heights /\ Height(n) = Len(chain[n]) + 1
  BY <1>1 DEF Height, Heights
<1>3. /\ Append(chain[n], b) \in [1..(Len(chain[n]) + 1) -> Links]
      /\ Len(Append(chain[n], b)) = Len(chain[n]) + 1
      /\ Append(chain[n], b)[Len(chain[n]) + 1] = b
  BY <1>1, ChainGrows
<1>4. Append(chain[n], b) \in [1..Height(n) -> Stakers \cup {Normal}]
  BY <1>2, <1>3 DEF Links
<1>5. Append(chain[n], b) \in UNION {[1..h -> Stakers \cup {Normal}] : h \in Heights}
  BY <1>2, <1>4
<1>. QED BY <1>2, <1>3, <1>5

\* What EmptyBlocksVoted says of one chain, with the votes vs.
Voted(vs, c) ==
  c[Len(c)] # Normal => receiveSum(given(vs, c[Len(c)], Len(c))) > targetSizeWithWeight

LEMMA VotedMeans == EmptyBlocksVoted <=> \A c \in blocks : Voted(voted, c)
BY DEF EmptyBlocksVoted, Voted, given

LEMMA VotedMeansNext == EmptyBlocksVoted' <=> \A c \in blocks' : Voted(voted', c)
BY DEF EmptyBlocksVoted, Voted, given

\* Votes are not taken back.
LEMMA VotedLasts ==
  ASSUME NEW vs, NEW ws, \A s \in Stakers : vs[s] \subseteq ws[s], NEW c, Voted(vs, c)
  PROVE  Voted(ws, c)
<1> SUFFICES ASSUME c[Len(c)] # Normal
             PROVE  receiveSum(given(ws, c[Len(c)], Len(c))) > targetSizeWithWeight
  BY DEF Voted
<1> DEFINE a == given(vs, c[Len(c)], Len(c))
           b == given(ws, c[Len(c)], Len(c))
<1>1. a \in [Stakers -> 0..1] /\ b \in [Stakers -> 0..1]
  BY DEF given
<1>2. \A s \in Stakers : a[s] = 1 => b[s] = 1
  BY DEF given
<1>3. receiveSum(a) > targetSizeWithWeight
  BY DEF Voted
<1> HIDE DEF a, b
<1>4. receiveSum(b) > targetSizeWithWeight
  BY <1>1, <1>2, <1>3, MoreVotes
<1>. QED BY <1>4 DEF b

\* The timer and the end of a phase, and a step that stutters.
LEMMA PhaseKeeps ==
  ASSUME IInv, UNCHANGED <<chainVars, voteVars>>, isEmpty' \in [Stakers -> BOOLEAN]
  PROVE  IInv'
<1>1. /\ chain' = chain /\ blocks' = blocks /\ voted' = voted /\ proofs' = proofs
      /\ assembling' = assembling
  BY DEF chainVars, voteVars
<1>2. TypeOK'
  BY <1>1 DEF IInv, TypeOK
<1>3. CountedGiven'
  BY <1>1 DEF IInv, CountedGiven
<1>4. EmptyBlocksVoted'
  BY <1>1, Zenon DEF IInv, EmptyBlocksVoted
<1>. QED BY <1>2, <1>3, <1>4 DEF IInv

LEMMA VoteKeeps ==
  ASSUME IInv, NEW n \in Stakers, NEW s \in Stakers, vote(n, s)
  PROVE  IInv'
<1>1. /\ chain' = chain /\ blocks' = blocks /\ isEmpty' = isEmpty /\ proofs' = proofs
      /\ assembling' = assembling /\ TypeOK /\ Height(n) <= MaxHeight
      /\ voted' = [voted EXCEPT ![n] = voted[n] \cup {<<s, Height(n)>>}]
  BY DEF vote, chainVars, IInv
<1>2. Height(n) \in Heights
  BY <1>1, NextBlock DEF Links
<1>3. /\ voted' \in [Stakers -> SUBSET (Stakers \X Heights)]
      /\ \A q \in Stakers : voted[q] \subseteq voted'[q]
  BY <1>1, <1>2 DEF TypeOK
<1>4. TypeOK'
  BY <1>1, <1>3 DEF TypeOK
<1>5. CountedGiven'
  BY <1>1, <1>3 DEF IInv, CountedGiven
<1>6. EmptyBlocksVoted'
  BY <1>1, <1>3, VotedMeans, VotedMeansNext, VotedLasts, Zenon DEF IInv
<1>. QED BY <1>4, <1>5, <1>6 DEF IInv

\* ClearPrev only takes votes away.
LEMMA ClearKeeps ==
  ASSUME NEW pool \in [Heights -> [Stakers -> 0..1]], NEW c
  PROVE  /\ ClearPrev(pool, c) \in [Heights -> [Stakers -> 0..1]]
         /\ \A h \in Heights, s \in Stakers : ClearPrev(pool, c)[h][s] = 1 => pool[h][s] = 1
<1>1. NoVotes \in [Stakers -> 0..1] /\ \A s \in Stakers : NoVotes[s] = 0
  BY DEF NoVotes
<1>2. DOMAIN pool = Heights
  OBVIOUS
<1>. QED BY <1>1, <1>2 DEF ClearPrev

LEMMA GatherKeeps ==
  ASSUME IInv, NEW n \in Stakers, NEW s \in Stakers, NEW h \in Heights, gatherVote(n, s, h)
  PROVE  IInv'
<1> DEFINE pool == [proofs[n] EXCEPT ![h][s] = proofs[n][h][s] + 1]
           clear == ClearPrev(pool, chain[n])
<1>1. /\ chain' = chain /\ blocks' = blocks /\ isEmpty' = isEmpty /\ voted' = voted
      /\ TypeOK /\ CountedGiven /\ EmptyBlocksVoted
      /\ <<n, h>> \in voted[s] /\ proofs[n][h][s] = 0
  BY DEF gatherVote, chainVars, IInv, IsNew
<1>2. \/ /\ assembling' = [assembling EXCEPT ![n] = [height |-> h, votes |-> pool[h]]]
         /\ proofs' = [proofs EXCEPT ![n] = pool]
      \/ /\ assembling' = assembling
         /\ proofs' = [proofs EXCEPT ![n] = clear]
  BY DEF gatherVote
<1>3. proofs \in [Stakers -> [Heights -> [Stakers -> 0..1]]] /\ DOMAIN assembling = Stakers
  BY <1>1 DEF TypeOK, CountedGiven
<1>4. /\ pool \in [Heights -> [Stakers -> 0..1]]
      /\ \A k \in Heights, q \in Stakers : pool[k][q] = 1 => <<n, k>> \in voted[q]
  <2>1. proofs[n] \in [Heights -> [Stakers -> 0..1]] /\ proofs[n][h][s] + 1 = 1
    BY <1>1, <1>3
  <2>2. \A k \in Heights, q \in Stakers : pool[k][q] = IF k = h /\ q = s THEN 1 ELSE proofs[n][k][q]
    BY <2>1
  <2>3. pool \in [Heights -> [Stakers -> 0..1]]
    <3>1. [proofs[n][h] EXCEPT ![s] = 1] \in [Stakers -> 0..1]
      BY <2>1
    <3>. QED BY <2>1, <3>1
  <2>4. ASSUME NEW k \in Heights, NEW q \in Stakers, pool[k][q] = 1 PROVE <<n, k>> \in voted[q]
    <3>1. CASE k = h /\ q = s
      BY <1>1, <3>1
    <3>2. CASE ~(k = h /\ q = s)
      BY <1>1, <2>2, <2>4, <3>2 DEF CountedGiven
    <3>. QED BY <3>1, <3>2
  <2>. QED BY <2>3, <2>4
<1> HIDE DEF pool
<1>5. /\ clear \in [Heights -> [Stakers -> 0..1]]
      /\ \A k \in Heights, q \in Stakers : clear[k][q] = 1 => <<n, k>> \in voted[q]
  BY <1>4, ClearKeeps
<1> HIDE DEF clear
<1>6. PICK now \in {pool, clear} : proofs' = [proofs EXCEPT ![n] = now]
  BY <1>2
<1>7. proofs' \in [Stakers -> [Heights -> [Stakers -> 0..1]]]
  BY <1>3, <1>4, <1>5, <1>6, Zenon
<1>8. \A m, q \in Stakers, k \in Heights : proofs'[m][k][q] = 1 => <<m, k>> \in voted'[q]
  <2> SUFFICES ASSUME NEW m \in Stakers, NEW q \in Stakers, NEW k \in Heights, proofs'[m][k][q] = 1
               PROVE  <<m, k>> \in voted[q]
    BY <1>1
  <2>1. CASE m = n
    BY <1>3, <1>4, <1>5, <1>6, <2>1, Zenon
  <2>2. CASE m # n
    BY <1>1, <1>3, <1>6, <2>2, Zenon DEF CountedGiven
  <2>. QED BY <2>1, <2>2
<1> DEFINE record == [height |-> h, votes |-> pool[h]]
<1>9. /\ record \in [height : Heights, votes : [Stakers -> 0..1]]
      /\ record.height = h /\ record.votes = pool[h]
  BY <1>4
<1>10. \A m \in Stakers : assembling'[m] = assembling[m] \/ (m = n /\ assembling'[m] = record)
  BY <1>2, <1>3
<1> HIDE DEF record
<1>11. \A m \in Stakers :
         assembling'[m] \in {None} \cup [height : Heights, votes : [Stakers -> 0..1]]
  BY <1>1, <1>9, <1>10, Zenon DEF TypeOK
<1>12. \A m, q \in Stakers : assembling'[m] # None /\ assembling'[m].votes[q] = 1 =>
                               <<m, assembling'[m].height>> \in voted'[q]
  <2> SUFFICES ASSUME NEW m \in Stakers, NEW q \in Stakers,
                      assembling'[m] # None, assembling'[m].votes[q] = 1
               PROVE  <<m, assembling'[m].height>> \in voted[q]
    BY <1>1
  <2>1. CASE assembling'[m] = assembling[m]
    BY <1>1, <2>1 DEF CountedGiven
  <2>2. CASE m = n /\ assembling'[m] = record
    BY <1>4, <1>9, <2>2, Zenon
  <2>. QED BY <1>10, <2>1, <2>2
<1>13. DOMAIN assembling' = Stakers
  BY <1>2, <1>3, Zenon
<1>14. TypeOK'
  BY <1>1, <1>7, <1>11, Zenon DEF TypeOK
<1>15. CountedGiven'
  BY <1>8, <1>12, <1>13, Zenon DEF CountedGiven
<1>16. EmptyBlocksVoted'
  BY <1>1 DEF EmptyBlocksVoted
<1>. QED BY <1>14, <1>15, <1>16 DEF IInv

LEMMA CommitKeeps ==
  ASSUME IInv, NEW n \in Stakers, commitEmptyWork(n)
  PROVE  IInv'
<1> DEFINE new == Append(chain[n], n)
           certificate == assembling[n]
<1>1. /\ isEmpty' = [isEmpty EXCEPT ![n] = FALSE] /\ voted' = voted
      /\ assembling' = [assembling EXCEPT ![n] = None] /\ certificate # None
      /\ proofs' = [proofs EXCEPT ![n] = ClearPrev(proofs[n], chain'[n])]
      /\ TypeOK /\ CountedGiven /\ EmptyBlocksVoted
  BY DEF commitEmptyWork, IInv
<1>2. /\ isEmpty' \in [Stakers -> BOOLEAN] /\ DOMAIN assembling' = Stakers
      /\ DOMAIN assembling = Stakers
  BY <1>1 DEF TypeOK, CountedGiven
<1>3. proofs' \in [Stakers -> [Heights -> [Stakers -> 0..1]]]
      /\ \A m, q \in Stakers, k \in Heights : proofs'[m][k][q] = 1 => proofs[m][k][q] = 1
  <2>1. /\ proofs \in [Stakers -> [Heights -> [Stakers -> 0..1]]]
        /\ proofs[n] \in [Heights -> [Stakers -> 0..1]]
    BY <1>1 DEF TypeOK
  <2> DEFINE clear == ClearPrev(proofs[n], chain'[n])
  <2>2. /\ clear \in [Heights -> [Stakers -> 0..1]]
        /\ \A k \in Heights, q \in Stakers : clear[k][q] = 1 => proofs[n][k][q] = 1
    BY <2>1, ClearKeeps, Zenon
  <2>3. proofs' = [proofs EXCEPT ![n] = clear]
    BY <1>1
  <2> HIDE DEF clear
  <2>. QED BY <2>1, <2>2, <2>3
<1>4. \A m \in Stakers : assembling'[m] = None \/ (m # n /\ assembling'[m] = assembling[m])
  BY <1>1, <1>2
<1>5. CountedGiven'
  BY <1>1, <1>2, <1>3, <1>4 DEF CountedGiven
<1>6. \A m \in Stakers :
        assembling'[m] \in {None} \cup [height : Heights, votes : [Stakers -> 0..1]]
  BY <1>1, <1>4 DEF TypeOK
<1>7. CASE UNCHANGED chainVars
  <2>1. chain' = chain /\ blocks' = blocks
    BY <1>7, Zenon DEF chainVars
  <2>2. TypeOK'
    BY <1>1, <1>2, <1>3, <1>6, <2>1 DEF TypeOK
  <2>3. EmptyBlocksVoted'
    BY <1>1, <2>1 DEF EmptyBlocksVoted
  <2>. QED BY <1>5, <2>2, <2>3 DEF IInv
<1>8. CASE /\ Height(n) <= MaxHeight /\ verifyEmptyVote(Height(n), certificate)
           /\ chain' = [chain EXCEPT ![n] = new] /\ blocks' = blocks \cup {new}
  <2>1. /\ new \in UNION {[1..h -> Stakers \cup {Normal}] : h \in Heights}
        /\ Len(new) = Height(n) /\ new[Len(new)] = n
    BY <1>1, <1>8, NextBlock, Zenon DEF Links
  <2> HIDE DEF new
  <2>2. chain' \in [Stakers -> blocks' \cup {<< >>}]
    BY <1>1, <1>8, Zenon DEF TypeOK
  <2>3. TypeOK'
    BY <1>1, <1>2, <1>3, <1>6, <1>8, <2>1, <2>2, SMTT(30) DEF TypeOK
  <2>4. Voted(voted', new)
    <3> DEFINE a == certificate.votes
               b == given(voted, n, Height(n))
    <3>1. certificate.height = Height(n) /\ receiveSum(a) > targetSizeWithWeight
      BY <1>8 DEF verifyEmptyVote
    <3>2. a \in [Stakers -> 0..1]
      BY <1>1 DEF TypeOK
    <3>3. b \in [Stakers -> 0..1]
      BY DEF given
    <3>4. \A s \in Stakers : a[s] = 1 => <<n, Height(n)>> \in voted[s]
      BY <1>1, <3>1 DEF CountedGiven
    <3>5. \A s \in Stakers : a[s] = 1 => b[s] = 1
      BY <3>4 DEF given
    <3> HIDE DEF a, b
    <3>6. receiveSum(b) > targetSizeWithWeight
      BY <3>1, <3>2, <3>3, <3>5, MoreVotes
    <3>. QED BY <1>1, <2>1, <3>6, Zenon DEF Voted, b
  <2>5. EmptyBlocksVoted'
    BY <1>1, <1>8, <2>4, VotedMeans, VotedMeansNext, Zenon
  <2>. QED BY <1>5, <2>3, <2>5, Zenon DEF IInv
<1>. QED BY <1>7, <1>8, Zenon DEF commitEmptyWork

LEMMA NormalKeeps ==
  ASSUME IInv, NEW n \in Stakers, normalBlock(n)
  PROVE  IInv'
<1> DEFINE new == Append(chain[n], Normal)
<1>1. /\ blocks' = blocks \cup {new} /\ chain' = chain /\ isEmpty' = isEmpty /\ voted' = voted
      /\ proofs' = proofs /\ assembling' = assembling /\ Height(n) <= MaxHeight
      /\ TypeOK /\ CountedGiven /\ EmptyBlocksVoted
  BY DEF normalBlock, voteVars, IInv
<1>2. /\ new \in UNION {[1..h -> Stakers \cup {Normal}] : h \in Heights}
      /\ new[Len(new)] = Normal
  BY <1>1, NextBlock DEF Links
<1> HIDE DEF new
<1>3. TypeOK'
  <2>1. chain' \in [Stakers -> blocks' \cup {<< >>}]
    BY <1>1 DEF TypeOK
  <2>. QED BY <1>1, <1>2, <2>1, Zenon DEF TypeOK
<1>4. CountedGiven'
  BY <1>1 DEF CountedGiven
<1>5. EmptyBlocksVoted'
  <2>1. Voted(voted', new)
    BY <1>2 DEF Voted
  <2>. QED BY <1>1, <2>1, VotedMeans, VotedMeansNext, Zenon
<1>. QED BY <1>3, <1>4, <1>5, Zenon DEF IInv

LEMMA ImportKeeps ==
  ASSUME IInv, NEW n \in Stakers, NEW c \in blocks, importBlock(n, c)
  PROVE  IInv'
<1>1. /\ chain' = [chain EXCEPT ![n] = c] /\ blocks' = blocks /\ isEmpty' = isEmpty
      /\ voted' = voted /\ proofs' = proofs /\ assembling' = assembling
      /\ TypeOK /\ CountedGiven /\ EmptyBlocksVoted
  BY DEF importBlock, voteVars, IInv
<1>2. chain' \in [Stakers -> blocks' \cup {<< >>}]
  BY <1>1 DEF TypeOK
<1>3. TypeOK'
  BY <1>1, <1>2 DEF TypeOK
<1>4. CountedGiven' /\ EmptyBlocksVoted'
  BY <1>1 DEF CountedGiven, EmptyBlocksVoted
<1>. QED BY <1>3, <1>4 DEF IInv

LEMMA NextKeeps == IInv /\ [Next]_vars => IInv'
<1> SUFFICES ASSUME IInv, [Next]_vars PROVE IInv'
  OBVIOUS
<1>1. CASE UNCHANGED vars
  BY <1>1, PhaseKeeps DEF vars, IInv, TypeOK
<1>2. ASSUME NEW n \in Stakers, emptyTimeout(n) \/ resetEmptyCondition(n) PROVE IInv'
  <2>1. UNCHANGED <<chainVars, voteVars>>
    BY <1>2 DEF emptyTimeout, resetEmptyCondition
  <2>2. isEmpty' \in [Stakers -> BOOLEAN]
    BY <1>2, Zenon DEF emptyTimeout, resetEmptyCondition, IInv, TypeOK
  <2>. QED BY <2>1, <2>2, PhaseKeeps, Zenon
<1>. QED BY <1>1, <1>2, VoteKeeps, GatherKeeps, CommitKeeps, NormalKeeps, ImportKeeps, SMTT(30) DEF Next

-----------------------------------------------------------------------------
(* The properties. *)

\* What OnlyEmptyBlocksUndo asks of a step of node n.
GoesOn(n) ==
  \/ IsPrefix(chain[n], chain'[n])
  \/ \E i \in DOMAIN chain'[n] :
       /\ chain'[n][i] # Normal
       /\ i \in DOMAIN chain[n] => chain'[n][i] # chain[n][i]
  \/ Len(chain'[n]) > Len(chain[n]) + EmptyDifficulty - 1

LEMMA StepGoesOn ==
  ASSUME TypeOK, Next, NEW n \in Stakers
  PROVE  GoesOn(n)
<1>1. /\ chain[n] \in Seq(Links) /\ DOMAIN chain = Stakers
      /\ \A c \in blocks : c \in Seq(Links)
  BY ChainTypes DEF TypeOK
<1>2. CASE chain'[n] = chain[n]
  <2>1. IsPrefix(chain[n], chain[n])
    <3>1. Len(chain[n]) <= Len(chain[n])
      BY <1>1
    <3>. QED BY <1>1, <3>1, PrefixIf, Zenon
  <2>. QED BY <1>2, <2>1, Zenon DEF GoesOn
<1>3. ASSUME commitEmptyWork(n) PROVE GoesOn(n)
  <2>1. chain'[n] = chain[n] \/ chain'[n] = Append(chain[n], n)
    BY <1>1, <1>3, Zenon DEF commitEmptyWork, chainVars
  <2>2. CASE chain'[n] = Append(chain[n], n)
    <3> DEFINE c == chain[n]
               d == Append(c, n)
    <3>1. d \in Seq(Links) /\ Len(c) <= Len(d) /\ \A i \in 1..Len(c) : c[i] = d[i]
      <4>1. n \in Links
        BY DEF Links
      <4>2. d \in Seq(Links) /\ Len(c) \in Nat /\ Len(d) = Len(c) + 1
        BY <1>1, <4>1
      <4>3. \A i \in 1..Len(c) : d[i] = c[i]
        BY <1>1, <4>1, ChainGrows, SMTT(30)
      <4>. QED BY <4>2, <4>3
    <3> HIDE DEF d
    <3>2. IsPrefix(c, d)
      BY <1>1, <3>1, PrefixIf, Zenon
    <3>. QED BY <2>2, <3>2, Zenon DEF GoesOn, d
  <2>. QED BY <1>2, <2>1, <2>2, Zenon
<1>4. ASSUME NEW c \in blocks, importBlock(n, c) PROVE GoesOn(n)
  <2>1. chain'[n] = c /\ TRUE \in Reorg(chain[n], c) /\ c \in Seq(Links)
    BY <1>1, <1>4, Zenon DEF importBlock
  <2>. QED BY <1>1, <2>1, ReorgNeeds, Zenon DEF GoesOn
<1>5. ASSUME NEW m \in Stakers, m # n, commitEmptyWork(m) \/ \E c \in blocks : importBlock(m, c)
      PROVE  chain'[n] = chain[n]
  BY <1>1, <1>5, Zenon DEF commitEmptyWork, importBlock, chainVars
<1>6. ASSUME NEW m \in Stakers,
             \/ emptyTimeout(m) \/ resetEmptyCondition(m) \/ normalBlock(m)
             \/ \E s \in Stakers : vote(m, s) \/ \E h \in Heights : gatherVote(m, s, h)
      PROVE  chain'[n] = chain[n]
  BY <1>6, Zenon DEF emptyTimeout, resetEmptyCondition, normalBlock, vote, gatherVote, chainVars
<1>. QED BY <1>2, <1>3, <1>4, <1>5, <1>6 DEF Next

\* The votes that the workers keep for a height count each staker at most once,
\* chains stay within their heights, and a node's chain is one it was sent.
THEOREM VotesCountOnce == Spec => []TypeOK
<1>1. IInv => TypeOK
  BY DEF IInv
<1>. QED BY <1>1, InitHolds, NextKeeps, PTL DEF Spec

\* Behind every empty block that verifyEmptyVote let through there are votes of
\* stakers, given for that very author and height, that outweigh the target.
THEOREM VotesStandBehind == Spec => []EmptyBlocksVoted
<1>1. IInv => EmptyBlocksVoted
  BY DEF IInv
<1>. QED BY <1>1, InitHolds, NextKeeps, PTL DEF Spec

\* writeBlockWithState undoes blocks only for a branch with an empty block of
\* its own, or for one that is so much longer that it outweighs an empty block.
THEOREM ReorgsHaveACause == Spec => OnlyEmptyBlocksUndo
<1>1. TypeOK /\ [Next]_vars => [\A n \in Stakers : GoesOn(n)]_vars
  BY StepGoesOn
<1>2. [][\A n \in Stakers : GoesOn(n)]_vars => OnlyEmptyBlocksUndo
  BY PTL DEF OnlyEmptyBlocksUndo, GoesOn
<1>. QED BY <1>1, <1>2, VotesCountOnce, PTL DEF Spec
=============================================================================
