---------------------------- MODULE RoundProofs ----------------------------
(***************************************************************************)
(* Rounds of the IBFT core, for every set of validators and any number of   *)
(* rounds.  Round changes: nobody works in a round that no quorum asked     *)
(* for, and nobody waits for a round with a quorum of ROUND CHANGEs at      *)
(* hand.  Locks: what a lock rests on, that it outlives round changes, and  *)
(* that a core prepares one block per view.  At the end, where the theorems *)
(* on finite sets come in: no two validators commit different blocks, and   *)
(* the chains implement the ledger.                                         *)
(***************************************************************************)
EXTENDS IbftCoreProofs

\* The validators whose ROUND CHANGE to a round of a height is among the messages M.
Askers(M, seq, round) ==
  {m.src : m \in {k \in M : k.type = "RoundChange" /\ k.seq = seq /\ k.round = round}}

\* No round that n could still enter has a quorum in its round change set.
FewAsk ==
  \A n \in Validators, r \in Rounds :
    r > current[n].round \/ (waitingForRoundChange[n] /\ r = current[n].round) =>
      Cardinality(roundChangeSet[n][r]) < QuorumSize(valSet)

-----------------------------------------------------------------------------
(* Counting.                                                                *)

\* All that the rounds and the locks take from the counting of validators.
Counting ==
  /\ Cardinality({}) = 0
  /\ \A T \in SUBSET Validators :
       /\ Cardinality(T) \in Nat
       /\ \A S \in SUBSET T : Cardinality(S) <= Cardinality(T)
       /\ \A v \in Validators : Cardinality(T \cup {v}) <= Cardinality(T) + 1

LEMMA Counted ==
  ASSUME Counting, NEW T \in SUBSET Validators, NEW S \in SUBSET T
  PROVE  /\ Cardinality(S) \in Nat /\ Cardinality(T) \in Nat
         /\ Cardinality(S) <= Cardinality(T)
BY DEF Counting

LEMMA CountedOne ==
  ASSUME Counting, NEW T \in SUBSET Validators, NEW v \in Validators
  PROVE  /\ Cardinality(T) \in Nat /\ Cardinality(T \cup {v}) \in Nat
         /\ Cardinality(T \cup {v}) <= Cardinality(T) + 1
BY Zenon DEF Counting

LEMMA CountedNone == ASSUME Counting PROVE Cardinality({}) = 0
BY DEF Counting

-----------------------------------------------------------------------------
(* What a step does to the rounds.                                          *)

\* Nothing, but that messages are sent.
SameRounds ==
  /\ UNCHANGED <<waitingForRoundChange, roundChangeSet>> /\ msgs \subseteq msgs'
  /\ \A q \in Validators : /\ current'[q].sequence = current[q].sequence
                           /\ current'[q].round = current[q].round

\* n starts at round 0 of the height after its chain's head.
NewHeight(n) ==
  /\ enterRound(n, newRoundState(lastNumber(n) + 1, 0, None, None, None))
  /\ UNCHANGED msgs

LEMMA StepKinds ==
  ASSUME TypeOK, [Next]_vars
  PROVE  \/ SameRounds
         \/ \E n \in Validators, r \in Rounds : sendRoundChange(n, r, roundChangeSet[n])
         \/ \E n \in Validators, m \in msgs : handleRoundChange(n, m)
         \/ \E n \in Validators : NewHeight(n)
<1>StartAtZero. ASSUME TypeOK, NEW n \in Validators, startNewRound(n, 0)
      PROVE  NewHeight(n)
  BY <1>StartAtZero DEF startNewRound, NewHeight
<1>SameRoundsOf. ASSUME TypeOK, NEW n \in Validators, NEW cur,
             cur.sequence = current[n].sequence, cur.round = current[n].round,
             current' = [current EXCEPT ![n] = cur], msgs \subseteq msgs',
             UNCHANGED <<waitingForRoundChange, roundChangeSet>>
      PROVE  SameRounds
  BY <1>SameRoundsOf DEF SameRounds, TypeOK
<1>SendCommitGrows. ASSUME NEW n, NEW cur, sendCommit(n, cur)
      PROVE  msgs \subseteq msgs'
  BY <1>SendCommitGrows DEF sendCommit
<1> DEFINE Goal == \/ SameRounds
                   \/ \E n \in Validators, r \in Rounds : sendRoundChange(n, r, roundChangeSet[n])
                   \/ \E n \in Validators, m \in msgs : handleRoundChange(n, m)
                   \/ \E n \in Validators : NewHeight(n)
<1>1. Started \subseteq Validators /\ \A n \in Validators : current[n] \in RoundState
  BY StartedAssumption, Parts
<1>2. ASSUME NEW n \in Started, NEW b \in Proposals, handleRequest(n, b) PROVE Goal
  <2> DEFINE cur == [current[n] EXCEPT !.pendingRequest = b]
  <2>1. cur.sequence = current[n].sequence /\ cur.round = current[n].round
    BY <1>1 DEF RoundState
  <2>2. /\ current' = [current EXCEPT ![n] = cur] /\ msgs \subseteq msgs'
        /\ UNCHANGED <<waitingForRoundChange, roundChangeSet>>
    BY <1>2 DEF handleRequest
  <2> QED BY <1>1, <2>1, <2>2, <1>SameRoundsOf, Zenon
<1>3. ASSUME NEW n \in Started, NEW m \in msgs, handlePreprepare(n, m) PROVE Goal
  <2> DEFINE cur == [current[n] EXCEPT !.preprepare = m.digest]
  <2>1. cur.sequence = current[n].sequence /\ cur.round = current[n].round
    BY <1>1 DEF RoundState
  <2>2. \/ sendNextRoundChange(n)
        \/ /\ current' = [current EXCEPT ![n] = cur]
           /\ UNCHANGED <<waitingForRoundChange, roundChangeSet>>
           /\ sendCommit(n, cur) \/ msgs \subseteq msgs'
    BY <1>3 DEF handlePreprepare
  <2>3. CASE sendNextRoundChange(n)
    BY <1>1, <2>3 DEF sendNextRoundChange, sendRoundChange
  <2> QED BY <1>1, <2>1, <2>2, <2>3, <1>SameRoundsOf, <1>SendCommitGrows, Zenon
<1>4. ASSUME NEW n \in Started, NEW m \in msgs, handlePrepare(n, m) PROVE Goal
  <2> DEFINE cur == [current[n] EXCEPT !.prepares = @ \cup {m.src}]
             locked == [cur EXCEPT !.lockedHash = cur.preprepare]
  <2>1. /\ cur.sequence = current[n].sequence /\ cur.round = current[n].round
        /\ locked.sequence = current[n].sequence /\ locked.round = current[n].round
    BY <1>1 DEF RoundState
  <2>2. /\ current' = [current EXCEPT ![n] = cur] \/ current' = [current EXCEPT ![n] = locked]
        /\ UNCHANGED <<waitingForRoundChange, roundChangeSet>>
        /\ sendCommit(n, cur) \/ msgs \subseteq msgs'
    BY <1>4 DEF handlePrepare
  <2> QED BY <1>1, <2>1, <2>2, <1>SameRoundsOf, <1>SendCommitGrows, Zenon
<1>5. ASSUME NEW n \in Started, NEW m \in msgs, handleCommit(n, m) PROVE Goal
  <2> DEFINE cur == [current[n] EXCEPT !.commits = @ \cup {m.src}]
             locked == [cur EXCEPT !.lockedHash = cur.preprepare]
  <2>1. /\ cur.sequence = current[n].sequence /\ cur.round = current[n].round
        /\ locked.sequence = current[n].sequence /\ locked.round = current[n].round
    BY <1>1 DEF RoundState
  <2>2. /\ current' = [current EXCEPT ![n] = cur] \/ current' = [current EXCEPT ![n] = locked]
        /\ UNCHANGED <<waitingForRoundChange, roundChangeSet, msgs>>
    BY <1>5 DEF handleCommit
  <2> QED BY <1>1, <2>1, <2>2, <1>SameRoundsOf, Zenon
<1>6. ASSUME NEW n \in Started, handleTimeoutMsg(n) \/ handleFinalCommitted(n) PROVE Goal
  <2>1. \/ \E r \in Rounds : sendRoundChange(n, r, roundChangeSet[n])
        \/ startNewRound(n, 0)
    BY <1>6 DEF handleTimeoutMsg, handleFinalCommitted, sendNextRoundChange,
                sendRoundChange, catchUpRounds
  <2> QED BY <1>1, <2>1, <1>StartAtZero
<1>7. ASSUME NEW n \in Started, \/ \E b \in enqueued[n] : insertBlock(n, b)
                                \/ \E p \in Started : importBlock(n, p)
      PROVE  Goal
  BY <1>7 DEF insertBlock, importBlock, coreVars, SameRounds
<1>8. ASSUME NEW n \in Started, Restart(n) PROVE Goal
  BY <1>1, <1>8 DEF Restart, NewHeight
<1>9. CASE UNCHANGED vars
  BY <1>9 DEF vars, coreVars, SameRounds
<1> QED BY <1>1, <1>2, <1>3, <1>4, <1>5, <1>6, <1>7, <1>8, <1>9 DEF Next, handleEvents

\* Askers are validators, and there are only more of them as messages are sent.
LEMMA AskersGrow ==
  ASSUME Counting, NEW M \in SUBSET Message, NEW K \in SUBSET Message, M \subseteq K, NEW s, NEW r
  PROVE  /\ Askers(M, s, r) \subseteq Askers(K, s, r)
         /\ Askers(K, s, r) \in SUBSET Validators
         /\ Cardinality(Askers(M, s, r)) \in Nat /\ Cardinality(Askers(K, s, r)) \in Nat
         /\ Cardinality(Askers(M, s, r)) <= Cardinality(Askers(K, s, r))
<1>1. Askers(M, s, r) \subseteq Askers(K, s, r)
  BY DEF Askers
<1>2. Askers(K, s, r) \subseteq Validators
  BY DEF Askers, Message
<1> QED BY <1>1, <1>2, Counted

-----------------------------------------------------------------------------
(* A round above 0 has a quorum of askers.                                  *)

\* RoundHasQuorum for one validator, and that its round change set holds only
\* senders of its height.
RoundAsked(n) ==
  /\ ~ waitingForRoundChange[n] /\ current[n].round > 0 =>
       Cardinality(Askers(msgs, current[n].sequence, current[n].round)) >= QuorumSize(valSet)
  /\ \A r \in Rounds : roundChangeSet[n][r] \subseteq Askers(msgs, current[n].sequence, r)

AskInv == TypeOK /\ \A n \in Validators : RoundAsked(n)

LEMMA NextAsked ==
  ASSUME Counting PROVE Inv1 /\ AskInv /\ [Next]_vars => AskInv'
\* What others do leaves n's part alone.
<1>OthersAsked. ASSUME Counting, AskInv, TypeOK', NEW q \in Validators, msgs \subseteq msgs',
             current'[q].sequence = current[q].sequence,
             current'[q].round = current[q].round,
             waitingForRoundChange'[q] = waitingForRoundChange[q],
             roundChangeSet'[q] = roundChangeSet[q]
      PROVE  RoundAsked(q)'
  <2> USE <1>OthersAsked
  <2> DEFINE s == current[q].sequence
             k == current[q].round
  <2>1. msgs \subseteq Message /\ msgs' \subseteq Message
    BY DEF AskInv, TypeOK
  <2>2. /\ \A r \in Rounds : Askers(msgs, s, r) \subseteq Askers(msgs', s, r)
        /\ Cardinality(Askers(msgs, s, k)) \in Nat /\ Cardinality(Askers(msgs', s, k)) \in Nat
        /\ Cardinality(Askers(msgs, s, k)) <= Cardinality(Askers(msgs', s, k))
    BY <2>1, AskersGrow
  <2>3. /\ ~ waitingForRoundChange'[q] /\ current'[q].round > 0 =>
             Cardinality(Askers(msgs', s, k)) >= QuorumSize(valSet)
    BY <2>2, QuorumType DEF AskInv, RoundAsked
  <2>4. \A r \in Rounds : roundChangeSet'[q][r] \subseteq Askers(msgs', s, r)
    BY <2>2 DEF AskInv, RoundAsked
  <2> QED
    BY <2>3, <2>4 DEF RoundAsked
\* A validator that asks for a round waits for it, whatever is in its set rcs.
<1>SendRoundChangeAsked. ASSUME Counting, AskInv, TypeOK', NEW n \in Validators, NEW r \in Rounds,
             NEW rcs \in [Rounds -> SUBSET Validators], sendRoundChange(n, r, rcs),
             \A k \in Rounds : rcs[k] \subseteq Askers(msgs, current[n].sequence, k)
      PROVE  AskInv'
  <2> USE <1>SendRoundChangeAsked
  <2>1. /\ waitingForRoundChange' = [waitingForRoundChange EXCEPT ![n] = TRUE]
        /\ current' = [current EXCEPT ![n] = updateRoundState(n, r)]
        /\ roundChangeSet' = [roundChangeSet EXCEPT ![n] = Clear(rcs, r)]
        /\ msgs \subseteq msgs'
    BY DEF sendRoundChange, catchUpRound
  <2>2. ASSUME NEW q \in Validators, q # n PROVE RoundAsked(q)'
    BY <2>1, <2>2, <1>OthersAsked, ZenonT(30) DEF AskInv, TypeOK
  <2>3. RoundAsked(n)'
    <3>1. waitingForRoundChange'[n]
      BY <2>1 DEF AskInv, TypeOK
    <3>2. current'[n].sequence = current[n].sequence
      BY <2>1, UpdateRoundStateType DEF AskInv, TypeOK
    <3>3. \A k \in Rounds : roundChangeSet'[n][k] \subseteq rcs[k]
      BY <2>1 DEF Clear, AskInv, TypeOK
    <3>4. \A k \in Rounds : Askers(msgs, current[n].sequence, k) \subseteq Askers(msgs', current[n].sequence, k)
      BY <2>1 DEF Askers
    <3> QED BY <3>1, <3>2, <3>3, <3>4 DEF RoundAsked
  <2> QED BY <2>2, <2>3 DEF AskInv
\* A validator that enters a round has an empty set; the round is 0 or a quorum
\* asked for it.
<1>EnterRoundAsked. ASSUME Counting, AskInv, TypeOK', NEW n \in Validators, NEW cur, enterRound(n, cur),
             msgs \subseteq msgs',
             cur.round > 0 => Cardinality(Askers(msgs', cur.sequence, cur.round)) >= QuorumSize(valSet)
      PROVE  AskInv'
  <2> USE <1>EnterRoundAsked
  <2>1. ASSUME NEW q \in Validators, q # n PROVE RoundAsked(q)'
    <3>1. /\ current'[q] = current[q] /\ roundChangeSet'[q] = roundChangeSet[q]
          /\ waitingForRoundChange'[q] = waitingForRoundChange[q]
      BY <2>1 DEF AskInv, TypeOK, enterRound
    <3> QED BY <3>1, <1>OthersAsked
  <2>2. RoundAsked(n)'
    BY DEF RoundAsked, AskInv, TypeOK, enterRound
  <2> QED BY <2>1, <2>2 DEF AskInv
<1>HandleRoundChangeAsked. ASSUME Counting, AskInv, TypeOK', NEW n \in Validators, NEW m \in msgs, handleRoundChange(n, m)
      PROVE  AskInv'
  <2> USE <1>HandleRoundChangeAsked
  <2> DEFINE rcs == [roundChangeSet[n] EXCEPT ![m.round] = @ \cup {m.src}]
             s == current[n].sequence
  <2>1. /\ m.src \in Validators /\ m.round \in Rounds /\ m.seq = s /\ m.type = "RoundChange"
        /\ roundChangeSet[n] \in [Rounds -> SUBSET Validators] /\ msgs \subseteq Message
    BY Parts DEF AskInv, TypeOK, handleRoundChange, checkRoundChange
  <2>2. rcs \in [Rounds -> SUBSET Validators]
    BY <2>1
  <2>3. \A k \in Rounds : rcs[k] \subseteq Askers(msgs, s, k)
    <3>1. m.src \in Askers(msgs, s, m.round)
      BY <2>1 DEF Askers
    <3> QED BY <2>1, <3>1 DEF AskInv, RoundAsked
  <2>4. CASE sendRoundChange(n, m.round, rcs)
    BY <2>1, <2>2, <2>3, <2>4, <1>SendRoundChangeAsked
  <2>5. CASE Cardinality(rcs[m.round]) = QuorumSize(valSet) /\ startNewRound(n, m.round)
    <3> DEFINE upd == updateRoundState(n, m.round)
    <3>1. CASE enterRound(n, newRoundState(lastNumber(n) + 1, 0, None, None, None)) /\ UNCHANGED msgs
      BY <3>1, <1>EnterRoundAsked DEF newRoundState
    <3>2. CASE enterRound(n, upd) /\ msgs \subseteq msgs'
      <4>1. upd.sequence = s /\ upd.round = m.round
        BY <2>1, UpdateRoundStateType DEF AskInv
      <4>2. /\ Askers(msgs, s, m.round) \subseteq Askers(msgs', s, m.round)
            /\ Askers(msgs', s, m.round) \in SUBSET Validators
        <5>1. msgs' \subseteq Message
          BY DEF TypeOK
        <5> QED BY <2>1, <3>2, <5>1, AskersGrow
      <4>3. /\ Cardinality(rcs[m.round]) <= Cardinality(Askers(msgs', s, m.round))
            /\ Cardinality(rcs[m.round]) \in Nat
            /\ Cardinality(Askers(msgs', s, m.round)) \in Nat
        BY <2>1, <2>3, <4>2, Counted
      <4>4. Cardinality(Askers(msgs', s, m.round)) >= QuorumSize(valSet)
        BY <2>5, <4>3, QuorumType
      <4> QED BY <3>2, <4>1, <4>4, <1>EnterRoundAsked
    <3> QED BY <2>5, <3>1, <3>2 DEF startNewRound
  <2>6. CASE /\ roundChangeSet' = [roundChangeSet EXCEPT ![n] = rcs]
             /\ UNCHANGED <<waitingForRoundChange, current, msgs>>
    <3>1. \A q \in Validators : RoundAsked(q)
      BY DEF AskInv
    <3>2. \A q \in Validators \ {n} : roundChangeSet'[q] = roundChangeSet[q]
      BY <2>6 DEF AskInv, TypeOK
    <3>3. roundChangeSet'[n] = rcs
      BY <2>6 DEF AskInv, TypeOK
    <3>4. RoundAsked(n)'
      BY <2>3, <2>6, <3>1, <3>3 DEF RoundAsked
    <3>5. \A q \in Validators \ {n} : RoundAsked(q)'
      BY <2>6, <3>1, <3>2 DEF RoundAsked
    <3> QED BY <3>4, <3>5 DEF AskInv
  <2> QED BY <2>4, <2>5, <2>6, Zenon DEF handleRoundChange, roundChangeQuorum
<1> SUFFICES ASSUME Inv1, AskInv, [Next]_vars PROVE AskInv'
  OBVIOUS
<1>1. TypeOK'
  BY NextInv1 DEF Inv1
<1>2. CASE SameRounds
  BY <1>1, <1>2, <1>OthersAsked DEF SameRounds, AskInv
<1>3. ASSUME NEW n \in Validators, NEW r \in Rounds, sendRoundChange(n, r, roundChangeSet[n])
      PROVE  AskInv'
  BY <1>1, <1>3, <1>SendRoundChangeAsked, Parts DEF AskInv, RoundAsked
<1>4. ASSUME NEW n \in Validators, NewHeight(n) PROVE AskInv'
  BY <1>1, <1>4, <1>EnterRoundAsked DEF NewHeight, newRoundState
<1> QED
  BY <1>1, <1>2, <1>3, <1>4, StepKinds, <1>HandleRoundChangeAsked DEF AskInv

-----------------------------------------------------------------------------
(* With F > 0 no quorum of ROUND CHANGEs is left lying.                     *)

FewInv == TypeOK /\ FewAsk

\* A validator of FewAsk, with the round state cur and the set rcs.
Few(cur, waiting, rcs) ==
  \A r \in Rounds : r > cur.round \/ (waiting /\ r = cur.round) =>
    Cardinality(rcs[r]) < QuorumSize(valSet)

LEMMA NextFew ==
  ASSUME Counting, F(valSet) > 0 PROVE Inv1 /\ FewInv /\ [Next]_vars => FewInv'
<1>FewStep. ASSUME FewInv, TypeOK', NEW n \in Validators,
             \A q \in Validators \ {n} :
               /\ current'[q].round = current[q].round
               /\ waitingForRoundChange'[q] = waitingForRoundChange[q]
               /\ roundChangeSet'[q] = roundChangeSet[q],
             Few(current'[n], waitingForRoundChange'[n], roundChangeSet'[n])
      PROVE  FewInv'
  BY <1>FewStep DEF FewInv, FewAsk, Few
<1>SendRoundChangeFew. ASSUME FewInv, TypeOK', NEW n \in Validators, NEW r \in Rounds,
             NEW rcs \in [Rounds -> SUBSET Validators], sendRoundChange(n, r, rcs),
             \A k \in Rounds : k > current[n].round => Cardinality(rcs[k]) < QuorumSize(valSet)
      PROVE  FewInv'
  <2> USE <1>SendRoundChangeFew
  <2>1. /\ waitingForRoundChange' = [waitingForRoundChange EXCEPT ![n] = TRUE]
        /\ current' = [current EXCEPT ![n] = updateRoundState(n, r)]
        /\ roundChangeSet' = [roundChangeSet EXCEPT ![n] = Clear(rcs, r)]
        /\ r > current[n].round
    BY DEF sendRoundChange, catchUpRound
  <2>2. current'[n].round = r
    BY <2>1, UpdateRoundStateType DEF FewInv, TypeOK
  <2>3. \A k \in Rounds : k >= r => k > current[n].round /\ roundChangeSet'[n][k] = rcs[k]
    <3>1. current[n].round \in Nat /\ r \in Nat /\ \A k \in Rounds : k \in Nat
      BY Parts, BoundsAssumption DEF Rounds, FewInv
    <3>2. roundChangeSet'[n] = Clear(rcs, r)
      BY <2>1 DEF FewInv, TypeOK
    <3>3. \A k \in Rounds : k >= r => k > current[n].round /\ ~ (k < r)
      <4> SUFFICES ASSUME NEW k \in Rounds, NEW p \in Nat, p = current[n].round, k >= r
                   PROVE  k > p /\ ~ (k < r)
        BY <3>1
      <4> QED BY <2>1, <3>1
    <3> QED BY <3>2, <3>3 DEF Clear
  <2>4. Few(current'[n], waitingForRoundChange'[n], roundChangeSet'[n])
    BY <2>2, <2>3, BoundsAssumption DEF Few, Rounds
  <2> QED BY <2>1, <2>4, <1>FewStep, Zenon DEF FewInv, TypeOK
<1>EnterRoundFew. ASSUME Counting, F(valSet) > 0, FewInv, TypeOK', NEW n \in Validators, NEW cur, enterRound(n, cur)
      PROVE  FewInv'
  <2> USE <1>EnterRoundFew
  <2>1. \A r \in Rounds : roundChangeSet'[n][r] = {}
    BY DEF enterRound, FewInv, TypeOK
  <2>2. Cardinality({}) < QuorumSize(valSet)
    BY QuorumType, CountedNone DEF QuorumSize
  <2>3. Few(current'[n], waitingForRoundChange'[n], roundChangeSet'[n])
    BY <2>1, <2>2, Zenon DEF Few
  <2> QED BY <2>3, <1>FewStep, ZenonT(30) DEF enterRound, FewInv, TypeOK
\* One more sender is at most one more than before; at a quorum a round starts.
<1>HandleRoundChangeFew. ASSUME Counting, F(valSet) > 0, FewInv, TypeOK', NEW n \in Validators, NEW m \in msgs,
             handleRoundChange(n, m)
      PROVE  FewInv'
  <2> USE <1>HandleRoundChangeFew
  <2> DEFINE rcs == [roundChangeSet[n] EXCEPT ![m.round] = @ \cup {m.src}]
             num == Cardinality(rcs[m.round])
             Q == QuorumSize(valSet)
  <2>1. /\ m.src \in Validators /\ m.round \in Rounds
        /\ roundChangeSet[n] \in [Rounds -> SUBSET Validators]
        /\ waitingForRoundChange[n] \/ current[n].round < m.round
        /\ m.round >= current[n].round
        /\ Rounds \subseteq Nat /\ current[n].round \in Nat
    <3>1. Rounds \subseteq Nat
      BY BoundsAssumption DEF Rounds
    <3>2. TypeOK
      BY DEF FewInv
    <3>3. /\ m.src \in Validators /\ m.round \in Rounds /\ current[n].round \in Rounds
          /\ roundChangeSet[n] \in [Rounds -> SUBSET Validators]
      BY <3>2, Parts
    <3>4. /\ waitingForRoundChange[n] \/ current[n].round < m.round
          /\ m.round >= current[n].round
      BY DEF handleRoundChange, checkRoundChange
    <3> QED BY <3>1, <3>3, <3>4, Zenon
  <2>2. /\ rcs \in [Rounds -> SUBSET Validators]
        /\ rcs[m.round] = roundChangeSet[n][m.round] \cup {m.src}
        /\ \A k \in Rounds : k # m.round => rcs[k] = roundChangeSet[n][k]
    BY <2>1, Zenon
  <2>3. F(valSet) + 1 < Q /\ Q \in Nat
    BY QuorumType DEF QuorumSize
  <2>4. Cardinality(roundChangeSet[n][m.round]) < Q
    <3>0. m.round > current[n].round \/ m.round = current[n].round
      <4>1. m.round \in Nat /\ current[n].round \in Nat /\ m.round >= current[n].round
        BY <2>1, Zenon
      <4>2. \A i, j \in Nat : i >= j => i > j \/ i = j
        OBVIOUS
      <4> QED BY <4>1, <4>2
    <3>1. m.round > current[n].round \/ (waitingForRoundChange[n] /\ m.round = current[n].round)
      <4>1. CASE m.round = current[n].round
        <5>1. ~ (current[n].round < m.round)
          BY <2>1, <4>1
        <5> QED BY <2>1, <4>1, <5>1
      <4> QED BY <3>0, <4>1
    <3> QED BY <2>1, <3>1, Zenon DEF FewInv, FewAsk
  <2>5. num \in Nat /\ num <= Q
    <3>1. num = Cardinality(roundChangeSet[n][m.round] \cup {m.src})
      BY <2>2
    <3>2. /\ Cardinality(roundChangeSet[n][m.round]) \in Nat /\ num \in Nat
          /\ num <= Cardinality(roundChangeSet[n][m.round]) + 1
      BY <2>1, <3>1, CountedOne, Zenon
    <3> HIDE DEF rcs, Q
    <3> QED BY <2>3, <2>4, <3>2
  <2>6. ASSUME num < Q
        PROVE  Few(current[n], waitingForRoundChange[n], rcs)
    BY <2>2, <2>6 DEF FewInv, FewAsk, Few
  <2>7. CASE num = F(valSet) + 1 /\ sendRoundChange(n, m.round, rcs)
    <3>1. num < Q
      BY <2>3, <2>7
    <3>2. \A k \in Rounds : k > current[n].round => Cardinality(rcs[k]) < Q
      BY <3>1, <2>6 DEF Few
    <3> QED BY <2>1, <2>2, <2>7, <3>2, <1>SendRoundChangeFew, Zenon
  <2>8. CASE startNewRound(n, m.round)
    BY <2>8, <1>EnterRoundFew DEF startNewRound
  <2>9. CASE /\ num = F(valSet) + 1 \/ num # Q
             /\ roundChangeSet' = [roundChangeSet EXCEPT ![n] = rcs]
             /\ UNCHANGED <<waitingForRoundChange, current>>
    <3>1. num < Q
      <4> HIDE DEF num, Q
      <4> QED BY <2>3, <2>5, <2>9
    <3>2. Few(current'[n], waitingForRoundChange'[n], roundChangeSet'[n])
      BY <2>6, <2>9, <3>1 DEF FewInv, TypeOK
    <3> QED BY <2>9, <3>2, <1>FewStep, Zenon DEF FewInv, TypeOK
  <2> QED
    BY <2>1, <2>7, <2>8, <2>9 DEF handleRoundChange, roundChangeQuorum, weakCertificate
<1> SUFFICES ASSUME Inv1, FewInv, [Next]_vars PROVE FewInv'
  OBVIOUS
<1>1. TypeOK'
  BY NextInv1 DEF Inv1
<1>2. CASE SameRounds
  BY <1>1, <1>2 DEF SameRounds, FewInv, FewAsk
<1>3. ASSUME NEW n \in Validators, NEW r \in Rounds,
             sendRoundChange(n, r, roundChangeSet[n])
      PROVE  FewInv'
  BY <1>1, <1>3, <1>SendRoundChangeFew, Parts DEF FewInv, FewAsk
<1>4. ASSUME NEW n \in Validators, NewHeight(n) PROVE FewInv'
  BY <1>1, <1>4, <1>EnterRoundFew DEF NewHeight
<1> QED
  BY <1>1, <1>2, <1>3, <1>4, StepKinds, <1>HandleRoundChangeFew DEF FewInv

-----------------------------------------------------------------------------
(* Locks. *)

\* Those who prepared or committed b in a view, among the messages M.
SupportIn(M, seq, round, b) ==
  {m.src : m \in {k \in M : /\ k.type \in {"Prepare", "Commit"}
                            /\ k.seq = seq /\ k.round = round /\ k.digest = b}}

\* The round state has counted only supporters of its proposal in its view, and
\* its lock has a quorum of them in some round so far.
Supported(n) ==
  LET cur == current[n] IN
  /\ state[n] = "AcceptRequest" => cur.prepares = {} /\ cur.commits = {}
  /\ cur.prepares \cup cur.commits
       \subseteq SupportIn(msgs, cur.sequence, cur.round, cur.preprepare)
  /\ cur.lockedHash # None =>
       \E r \in 0 .. cur.round :
         Cardinality(SupportIn(msgs, cur.sequence, r, cur.lockedHash)) >= QuorumSize(valSet)

\* A PREPARE of n that is not of an earlier view is of the view n works in, past
\* AcceptRequest.
PrepareBehind(n, m) ==
  \/ m.seq < current[n].sequence
  \/ m.seq = current[n].sequence /\ m.round < current[n].round
  \/ /\ m.seq = current[n].sequence /\ m.round = current[n].round
     /\ ~ waitingForRoundChange[n] /\ state[n] # "AcceptRequest"

\* A COMMIT of n is of an earlier height, or n is locked on it unless it is bad.
CommitLocked(n, m) ==
  /\ m.seq <= current[n].sequence
  /\ m.seq = current[n].sequence /\ ~ HasBadProposal(n, m.digest)
       => current[n].lockedHash = m.digest

SentBehind(n) ==
  n \notin restarted => \A m \in msgs : m.src = n =>
    /\ m.type = "Prepare" => PrepareBehind(n, m)
    /\ m.type = "Commit" => CommitLocked(n, m)

LockInv ==
  Inv1 /\ PrepareOnce /\ \A n \in Validators : Supported(n) /\ SentBehind(n)

-----------------------------------------------------------------------------
(* Steps, seen from one validator.                                          *)

\* Numbers of a message and of a core.
LEMMA Numbers ==
  ASSUME LockInv
  PROVE  /\ \A m \in msgs : /\ m.round \in Nat /\ m.seq \in Nat
                            /\ m.type = "Commit" => m.digest # None
         /\ \A n \in Validators : current[n].round \in Nat /\ current[n].sequence \in Nat
<1>1. TypeOK /\ Rounds \subseteq Nat
  BY BoundsAssumption DEF LockInv, Inv1, Rounds
<1>. QED BY <1>1, Parts, ProposalsAssumption, Zenon

\* The round state of a new height, and what is sent at the start of a round.
LEMMA EmptyParts ==
  ASSUME NEW s
  PROVE  /\ newRoundState(s, 0, None, None, None).sequence = s
         /\ newRoundState(s, 0, None, None, None).prepares = {}
         /\ newRoundState(s, 0, None, None, None).commits = {}
         /\ newRoundState(s, 0, None, None, None).lockedHash = None
BY DEF newRoundState

LEMMA ReproposedParts ==
  ASSUME NEW n, NEW c, NEW p, NEW m \in reproposed(n, c, p)
  PROVE  m.src = n /\ m.type = "Preprepare"
BY DEF reproposed, sendPreprepare, message

\* Supporters are validators, and there are only more as messages are sent.
LEMMA SupportGrows ==
  ASSUME Counting, NEW M \in SUBSET Message, NEW K \in SUBSET Message, M \subseteq K,
         NEW s, NEW r, NEW b
  PROVE  /\ SupportIn(M, s, r, b) \subseteq SupportIn(K, s, r, b)
         /\ SupportIn(K, s, r, b) \in SUBSET Validators
         /\ Cardinality(SupportIn(M, s, r, b)) \in Nat
         /\ Cardinality(SupportIn(K, s, r, b)) \in Nat
         /\ Cardinality(SupportIn(M, s, r, b)) <= Cardinality(SupportIn(K, s, r, b))
<1>1. SupportIn(M, s, r, b) \subseteq SupportIn(K, s, r, b)
  BY DEF SupportIn
<1>2. SupportIn(K, s, r, b) \subseteq Validators
  BY DEF SupportIn, Message
<1> QED BY <1>1, <1>2, Counted

LEMMA SupportStays ==
  ASSUME Counting, LockInv, Inv1', msgs \subseteq msgs'
  PROVE  \A s, r, b : /\ SupportIn(msgs, s, r, b) \subseteq SupportIn(msgs', s, r, b)
                      /\ SupportIn(msgs', s, r, b) \in SUBSET Validators
<1>1. msgs \in SUBSET Message /\ msgs' \in SUBSET Message
  BY Zenon DEF LockInv, Inv1, TypeOK
<1> QED BY <1>1, SupportGrows, Zenon

LEMMA Reaches ==
  ASSUME NEW a \in Nat, NEW b \in Nat, NEW q \in Nat, a <= b, a >= q
  PROVE  b >= q
OBVIOUS

\* A quorum that supports a block goes on supporting it.
LEMMA QuorumStays ==
  ASSUME Counting, Inv1, Inv1', msgs \subseteq msgs', NEW s, NEW r, NEW b,
         Cardinality(SupportIn(msgs, s, r, b)) >= QuorumSize(valSet)
  PROVE  Cardinality(SupportIn(msgs', s, r, b)) >= QuorumSize(valSet)
<1>1. msgs \subseteq Message /\ msgs' \subseteq Message
  BY DEF Inv1, TypeOK
<1>2. /\ Cardinality(SupportIn(msgs, s, r, b)) \in Nat
      /\ Cardinality(SupportIn(msgs', s, r, b)) \in Nat
      /\ Cardinality(SupportIn(msgs, s, r, b)) <= Cardinality(SupportIn(msgs', s, r, b))
  BY <1>1, SupportGrows
<1> QED BY <1>2, QuorumType

\* What the others do leaves q's part of the invariant alone.
LEMMA OthersLocks ==
  ASSUME Counting, LockInv, Inv1', NEW q \in Validators, msgs \subseteq msgs',
         \A m \in msgs' \ msgs : m.src # q \/ m.type \notin {"Prepare", "Commit"},
         current'[q] = current[q], state'[q] = state[q],
         waitingForRoundChange'[q] = waitingForRoundChange[q],
         badBlocks[q] \subseteq badBlocks'[q], restarted \subseteq restarted'
  PROVE  Supported(q)' /\ SentBehind(q)'
<1> DEFINE cur == current[q]
<1>1. Supported(q) /\ SentBehind(q)
  BY DEF LockInv
<1>2. SupportIn(msgs, cur.sequence, cur.round, cur.preprepare)
        \subseteq SupportIn(msgs', cur.sequence, cur.round, cur.preprepare)
  BY DEF SupportIn
<1>3. \A r \in 0 .. cur.round :
        Cardinality(SupportIn(msgs, cur.sequence, r, cur.lockedHash)) >= QuorumSize(valSet) =>
        Cardinality(SupportIn(msgs', cur.sequence, r, cur.lockedHash)) >= QuorumSize(valSet)
  BY QuorumStays DEF LockInv
<1>4. Supported(q)'
  BY <1>1, <1>2, <1>3 DEF Supported
<1>5. SentBehind(q)'
  BY <1>1 DEF SentBehind, PrepareBehind, CommitLocked, HasBadProposal
<1> QED BY <1>4, <1>5

\* A step that sends no PREPARE keeps PrepareOnce.
LEMMA NoPrepare ==
  ASSUME PrepareOnce, msgs \subseteq msgs', restarted \subseteq restarted',
         \A m \in msgs' \ msgs : m.type # "Prepare"
  PROVE  PrepareOnce'
BY DEF PrepareOnce

\* A step of n: its own part remains to be shown.
LEMMA OwnLocks ==
  ASSUME Counting, LockInv, Inv1', NEW n \in Validators, msgs \subseteq msgs',
         \A m \in msgs' \ msgs : m.src = n,
         \A q \in Validators \ {n} :
           /\ current'[q] = current[q] /\ state'[q] = state[q]
           /\ waitingForRoundChange'[q] = waitingForRoundChange[q]
           /\ badBlocks[q] \subseteq badBlocks'[q],
         restarted \subseteq restarted', PrepareOnce', Supported(n)', SentBehind(n)'
  PROVE  LockInv'
<1>1. ASSUME NEW q \in Validators, q # n PROVE Supported(q)' /\ SentBehind(q)'
  BY <1>1, OthersLocks
<1> QED BY <1>1, Zenon DEF LockInv

\* A core whose round state is empty supports itself, if its lock has a quorum.
LEMMA EmptySupported ==
  ASSUME NEW n \in Validators, current'[n].prepares = {}, current'[n].commits = {},
         current'[n].lockedHash # None =>
           \E r \in 0 .. current'[n].round :
             Cardinality(SupportIn(msgs', current'[n].sequence, r, current'[n].lockedHash))
               >= QuorumSize(valSet)
  PROVE  Supported(n)'
BY DEF Supported

\* What a round change makes of the round state of n.
LEMMA UpdatedSupported ==
  ASSUME Counting, LockInv, Inv1', NEW n \in Validators, NEW r \in Rounds, r >= current[n].round,
         current'[n] = updateRoundState(n, r), msgs \subseteq msgs'
  PROVE  /\ Supported(n)'
         /\ current'[n].sequence = current[n].sequence /\ current'[n].round = r
         /\ \A d : d # None /\ ~ HasBadProposal(n, d) /\ current[n].lockedHash = d
                     => current'[n].lockedHash = d
<1>1. /\ current'[n].prepares = {} /\ current'[n].commits = {}
      /\ current'[n].sequence = current[n].sequence /\ current'[n].round = r
      /\ current'[n].lockedHash # None => current'[n].lockedHash = current[n].lockedHash
      /\ \A d : d # None /\ ~ HasBadProposal(n, d) /\ current[n].lockedHash = d
                  => current'[n].lockedHash = d
  BY DEF updateRoundState, newRoundState, IsHashLocked
<1>2. ASSUME current'[n].lockedHash # None
      PROVE  \E k \in 0 .. r :
               Cardinality(SupportIn(msgs', current[n].sequence, k, current[n].lockedHash))
                 >= QuorumSize(valSet)
  <2>1. PICK k \in 0 .. current[n].round :
          Cardinality(SupportIn(msgs, current[n].sequence, k, current[n].lockedHash))
            >= QuorumSize(valSet)
    BY <1>1, <1>2 DEF LockInv, Supported
  <2>2. k \in 0 .. r
    <3>1. r \in Nat /\ current[n].round \in Nat
      BY Parts, BoundsAssumption DEF LockInv, Inv1, Rounds
    <3> QED BY <3>1
  <2>3. Cardinality(SupportIn(msgs', current[n].sequence, k, current[n].lockedHash))
          >= QuorumSize(valSet)
    BY <2>1, QuorumStays DEF LockInv
  <2> QED BY <2>2, <2>3, SMTT(30)
<1>3. Supported(n)'
  BY <1>1, <1>2, EmptySupported
<1> QED BY <1>1, <1>3

-----------------------------------------------------------------------------
(* Steps that leave the round.                                              *)

LEMMA SendRoundChangeLocks ==
  ASSUME Counting, LockInv, Inv1', NEW n \in Validators, NEW r, NEW rcs, sendRoundChange(n, r, rcs)
  PROVE  LockInv'
<1>1. /\ r \in Rounds /\ r > current[n].round
      /\ waitingForRoundChange' = [waitingForRoundChange EXCEPT ![n] = TRUE]
      /\ current' = [current EXCEPT ![n] = updateRoundState(n, r)]
      /\ \A m \in msgs' \ msgs : m.src = n /\ m.type = "RoundChange"
      /\ msgs \subseteq msgs' /\ UNCHANGED <<state, badBlocks, restarted>>
  BY DEF sendRoundChange, catchUpRound, message, chainVars
<1>2. current[n].round \in Nat /\ current[n].sequence \in Nat /\ r \in Nat
  <2>1. r \in Nat
    BY <1>1, BoundsAssumption DEF Rounds
  <2>. QED BY <2>1, Numbers, Zenon
<1>3. current'[n] = updateRoundState(n, r)
  BY <1>1 DEF LockInv, Inv1, TypeOK
<1>4. /\ Supported(n)'
      /\ current'[n].sequence = current[n].sequence /\ current'[n].round = r
      /\ \A d : d # None /\ ~ HasBadProposal(n, d) /\ current[n].lockedHash = d
                  => current'[n].lockedHash = d
  <2>1. r >= current[n].round
    BY <1>1, <1>2
  <2> QED BY <1>1, <1>3, <2>1, UpdatedSupported
<1>5. SentBehind(n)'
  <2> SUFFICES ASSUME n \notin restarted, NEW m \in msgs, m.src = n
               PROVE  /\ m.type = "Prepare" => PrepareBehind(n, m)'
                      /\ m.type = "Commit" => CommitLocked(n, m)'
    BY <1>1 DEF SentBehind
  <2>1. m.round \in Nat /\ m.seq \in Nat /\ (m.type = "Commit" => m.digest # None)
    BY Numbers, Zenon
  <2>2. CASE m.type = "Prepare"
    <3>1. PrepareBehind(n, m)
      BY <2>2 DEF LockInv, SentBehind
    <3>2. m.seq < current[n].sequence \/ (m.seq = current[n].sequence /\ m.round < r)
      BY <1>1, <1>2, <2>1, <3>1 DEF PrepareBehind
    <3> QED BY <1>4, <2>2, <3>2 DEF PrepareBehind
  <2>3. CASE m.type = "Commit"
    <3>1. CommitLocked(n, m)
      BY <2>3 DEF LockInv, SentBehind
    <3> QED BY <1>1, <1>4, <2>1, <2>3, <3>1 DEF CommitLocked, HasBadProposal
  <2> QED BY <2>2, <2>3
<1>6. PrepareOnce'
  BY <1>1, NoPrepare DEF LockInv
<1> QED BY <1>1, <1>4, <1>5, <1>6, OwnLocks, Zenon DEF LockInv, Inv1, TypeOK

\* A new height, or a restart that forgets what was sent.
LEMMA NewHeightLocks ==
  ASSUME Counting, LockInv, Inv1', NEW n \in Validators, NEW s \in Nat,
         enterRound(n, newRoundState(s, 0, None, None, None)),
         n \in restarted' \/ s > current[n].sequence,
         restarted \subseteq restarted', UNCHANGED <<msgs, badBlocks>>
  PROVE  LockInv'
<1>1. /\ current' = [current EXCEPT ![n] = newRoundState(s, 0, None, None, None)]
      /\ waitingForRoundChange' = [waitingForRoundChange EXCEPT ![n] = FALSE]
      /\ state' = [state EXCEPT ![n] = "AcceptRequest"]
  BY DEF enterRound
<1>2. current'[n] = newRoundState(s, 0, None, None, None)
  BY <1>1 DEF LockInv, Inv1, TypeOK
<1>3. Supported(n)'
  <2>1. current'[n].prepares = {} /\ current'[n].commits = {} /\ current'[n].lockedHash = None
    BY <1>2, EmptyParts, Zenon
  <2>. QED BY <2>1, EmptySupported, Zenon
<1>4. SentBehind(n)'
  <2> SUFFICES ASSUME n \notin restarted', NEW m \in msgs, m.src = n
               PROVE  /\ m.type = "Prepare" => PrepareBehind(n, m)'
                      /\ m.type = "Commit" => CommitLocked(n, m)'
    BY DEF SentBehind
  <2>1. /\ m.type = "Prepare" => PrepareBehind(n, m)
        /\ m.type = "Commit" => CommitLocked(n, m)
    BY DEF LockInv, SentBehind
  <2>2. m.type \in {"Prepare", "Commit"} => m.seq <= current[n].sequence
    <3>1. m.seq \in Nat /\ current[n].sequence \in Nat
      BY Numbers, Zenon
    <3> QED BY <2>1, <3>1 DEF PrepareBehind, CommitLocked
  <2>3. m.type \in {"Prepare", "Commit"} => m.seq < s
    <3>1. m.seq \in Nat /\ current[n].sequence \in Nat
      BY Numbers, Zenon
    <3> QED BY <2>2, <3>1
  <2>4. m.type \in {"Prepare", "Commit"} => m.seq < s /\ m.seq <= s /\ m.seq # s
    <3>1. m.seq \in Nat
      BY Numbers, Zenon
    <3> QED BY <2>3, <3>1
  <2>5. current'[n].sequence = s
    BY <1>2, EmptyParts, Zenon
  <2> QED BY <2>4, <2>5 DEF PrepareBehind, CommitLocked
<1>5. PrepareOnce'
  BY NoPrepare DEF LockInv
<1> QED BY <1>1, <1>3, <1>4, <1>5, OwnLocks, Zenon DEF LockInv, Inv1, TypeOK

\* A round that n was waiting for, or a larger one.
LEMMA NewRoundLocks ==
  ASSUME Counting, LockInv, Inv1', NEW n \in Validators, NEW r \in Rounds, r >= current[n].round,
         waitingForRoundChange[n] \/ current[n].round < r,
         enterRound(n, updateRoundState(n, r)), msgs \subseteq msgs',
         \A m \in msgs' \ msgs : m.src = n /\ m.type = "Preprepare",
         UNCHANGED <<badBlocks, restarted>>
  PROVE  LockInv'
<1>1. /\ current' = [current EXCEPT ![n] = updateRoundState(n, r)]
      /\ waitingForRoundChange' = [waitingForRoundChange EXCEPT ![n] = FALSE]
      /\ state' = [state EXCEPT ![n] = "AcceptRequest"]
  BY Zenon DEF enterRound
<1>2. current[n].round \in Nat /\ current[n].sequence \in Nat /\ r \in Nat
  BY Parts, BoundsAssumption DEF LockInv, Inv1, Rounds
<1>3. current'[n] = updateRoundState(n, r)
  BY <1>1, Zenon DEF LockInv, Inv1, TypeOK
<1>4. /\ Supported(n)'
      /\ current'[n].sequence = current[n].sequence /\ current'[n].round = r
      /\ \A d : d # None /\ ~ HasBadProposal(n, d) /\ current[n].lockedHash = d
                  => current'[n].lockedHash = d
  BY <1>3, UpdatedSupported
<1>5. SentBehind(n)'
  <2> SUFFICES ASSUME n \notin restarted, NEW m \in msgs, m.src = n
               PROVE  /\ m.type = "Prepare" => PrepareBehind(n, m)'
                      /\ m.type = "Commit" => CommitLocked(n, m)'
    BY DEF SentBehind
  <2>1. m.round \in Nat /\ m.seq \in Nat /\ (m.type = "Commit" => m.digest # None)
    BY Numbers, Zenon
  <2>2. CASE m.type = "Prepare"
    <3>1. PrepareBehind(n, m)
      BY <2>2, SMTT(30) DEF LockInv, SentBehind
    <3>2. CASE m.seq < current[n].sequence
      BY <1>4, <2>2, <3>2 DEF PrepareBehind
    <3>3. CASE m.seq = current[n].sequence /\ m.round < current[n].round
      <4>1. m.round < r
        BY <1>2, <2>1, <3>3
      <4> QED BY <1>4, <2>2, <3>3, <4>1 DEF PrepareBehind
    <3>4. CASE m.seq = current[n].sequence /\ m.round = current[n].round
               /\ ~ waitingForRoundChange[n]
      <4>1. m.round < r
        BY <3>4
      <4> QED BY <1>4, <2>2, <3>4, <4>1 DEF PrepareBehind
    <3> QED BY <3>1, <3>2, <3>3, <3>4 DEF PrepareBehind
  <2>3. CASE m.type = "Commit"
    <3>1. CommitLocked(n, m)
      BY <2>3, Zenon DEF LockInv, SentBehind
    <3> QED BY <1>4, <2>1, <2>3, <3>1, Zenon DEF CommitLocked, HasBadProposal
  <2> QED BY <2>2, <2>3
<1>6. PrepareOnce'
  BY NoPrepare DEF LockInv
<1> QED BY <1>1, <1>4, <1>5, <1>6, OwnLocks, Zenon DEF LockInv, Inv1, TypeOK

\* startNewRound as handleRoundChange calls it, or with round 0.
LEMMA StartNewRoundLocks ==
  ASSUME Counting, LockInv, Inv1', NEW n \in Validators, NEW r \in Rounds, startNewRound(n, r),
         r = 0 \/ waitingForRoundChange[n] \/ current[n].round < r
  PROVE  LockInv'
<1>1. CASE /\ lastNumber(n) >= current[n].sequence
           /\ enterRound(n, newRoundState(lastNumber(n) + 1, 0, None, None, None))
           /\ UNCHANGED <<chainVars, msgs>>
  <2>1. lastNumber(n) + 1 \in Nat /\ lastNumber(n) + 1 > current[n].sequence
    <3>1. lastNumber(n) \in Nat /\ current[n].sequence \in Nat
      BY FreshRoundState, Parts DEF LockInv, Inv1
    <3> QED BY <1>1, <3>1
  <2> QED BY <1>1, <2>1, NewHeightLocks DEF chainVars
<1>2. CASE /\ r # 0 /\ r >= current[n].round
           /\ enterRound(n, updateRoundState(n, r))
           /\ msgs' = msgs \cup reproposed(n, updateRoundState(n, r), proposer'[n])
           /\ UNCHANGED chainVars
  <2>1. \A m \in reproposed(n, updateRoundState(n, r), proposer'[n]) :
          m.src = n /\ m.type = "Preprepare"
    BY ReproposedParts
  <2>2. \A m \in msgs' \ msgs : m.src = n /\ m.type = "Preprepare"
    BY <1>2, <2>1, Zenon
  <2> QED BY <1>2, <2>2, NewRoundLocks DEF chainVars
<1> QED BY <1>1, <1>2 DEF startNewRound

-----------------------------------------------------------------------------
(* Steps within a round.                                                    *)

LEMMA SameRoundSent ==
  ASSUME LockInv, NEW n \in Validators,
         current'[n].sequence = current[n].sequence, current'[n].round = current[n].round,
         UNCHANGED <<waitingForRoundChange, badBlocks, restarted>>,
         state[n] # "AcceptRequest" => state'[n] # "AcceptRequest",
         IsHashLocked(n) => current'[n].lockedHash = current[n].lockedHash,
         \A m \in msgs' \ msgs : /\ m.type = "Prepare" => PrepareBehind(n, m)'
                                 /\ m.type = "Commit" => CommitLocked(n, m)'
  PROVE  SentBehind(n)'
<1> SUFFICES ASSUME n \notin restarted, NEW m \in msgs, m.src = n
             PROVE  /\ m.type = "Prepare" => PrepareBehind(n, m)'
                    /\ m.type = "Commit" => CommitLocked(n, m)'
  BY DEF SentBehind
<1>1. /\ m.type = "Prepare" => PrepareBehind(n, m)
      /\ m.type = "Commit" => CommitLocked(n, m)
  BY Zenon DEF LockInv, SentBehind
<1>2. m.type = "Commit" => m.digest # None
  BY Parts, ProposalsAssumption, Zenon DEF LockInv, Inv1
<1>3. m.type = "Prepare" => PrepareBehind(n, m)'
  BY <1>1, Zenon DEF PrepareBehind
<1>4. m.type = "Commit" => CommitLocked(n, m)'
  BY <1>1, <1>2, Zenon DEF CommitLocked, IsHashLocked, HasBadProposal
<1> QED BY <1>3, <1>4

\* The counted sets and the lock are those of before.
LEMMA SameSupported ==
  ASSUME Counting, LockInv, Inv1', NEW n \in Validators, msgs \subseteq msgs',
         current'[n].sequence = current[n].sequence, current'[n].round = current[n].round,
         current'[n].prepares = current[n].prepares, current'[n].commits = current[n].commits,
         current'[n].lockedHash = current[n].lockedHash,
         state'[n] = "AcceptRequest" => state[n] = "AcceptRequest",
         \/ current'[n].preprepare = current[n].preprepare
         \/ state[n] = "AcceptRequest"
  PROVE  Supported(n)'
<1> DEFINE cur == current[n]
<1>1. Supported(n)
  BY DEF LockInv
<1>2. SupportIn(msgs, cur.sequence, cur.round, cur.preprepare)
        \subseteq SupportIn(msgs', cur.sequence, cur.round, cur.preprepare)
  BY Zenon DEF SupportIn
<1>3. \A r \in 0 .. cur.round :
        Cardinality(SupportIn(msgs, cur.sequence, r, cur.lockedHash)) >= QuorumSize(valSet) =>
        Cardinality(SupportIn(msgs', cur.sequence, r, cur.lockedHash)) >= QuorumSize(valSet)
  BY QuorumStays, Zenon DEF LockInv
<1> QED BY <1>1, <1>2, <1>3, ZenonT(30) DEF Supported

LEMMA HandleRequestLocks ==
  ASSUME Counting, LockInv, Inv1', NEW n \in Validators, NEW b \in Proposals, handleRequest(n, b)
  PROVE  LockInv'
<1>1. /\ current' = [current EXCEPT ![n] = [current[n] EXCEPT !.pendingRequest = b]]
      /\ msgs \subseteq msgs' /\ \A m \in msgs' \ msgs : m.src = n /\ m.type = "Preprepare"
      /\ UNCHANGED <<state, waitingForRoundChange, badBlocks, restarted>>
  BY DEF handleRequest, sendPreprepare, message
<1>2. /\ current'[n].sequence = current[n].sequence /\ current'[n].round = current[n].round
      /\ current'[n].prepares = current[n].prepares /\ current'[n].commits = current[n].commits
      /\ current'[n].lockedHash = current[n].lockedHash
      /\ current'[n].preprepare = current[n].preprepare
  BY <1>1 DEF LockInv, Inv1, TypeOK, RoundState
<1>3. Supported(n)'
  BY <1>1, <1>2, SameSupported
<1>4. SentBehind(n)'
  BY <1>1, <1>2, SameRoundSent
<1>5. PrepareOnce'
  BY <1>1, NoPrepare DEF LockInv
<1> QED BY <1>1, <1>3, <1>4, <1>5, OwnLocks, Zenon DEF LockInv, Inv1, TypeOK

\* What sendCommit may add is a COMMIT in the view of cur for its proposal.
LEMMA SendCommitAdds ==
  ASSUME NEW n \in Validators, NEW cur, sendCommit(n, cur)
  PROVE  /\ msgs \subseteq msgs'
         /\ \A m \in msgs' \ msgs : /\ m.src = n /\ m.type = "Commit"
                                    /\ m.seq = cur.sequence /\ m.digest = cur.preprepare
BY DEF sendCommit, message

\* A COMMIT for the block that its sender is now locked on.
LEMMA CommitOfLock ==
  ASSUME NEW n, NEW k, k.type = "Commit", k.seq = current'[n].sequence,
         k.digest = current'[n].lockedHash, k.seq \in Nat
  PROVE  /\ k.type = "Prepare" => PrepareBehind(n, k)'
         /\ k.type = "Commit" => CommitLocked(n, k)'
BY DEF CommitLocked

LEMMA HandlePreprepareLocks ==
  ASSUME Counting, LockInv, Inv1', NEW n \in Validators, NEW m \in msgs, handlePreprepare(n, m)
  PROVE  LockInv'
<1> DEFINE cur == [current[n] EXCEPT !.preprepare = m.digest]
<1>1. CASE sendNextRoundChange(n)
  BY <1>1, SendRoundChangeLocks DEF sendNextRoundChange
<1>2. /\ cur.sequence = current[n].sequence /\ cur.round = current[n].round
      /\ cur.prepares = current[n].prepares /\ cur.commits = current[n].commits
      /\ cur.lockedHash = current[n].lockedHash /\ cur.preprepare = m.digest
      /\ current[n].sequence \in Nat
  BY Parts DEF LockInv, Inv1, TypeOK, RoundState
<1>3. ASSUME current' = [current EXCEPT ![n] = cur] PROVE current'[n] = cur
  BY <1>3 DEF LockInv, Inv1, TypeOK
<1>4. CASE /\ state[n] = "AcceptRequest" /\ m.digest = current[n].lockedHash
           /\ current' = [current EXCEPT ![n] = cur]
           /\ state' = [state EXCEPT ![n] = "Prepared"]
           /\ sendCommit(n, cur)
           /\ UNCHANGED <<waitingForRoundChange, badBlocks, restarted>>
  <2>1. current'[n] = cur /\ state'[n] = "Prepared"
    BY <1>3, <1>4 DEF LockInv, Inv1, TypeOK
  <2>2. /\ msgs \subseteq msgs'
        /\ \A k \in msgs' \ msgs : /\ k.src = n /\ k.type = "Commit"
                                   /\ k.seq = cur.sequence /\ k.digest = cur.preprepare
    BY <1>4, SendCommitAdds, Zenon
  <2> HIDE DEF cur
  <2>3. Supported(n)'
    BY <1>2, <1>4, <2>1, <2>2, SameSupported, Zenon
  <2>4. \A k \in msgs' \ msgs : /\ k.type = "Prepare" => PrepareBehind(n, k)'
                                /\ k.type = "Commit" => CommitLocked(n, k)'
    <3>1. \A k \in msgs' \ msgs : /\ k.type = "Commit" /\ k.seq = current'[n].sequence
                                  /\ k.digest = current'[n].lockedHash /\ k.seq \in Nat
      BY <1>2, <1>4, <2>1, <2>2, Zenon
    <3> QED BY <3>1, CommitOfLock
  <2>5. SentBehind(n)'
    BY <1>2, <1>4, <2>1, <2>4, SameRoundSent, Zenon
  <2>6. PrepareOnce'
    BY <1>4, <2>2, NoPrepare, Zenon DEF LockInv
  <2> QED BY <1>4, <2>2, <2>3, <2>5, <2>6, OwnLocks, Zenon DEF LockInv, Inv1, TypeOK
<1>5. CASE /\ state[n] = "AcceptRequest" /\ ~ waitingForRoundChange[n]
           /\ current' = [current EXCEPT ![n] = cur]
           /\ state' = [state EXCEPT ![n] = "Preprepared"]
           /\ msgs' = msgs \cup {message("Prepare", n, current[n], m.digest)}
           /\ UNCHANGED <<waitingForRoundChange, badBlocks, restarted>>
  <2> DEFINE new == message("Prepare", n, current[n], m.digest)
  <2>1. current'[n] = cur /\ state'[n] = "Preprepared"
    BY <1>3, <1>5 DEF LockInv, Inv1, TypeOK
  <2>2. /\ new.src = n /\ new.type = "Prepare" /\ new.seq = current[n].sequence
        /\ new.round = current[n].round
    BY DEF message
  <2> HIDE DEF cur, new
  <2>3. Supported(n)'
    BY <1>2, <1>5, <2>1, SameSupported
  <2>4. \A k \in msgs' \ msgs : /\ k.type = "Prepare" /\ k.seq = current[n].sequence
                                /\ k.round = current[n].round
    BY <1>5, <2>2, Zenon DEF new
  <2>5. SentBehind(n)'
    <3>1. \A k \in msgs' \ msgs : /\ k.type = "Prepare" => PrepareBehind(n, k)'
                                  /\ k.type = "Commit" => CommitLocked(n, k)'
      BY <1>2, <1>5, <2>1, <2>4 DEF PrepareBehind
    <3> QED BY <1>2, <1>5, <2>1, <3>1, SameRoundSent, Zenon
  <2>6. PrepareOnce'
    <3>1. ASSUME NEW k \in msgs, k.type = "Prepare", k.src = n, n \notin restarted,
                 k.seq = new.seq, k.round = new.round
          PROVE  FALSE
      <4>1. PrepareBehind(n, k)
        BY <3>1 DEF LockInv, SentBehind
      <4>2. current[n].round \in Nat
        BY Parts, BoundsAssumption DEF LockInv, Inv1, Rounds
      <4>3. k.seq = current[n].sequence /\ k.round = current[n].round
            /\ state[n] = "AcceptRequest"
        BY <1>5, <2>2, <3>1
      <4> QED BY <1>2, <4>1, <4>2, <4>3 DEF PrepareBehind
    <3>2. PrepareOnce /\ msgs' = msgs \cup {new} /\ restarted' = restarted
      BY <1>5 DEF LockInv, new
    <3> QED BY <2>2, <3>1, <3>2 DEF PrepareOnce
  <2>7. msgs \subseteq msgs' /\ \A k \in msgs' \ msgs : k.src = n
    BY <1>5, <2>2 DEF new
  <2> QED BY <1>5, <2>3, <2>5, <2>6, <2>7, OwnLocks, Zenon DEF LockInv, Inv1, TypeOK
<1> QED
  BY <1>1, <1>4, <1>5 DEF handlePreprepare, acceptable, checkMessage, chainVars

\* One more sender is counted; when the proposal is locked, it has a quorum or
\* was locked before.
LEMMA CountedSupported ==
  ASSUME Counting, LockInv, Inv1', NEW n \in Validators, NEW m \in msgs, NEW cur \in RoundState,
         NEW lock, msgs \subseteq msgs',
         m.type \in {"Prepare", "Commit"}, checkMessage(n, m), verifySubject(n, m),
         cur.sequence = current[n].sequence, cur.round = current[n].round,
         cur.preprepare = current[n].preprepare,
         cur.prepares \cup cur.commits \subseteq current[n].prepares \cup current[n].commits \cup {m.src},
         current'[n].sequence = cur.sequence, current'[n].round = cur.round,
         current'[n].preprepare = cur.preprepare, current'[n].prepares = cur.prepares,
         current'[n].commits = cur.commits, state'[n] # "AcceptRequest",
         \/ current'[n].lockedHash = current[n].lockedHash
         \/ /\ current'[n].lockedHash = cur.preprepare
            /\ Cardinality(lock) >= QuorumSize(valSet) /\ lock \subseteq cur.prepares \cup cur.commits
  PROVE  Supported(n)'
<1> DEFINE s == current[n].sequence
           k == current[n].round
           b == current[n].preprepare
<1>1. Supported(n)
  BY Zenon DEF LockInv
<1>2. SupportIn(msgs, s, k, b) \subseteq SupportIn(msgs', s, k, b)
      /\ SupportIn(msgs', s, k, b) \in SUBSET Validators
  BY SupportStays, Zenon
<1>3. cur.prepares \cup cur.commits \subseteq SupportIn(msgs', s, k, b)
  <2>1. m.src \in SupportIn(msgs, s, k, b)
    BY Zenon DEF SupportIn, checkMessage, verifySubject
  <2> QED BY <1>1, <1>2, <2>1, Zenon DEF Supported
<1>4. CASE current'[n].lockedHash = current[n].lockedHash
  <2>1. \A r \in 0 .. k :
          Cardinality(SupportIn(msgs, s, r, current[n].lockedHash)) >= QuorumSize(valSet) =>
          Cardinality(SupportIn(msgs', s, r, current[n].lockedHash)) >= QuorumSize(valSet)
    BY QuorumStays, Zenon DEF LockInv
  <2> QED BY <1>1, <1>3, <1>4, <2>1, Zenon DEF Supported
<1>5. CASE /\ current'[n].lockedHash = cur.preprepare
           /\ Cardinality(lock) >= QuorumSize(valSet) /\ lock \subseteq cur.prepares \cup cur.commits
  <2>1. lock \in SUBSET SupportIn(msgs', s, k, b)
    BY <1>3, <1>5, Zenon
  <2>2. Cardinality(SupportIn(msgs', s, k, b)) >= QuorumSize(valSet)
    <3>1. /\ Cardinality(SupportIn(msgs', s, k, b)) \in Nat /\ Cardinality(lock) \in Nat
          /\ Cardinality(lock) <= Cardinality(SupportIn(msgs', s, k, b))
      BY <1>2, <2>1, Counted, Zenon
    <3>2. Cardinality(lock) >= QuorumSize(valSet) /\ QuorumSize(valSet) \in Nat
      BY <1>5, QuorumType, Zenon
    <3> HIDE DEF s, k, b
    <3> QED BY <3>1, <3>2, Reaches, ZenonT(30)
  <2>3. k \in 0 .. k
    <3>1. k \in Nat
      BY Numbers, Zenon
    <3> QED BY <3>1
  <2> QED BY <1>3, <1>5, <2>2, <2>3, Zenon DEF Supported
<1> QED BY <1>4, <1>5, Zenon

LEMMA HandlePrepareLocks ==
  ASSUME Counting, LockInv, Inv1', NEW n \in Validators, NEW m \in msgs, handlePrepare(n, m)
  PROVE  LockInv'
<1> DEFINE cur == [current[n] EXCEPT !.prepares = @ \cup {m.src}]
           locked == [cur EXCEPT !.lockedHash = cur.preprepare]
<1>1. /\ m.type = "Prepare" /\ checkMessage(n, m) /\ verifySubject(n, m)
      /\ state[n] # "AcceptRequest" /\ ~ waitingForRoundChange[n]
      /\ m.src \in Validators /\ current[n] \in RoundState
      /\ UNCHANGED <<waitingForRoundChange, badBlocks, restarted>>
      /\ IsHashLocked(n) => current[n].preprepare = current[n].lockedHash
  BY Parts DEF handlePrepare, checkMessage, chainVars, LockInv, Inv1, ProposalAtHand
<1>2. /\ cur \in RoundState /\ cur.sequence = current[n].sequence
      /\ cur.round = current[n].round /\ cur.preprepare = current[n].preprepare
      /\ cur.lockedHash = current[n].lockedHash
      /\ cur.prepares = current[n].prepares \cup {m.src} /\ cur.commits = current[n].commits
  BY <1>1 DEF RoundState
<1>3. /\ locked.sequence = cur.sequence /\ locked.round = cur.round
      /\ locked.preprepare = cur.preprepare /\ locked.lockedHash = cur.preprepare
      /\ locked.prepares = cur.prepares /\ locked.commits = cur.commits
  BY <1>1 DEF RoundState
<1>4. CASE /\ isPrepared(n, cur, m.digest) /\ current' = [current EXCEPT ![n] = locked]
           /\ state' = [state EXCEPT ![n] = "Prepared"] /\ sendCommit(n, cur)
  <2>1. current'[n] = locked /\ state'[n] = "Prepared"
    BY <1>4 DEF LockInv, Inv1, TypeOK
  <2>2. /\ msgs \subseteq msgs'
        /\ \A k \in msgs' \ msgs : /\ k.src = n /\ k.type = "Commit"
                                   /\ k.seq = cur.sequence /\ k.digest = cur.preprepare
    BY <1>4, SendCommitAdds, Zenon
  <2>3. \/ locked.lockedHash = current[n].lockedHash
        \/ Cardinality(cur.prepares \cup cur.commits) >= QuorumSize(valSet)
    BY <1>1, <1>2, <1>3, <1>4 DEF isPrepared, verifySubject
  <2>5. current[n].sequence \in Nat
    BY <1>1, Zenon DEF RoundState
  <2> HIDE DEF cur, locked
  <2>4. Supported(n)'
    BY <1>1, <1>2, <1>3, <2>1, <2>2, <2>3, CountedSupported, Zenon
  <2>6. \A k \in msgs' \ msgs : /\ k.type = "Prepare" => PrepareBehind(n, k)'
                                /\ k.type = "Commit" => CommitLocked(n, k)'
    <3>1. \A k \in msgs' \ msgs : /\ k.type = "Commit" /\ k.seq = current'[n].sequence
                                  /\ k.digest = current'[n].lockedHash /\ k.seq \in Nat
      BY <1>2, <1>3, <2>1, <2>2, <2>5
    <3> QED BY <3>1, CommitOfLock
  <2>7. SentBehind(n)'
    BY <1>1, <1>2, <1>3, <2>1, <2>6, SameRoundSent, Zenon
  <2>8. PrepareOnce'
    BY <1>1, <2>2, NoPrepare, Zenon DEF LockInv
  <2> QED BY <1>1, <1>4, <2>2, <2>4, <2>7, <2>8, OwnLocks, Zenon DEF LockInv, Inv1, TypeOK
<1>5. CASE current' = [current EXCEPT ![n] = cur] /\ UNCHANGED <<state, msgs>>
  <2>1. current'[n] = cur
    BY <1>5 DEF LockInv, Inv1, TypeOK
  <2> HIDE DEF cur, locked
  <2>2. Supported(n)'
    BY <1>1, <1>2, <1>5, <2>1, CountedSupported, ZenonT(30)
  <2>3. SentBehind(n)'
    BY <1>1, <1>2, <1>5, <2>1, SameRoundSent
  <2>4. PrepareOnce'
    BY <1>1, <1>5, NoPrepare, Zenon DEF LockInv
  <2> QED BY <1>1, <1>5, <2>2, <2>3, <2>4, OwnLocks, Zenon DEF LockInv, Inv1, TypeOK
<1> QED BY <1>4, <1>5 DEF handlePrepare

LEMMA HandleCommitLocks ==
  ASSUME Counting, LockInv, Inv1', NEW n \in Validators, NEW m \in msgs, handleCommit(n, m)
  PROVE  LockInv'
<1> DEFINE cur == [current[n] EXCEPT !.commits = @ \cup {m.src}]
           locked == [cur EXCEPT !.lockedHash = cur.preprepare]
<1>1. /\ m.type = "Commit" /\ checkMessage(n, m) /\ verifySubject(n, m)
      /\ state[n] # "AcceptRequest"
      /\ m.src \in Validators /\ current[n] \in RoundState
      /\ UNCHANGED <<waitingForRoundChange, badBlocks, restarted, msgs>>
      /\ IsHashLocked(n) => current[n].preprepare = current[n].lockedHash
  BY Parts DEF handleCommit, checkMessage, chainVars, LockInv, Inv1, ProposalAtHand
<1>2. /\ cur \in RoundState /\ cur.sequence = current[n].sequence
      /\ cur.round = current[n].round /\ cur.preprepare = current[n].preprepare
      /\ cur.lockedHash = current[n].lockedHash
      /\ cur.commits = current[n].commits \cup {m.src} /\ cur.prepares = current[n].prepares
  BY <1>1 DEF RoundState
<1>3. /\ locked.sequence = cur.sequence /\ locked.round = cur.round
      /\ locked.preprepare = cur.preprepare /\ locked.lockedHash = cur.preprepare
      /\ locked.prepares = cur.prepares /\ locked.commits = cur.commits
  BY <1>1 DEF RoundState
<1>4. \/ /\ Cardinality(cur.commits) >= QuorumSize(valSet)
         /\ current' = [current EXCEPT ![n] = locked]
         /\ state' = [state EXCEPT ![n] = "Committed"]
      \/ current' = [current EXCEPT ![n] = cur] /\ UNCHANGED state
  BY DEF handleCommit
<1>5. /\ \/ Cardinality(cur.commits) >= QuorumSize(valSet) /\ current'[n] = locked
         \/ current'[n] = cur
      /\ state'[n] # "AcceptRequest"
      /\ \A q \in Validators \ {n} : current'[q] = current[q] /\ state'[q] = state[q]
  BY <1>1, <1>4, Zenon DEF LockInv, Inv1, TypeOK
<1> HIDE DEF cur, locked
<1>6. Supported(n)'
  <2>1. cur.commits \subseteq cur.prepares \cup cur.commits
    OBVIOUS
  <2>2. cur.prepares \cup cur.commits
          \subseteq current[n].prepares \cup current[n].commits \cup {m.src}
    BY <1>2
  <2>3. CASE Cardinality(cur.commits) >= QuorumSize(valSet) /\ current'[n] = locked
    BY <1>1, <1>2, <1>3, <1>5, <2>1, <2>2, <2>3, CountedSupported, ZenonT(30)
  <2>4. CASE current'[n] = cur
    BY <1>1, <1>2, <1>5, <2>2, <2>4, CountedSupported
  <2> QED BY <1>5, <2>3, <2>4
<1>7. SentBehind(n)'
  BY <1>1, <1>2, <1>3, <1>5, SameRoundSent, ZenonT(30)
<1>8. PrepareOnce'
  BY <1>1, NoPrepare, Zenon DEF LockInv
<1> QED BY <1>1, <1>5, <1>6, <1>7, <1>8, OwnLocks, Zenon

-----------------------------------------------------------------------------
(* All steps.                                                               *)

\* Steps that touch neither a round state nor a message.
LEMMA QuietLocks ==
  ASSUME Counting, LockInv, Inv1', UNCHANGED <<current, state, waitingForRoundChange, msgs, restarted>>,
         \A q \in Validators : badBlocks[q] \subseteq badBlocks'[q]
  PROVE  LockInv'
<1>1. ASSUME NEW q \in Validators PROVE Supported(q)' /\ SentBehind(q)'
  BY <1>1, OthersLocks
<1>2. PrepareOnce'
  BY NoPrepare DEF LockInv
<1> QED BY <1>1, <1>2 DEF LockInv

LEMMA HandleRoundChangeLocks ==
  ASSUME Counting, LockInv, Inv1', NEW n \in Validators, NEW m \in msgs, handleRoundChange(n, m)
  PROVE  LockInv'
<1>1. m.round \in Rounds
  BY Parts DEF LockInv, Inv1
<1>2. \/ \E rcs : sendRoundChange(n, m.round, rcs)
      \/ startNewRound(n, m.round) /\ (waitingForRoundChange[n] \/ current[n].round < m.round)
      \/ UNCHANGED <<current, state, waitingForRoundChange, msgs, restarted, badBlocks>>
  BY DEF handleRoundChange, chainVars
<1> QED BY <1>1, <1>2, SendRoundChangeLocks, StartNewRoundLocks, QuietLocks

LEMMA RestartLocks ==
  ASSUME Counting, LockInv, Inv1', NEW n \in Validators, Restart(n)
  PROVE  LockInv'
<1>1. lastNumber(n) + 1 \in Nat
  <2>1. lastNumber(n) \in Nat
    BY FreshRoundState DEF LockInv, Inv1
  <2> QED BY <2>1
<1> QED BY <1>1, NewHeightLocks, Zenon DEF Restart

LEMMA NextLocks ==
  ASSUME Counting PROVE LockInv /\ [Next]_vars => LockInv'
<1> SUFFICES ASSUME LockInv, [Next]_vars PROVE LockInv'
  OBVIOUS
<1>1. Inv1' /\ Started \subseteq Validators /\ 0 \in Rounds
  BY NextInv1, StartedAssumption, BoundsAssumption DEF LockInv, Rounds
<1>2. ASSUME NEW n \in Started, handleTimeoutMsg(n) \/ handleFinalCommitted(n) PROVE LockInv'
  <2>1. (\E r, rcs : sendRoundChange(n, r, rcs)) \/ startNewRound(n, 0)
    BY <1>2 DEF handleTimeoutMsg, handleFinalCommitted, sendNextRoundChange
  <2> QED BY <1>1, <2>1, SendRoundChangeLocks, StartNewRoundLocks, Zenon
<1>3. ASSUME NEW n \in Started, handleEvents(n) PROVE LockInv'
  BY <1>1, <1>2, <1>3, HandleRequestLocks, HandlePreprepareLocks, HandlePrepareLocks,
     HandleCommitLocks, HandleRoundChangeLocks DEF handleEvents
<1>4. ASSUME NEW n \in Started, \/ \E b \in enqueued[n] : insertBlock(n, b)
                                \/ \E p \in Started : importBlock(n, p)
      PROVE  LockInv'
  <2>1. /\ UNCHANGED <<current, state, waitingForRoundChange, msgs, restarted>>
        /\ UNCHANGED badBlocks \/ \E b : badBlocks' = [badBlocks EXCEPT ![n] = @ \cup {b}]
    BY <1>4, Zenon DEF insertBlock, importBlock, coreVars
  <2>2. \A q \in Validators : badBlocks[q] \subseteq badBlocks'[q]
    <3>1. ASSUME NEW b, badBlocks' = [badBlocks EXCEPT ![n] = @ \cup {b}],
                 NEW q \in Validators
          PROVE  badBlocks'[q] = badBlocks[q] \/ badBlocks'[q] = badBlocks[q] \cup {b}
      BY <3>1 DEF LockInv, Inv1, TypeOK
    <3> QED BY <2>1, <3>1, Zenon
  <2> QED BY <1>1, <2>1, <2>2, QuietLocks
<1>5. ASSUME NEW n \in Started, Restart(n) PROVE LockInv'
  BY <1>1, <1>5, RestartLocks
<1>6. CASE UNCHANGED vars
  BY <1>1, <1>6, QuietLocks DEF vars, coreVars, chainVars
<1> QED BY <1>3, <1>4, <1>5, <1>6 DEF Next

LEMMA InitLocks == Init => LockInv
<1> SUFFICES ASSUME Init PROVE LockInv
  OBVIOUS
<1>1. Inv1
  BY InitInv1
<1>2. \A n \in Validators : current[n] = newRoundState(1, 0, None, None, None)
  BY DEF Init
<1>3. \A n \in Validators : Supported(n) /\ SentBehind(n)
  BY <1>2, Zenon DEF Init, Supported, SentBehind, newRoundState
<1>4. PrepareOnce
  BY DEF Init, PrepareOnce
<1> QED BY <1>1, <1>3, <1>4 DEF LockInv

-----------------------------------------------------------------------------
(* The counting is right.                                                   *)
INSTANCE FiniteSetTheorems

LEMMA CountingHolds == Counting
<1>1. Cardinality({}) = 0
  BY FS_EmptySet
<1>2. ASSUME NEW T \in SUBSET Validators
      PROVE  IsFiniteSet(T) /\ Cardinality(T) \in Nat
  BY ValSetAssumption, FS_Subset, FS_CardinalityType
<1>3. ASSUME NEW T \in SUBSET Validators, NEW S \in SUBSET T
      PROVE  Cardinality(S) <= Cardinality(T)
  BY <1>2, FS_Subset
<1>4. ASSUME NEW T \in SUBSET Validators, NEW v \in Validators
      PROVE  Cardinality(T \cup {v}) <= Cardinality(T) + 1
  <2>1. IsFiniteSet(T) /\ Cardinality(T) \in Nat
    BY <1>2
  <2>2. \/ Cardinality(T \cup {v}) = Cardinality(T)
        \/ Cardinality(T \cup {v}) = Cardinality(T) + 1
    BY <2>1, FS_AddElement
  <2> QED BY <2>1, <2>2
<1> QED BY <1>1, <1>2, <1>3, <1>4 DEF Counting

-----------------------------------------------------------------------------
(* The theorems about rounds and locks.                                     *)

\* A validator works in a round above 0 only once a quorum of validators has
\* asked for that very round (handleRoundChange, startNewRound), for any number
\* of validators, rounds, heights and restarts.
THEOREM RoundsHaveQuorum == Spec => []RoundHasQuorum
<1>1. Init => AskInv
  <2>1. Init => TypeOK
    BY InitInv1 DEF Inv1
  <2>2. ASSUME Init, NEW n \in Validators
        PROVE  /\ current[n].round = 0
               /\ \A r \in Rounds : roundChangeSet[n][r] = {}
    BY <2>2 DEF Init, newRoundState
  <2> QED BY <2>1, <2>2 DEF AskInv, RoundAsked
<1>2. AskInv => RoundHasQuorum
  BY DEF AskInv, RoundAsked, RoundHasQuorum, Askers
<1>3. Inv1 /\ AskInv /\ [Next]_vars => AskInv'
  BY NextAsked, CountingHolds
<1> QED
  BY <1>1, <1>2, <1>3, InitInv1, NextInv1, PTL DEF Spec

\* With at least four validators no core waits for its round with a quorum of
\* ROUND CHANGEs for it at hand: the exact comparisons of handleRoundChange with
\* F()+1 and QuorumSize() are never stepped over.
THEOREM QuorumsStartRounds ==
  ASSUME F(valSet) > 0
  PROVE  Spec => []QuorumStartsRound
<1>1. Init => FewInv
  <2>1. Init => TypeOK
    BY InitInv1 DEF Inv1
  <2>2. Cardinality({}) < QuorumSize(valSet)
    BY QuorumType, CountedNone, CountingHolds DEF QuorumSize
  <2> QED BY <2>1, <2>2 DEF Init, FewInv, FewAsk
<1>2. Inv1 /\ FewInv /\ [Next]_vars => FewInv'
  BY NextFew, CountingHolds, Zenon
<1>3. FewInv => QuorumStartsRound
  BY Parts DEF FewInv, FewAsk, QuorumStartsRound
<1> QED
  BY <1>1, <1>2, <1>3, InitInv1, NextInv1, PTL DEF Spec

LEMMA LocksHold == Spec => []LockInv
<1>1. LockInv /\ [Next]_vars => LockInv'
  BY NextLocks, CountingHolds
<1> QED BY <1>1, InitLocks, PTL DEF Spec

\* A lock rests on a quorum of PREPAREs and COMMITs for the locked block in one
\* round so far (handlePrepare and handleCommit before LockHash).
THEOREM LocksHaveQuorum == Spec => []LockHasQuorum
<1>1. LockInv => LockHasQuorum
  BY Zenon DEF LockInv, Supported, LockHasQuorum, Supporters, SupportIn
<1> QED BY <1>1, LocksHold, PTL

\* A core stays locked on what it has committed to through every round change of
\* the height, unless the block turned out to be bad (updateRoundState).
THEOREM CommitsStayLocked == Spec => []CommitStaysLocked
<1>1. LockInv => CommitStaysLocked
  <2> SUFFICES ASSUME LockInv, NEW m \in msgs, m.type = "Commit", m.src \notin restarted,
                      m.seq = current[m.src].sequence, ~ HasBadProposal(m.src, m.digest)
               PROVE  current[m.src].lockedHash = m.digest
    BY DEF CommitStaysLocked
  <2>1. m.src \in Validators
    BY Parts DEF LockInv, Inv1
  <2> QED BY <2>1 DEF LockInv, SentBehind, CommitLocked
<1> QED BY <1>1, LocksHold, PTL

\* A core prepares one block per view, even when the proposer sent two
\* (handlePreprepare accepts a proposal in AcceptRequest only).
THEOREM PreparesOnce == Spec => []PrepareOnce
<1>1. LockInv => PrepareOnce
  BY DEF LockInv
<1> QED BY <1>1, LocksHold, PTL

-----------------------------------------------------------------------------
(* Agreement, and the chains as a ledger.                                   *)

\* Two quorums have more validators in common than a set that is smaller than
\* QuorumOverlap.
LEMMA QuorumsIntersect ==
  ASSUME NEW S \in SUBSET Validators, NEW T \in SUBSET Validators,
         NEW R \in SUBSET Validators,
         Cardinality(S) >= QuorumSize(valSet), Cardinality(T) >= QuorumSize(valSet),
         Cardinality(R) < QuorumOverlap(valSet)
  PROVE  \E s \in S \cap T : s \notin R
<1>1. IsFiniteSet(Validators) /\ Cardinality(Validators) = Len(valSet)
  BY ValSetAssumption
<1>2. IsFiniteSet(S) /\ IsFiniteSet(T) /\ IsFiniteSet(R) /\ IsFiniteSet(S \cap T)
  <2>1. S \cap T \in SUBSET Validators
    OBVIOUS
  <2> QED
    BY <1>1, <2>1, FS_Subset
<1>3. /\ Cardinality(S) \in Nat /\ Cardinality(T) \in Nat /\ Cardinality(R) \in Nat
      /\ Cardinality(S \cap T) \in Nat
  BY <1>2, FS_CardinalityType
<1>4. Cardinality(S \cup T) = Cardinality(S) + Cardinality(T) - Cardinality(S \cap T)
  BY <1>2, FS_Union
<1>5. Cardinality(S \cup T) <= Len(valSet)
  <2>1. S \cup T \in SUBSET Validators
    OBVIOUS
  <2> QED
    BY <1>1, <2>1, FS_Subset, Zenon
<1>6. Cardinality(S \cap T) > Cardinality(R)
  BY <1>3, <1>4, <1>5, QuorumType DEF QuorumOverlap
<1>7. ~ (S \cap T \in SUBSET R)
  BY <1>2, <1>3, <1>6, FS_Subset
<1> QED
  BY <1>7

LEMMA Inv2Agreement == Inv2 => Agreement
<1> SUFFICES ASSUME Inv2, Cardinality(restarted) < QuorumOverlap(valSet),
                    NEW n \in Validators, NEW p \in Validators,
                    NEW b \in Committed(n), NEW c \in Committed(p),
                    b.number = c.number
             PROVE  b = c
  BY DEF Agreement
<1>1. Certified(b) /\ Certified(c)
  BY DEF Inv2, Certificates
<1>2. PICK r \in Rounds, S \in SUBSET Validators :
        /\ Cardinality(S) >= QuorumSize(valSet)
        /\ \A s \in S : CommitOf(s, r, b) \in msgs
  BY <1>1 DEF Certified
<1>3. PICK t \in Rounds, T \in SUBSET Validators :
        /\ Cardinality(T) >= QuorumSize(valSet)
        /\ \A s \in T : CommitOf(s, t, c) \in msgs
  BY <1>1 DEF Certified
<1>4. restarted \in SUBSET Validators
  BY DEF Inv2, Inv1, TypeOK
<1>5. PICK s \in S \cap T : s \notin restarted
  BY <1>2, <1>3, <1>4, QuorumsIntersect, ZenonT(30)
<1>6. CommitOf(s, r, b) = CommitOf(s, t, c)
  BY <1>2, <1>3, <1>5 DEF Inv2, MsgInv, CommitOnce, CommitOf
<1> QED
  BY <1>6 DEF CommitOf

\* No two validators commit different blocks at one height, for every validator
\* set, whatever messages are lost, delayed, reordered or handled twice.
THEOREM AgreementHolds == Spec => []Agreement
<1>1. Inv2 => Agreement
  BY Inv2Agreement
<1> QED
  BY <1>1, Inv2Holds, PTL

\* As long as fewer validators may restart than two quorums share, the chains of
\* the validators implement the abstract ledger (ImplementsLedger).
THEOREM LedgerRefined ==
  ASSUME Cardinality(Restartable) < QuorumOverlap(valSet)
  PROVE  Spec => ImplementsLedger
<1>1. Init => L!Init
  BY DEF Init, L!Init
<1>2. Inv3 /\ [Next]_vars => [L!Next]_chain
  <2> SUFFICES ASSUME Inv3, [Next]_vars, chain' # chain
               PROVE  L!Next
    BY DEF L!Next
  <2>1. PICK n \in Validators, b \in Proposals :
          /\ \E p \in Validators : b \in Committed(p)
          /\ b.number = lastNumber(n) + 1
          /\ chain' = [chain EXCEPT ![n] = Append(@, b)]
    BY ChainSteps
  <2>2. Cardinality(restarted) < QuorumOverlap(valSet)
    <3>1. IsFiniteSet(Restartable)
      BY ValSetAssumption, BoundsAssumption, FS_Subset
    <3>2. restarted \in SUBSET Restartable
      BY DEF Inv3
    <3>3. IsFiniteSet(restarted) /\ Cardinality(restarted) <= Cardinality(Restartable)
      BY <3>1, <3>2, FS_Subset, ZenonT(30)
    <3> QED
      BY <3>1, <3>3, FS_CardinalityType, QuorumType
  <2>3. ASSUME NEW q \in Validators, lastNumber(n) + 1 <= Len(chain[q])
        PROVE  chain[q][lastNumber(n) + 1] = b
    <3>1. lastNumber(n) + 1 \in DOMAIN chain[q]
      <4>1. chain[q] \in Seq(Proposals) /\ lastNumber(n) \in Nat
        BY ChainParts DEF Inv3, Inv2, Inv1
      <4>2. DOMAIN chain[q] = 1 .. Len(chain[q]) /\ Len(chain[q]) \in Nat
        BY <4>1
      <4> QED BY <2>3, <4>1, <4>2
    <3>2. /\ chain[q][lastNumber(n) + 1] \in Committed(q)
          /\ chain[q][lastNumber(n) + 1].number = lastNumber(n) + 1
      BY <3>1 DEF Committed, Inv3, ChainNumbers
    <3>3. Agreement
      BY Inv2Agreement DEF Inv3
    <3> QED
      BY <2>1, <2>2, <3>2, <3>3 DEF Agreement
  <2>4. L!Extend(n, b)
    BY <2>1, <2>3 DEF L!Extend, L!Undisputed, lastNumber
  <2> QED
    BY <2>4 DEF L!Next
<1> QED
  BY <1>1, <1>2, InitInv3, NextInv3, PTL DEF Spec, ImplementsLedger, L!Spec
=============================================================================
