--------------------------- MODULE IbftCoreProofs ---------------------------
(* Proofs about IbftCore, for every set of validators, blocks and bounds.   *)
EXTENDS IbftCore, TLAPS

-----------------------------------------------------------------------------
(* Operators of the model.                                                  *)

\* The round robin always picks a member of the validator set.
LEMMA ProposerIsValidator ==
  ASSUME NEW p, NEW r \in Nat
  PROVE  roundRobinProposer(valSet, p, r) \in Validators
<1>1. Len(valSet) \in Nat \ {0} /\ DOMAIN valSet = 1 .. Len(valSet)
  BY ValSetAssumption
<1> DEFINE seed == IF p = NoAddress THEN r ELSE calcSeed(valSet, p, r) + 1
<1>2. (\E i \in DOMAIN valSet : valSet[i] = p) =>
        \E i \in 0 .. Len(valSet) - 1 : valSet[i + 1] = p
  <2>1. ASSUME NEW i \in DOMAIN valSet, valSet[i] = p
        PROVE  i - 1 \in 0 .. Len(valSet) - 1 /\ valSet[(i - 1) + 1] = p
    <3>1. i \in Nat /\ 1 <= i /\ i <= Len(valSet)
      BY <1>1
    <3>2. (i - 1) + 1 = i
      BY <3>1
    <3> QED
      BY <1>1, <2>1, <3>1, <3>2
  <2> QED
    BY <2>1
<1>3. (\E i \in DOMAIN valSet : valSet[i] = p) =>
        GetByAddress(valSet, p) \in 0 .. Len(valSet) - 1
  BY <1>2, Zenon DEF GetByAddress
<1>4. calcSeed(valSet, p, r) \in Nat
  BY <1>1, <1>3 DEF calcSeed
<1>5. (seed % Len(valSet)) + 1 \in DOMAIN valSet
  BY <1>1, <1>4
<1> QED
  BY <1>5 DEF roundRobinProposer, Validators

\* A new round state is well formed when its parts are.
LEMMA NewRoundStateType ==
  ASSUME NEW s \in Nat, NEW r \in Rounds,
         NEW l \in Proposals \cup {None}, NEW p \in Proposals \cup {None},
         NEW q \in Proposals \cup {None}
  PROVE  newRoundState(s, r, l, p, q) \in RoundState
BY DEF newRoundState, RoundState

\* So is the round state that a round change leaves.
LEMMA UpdateRoundStateType ==
  ASSUME TypeOK, NEW n \in Validators, NEW r \in Rounds
  PROVE  /\ updateRoundState(n, r) \in RoundState
         /\ updateRoundState(n, r).sequence = current[n].sequence
         /\ updateRoundState(n, r).round = r
         /\ updateRoundState(n, r).commits = {}
         /\ updateRoundState(n, r).preprepare \in {current[n].preprepare, None}
<1>1. current[n] \in RoundState
  BY DEF TypeOK
<1>2. /\ current[n].sequence \in Nat
      /\ current[n].lockedHash \in Proposals \cup {None}
      /\ current[n].preprepare \in Proposals \cup {None}
      /\ current[n].pendingRequest \in Proposals \cup {None}
  BY <1>1 DEF RoundState
<1>3. updateRoundState(n, r) \in RoundState
  BY <1>2, NewRoundStateType, Zenon DEF updateRoundState
<1> QED
  BY <1>3 DEF updateRoundState, newRoundState

\* A message is well formed: a digest with every type but ROUND CHANGE.
LEMMA MessageType ==
  ASSUME NEW n \in Validators, NEW cur \in RoundState
  PROVE  /\ \A t \in {"Preprepare", "Prepare", "Commit"}, d \in Proposals :
              message(t, n, cur, d) \in Message
         /\ message("RoundChange", n, cur, None) \in Message
BY DEF message, Message, RoundState

\* The PRE-PREPARE that is sent, if any, is well formed.
LEMMA SendPreprepareType ==
  ASSUME NEW n \in Validators, NEW cur \in RoundState, NEW p, NEW b \in Proposals
  PROVE  sendPreprepare(n, cur, p, b) \subseteq Message
BY MessageType DEF sendPreprepare

-----------------------------------------------------------------------------
(* Type correctness.  It is not inductive alone: the PRE-PREPARE of a locked *)
(* proposer carries a proposal only because ProposalAtHand holds.           *)

Inv1 == TypeOK /\ ProposalAtHand

\* The round state of a new sequence, and the number of the chain's head.
LEMMA FreshRoundState ==
  ASSUME TypeOK, NEW n \in Validators
  PROVE  /\ lastNumber(n) \in Nat
         /\ newRoundState(lastNumber(n) + 1, 0, None, None, None) \in RoundState
<1>1. lastNumber(n) \in Nat
  BY DEF TypeOK, lastNumber
<1>2. 0 \in Rounds /\ None \in Proposals \cup {None}
  BY BoundsAssumption DEF Rounds
<1>3. \A s \in Nat : newRoundState(s, 0, None, None, None) \in RoundState
  BY <1>2, NewRoundStateType
<1> QED
  BY <1>1, <1>3

\* What the messages and the own round state of n are made of.
LEMMA Parts ==
  ASSUME TypeOK
  PROVE  /\ \A n \in Validators : /\ current[n] \in RoundState
                                  /\ current[n].sequence \in Nat
                                  /\ current[n].round \in Rounds
                                  /\ current[n].preprepare \in Proposals \cup {None}
                                  /\ current[n].lockedHash \in Proposals \cup {None}
                                  /\ current[n].prepares \subseteq Validators
                                  /\ current[n].commits \subseteq Validators
                                  /\ roundChangeSet[n] \in [Rounds -> SUBSET Validators]
         /\ \A m \in msgs : /\ m.src \in Validators /\ m.seq \in Nat /\ m.round \in Rounds
                            /\ m.type # "RoundChange" => m.digest \in Proposals
                            /\ m.type = "RoundChange" => m.digest = None
<1>1. \A n \in Validators : current[n] \in RoundState
  BY DEF TypeOK
<1>2. \A m \in msgs : m \in Message
  BY DEF TypeOK
<1>3. \A n \in Validators : roundChangeSet[n] \in [Rounds -> SUBSET Validators]
  BY DEF TypeOK
<1>4. \A m \in Message : /\ m.src \in Validators /\ m.seq \in Nat /\ m.round \in Rounds
                         /\ m.type # "RoundChange" => m.digest \in Proposals
                         /\ m.type = "RoundChange" => m.digest = None
  BY DEF Message
<1> QED
  BY <1>1, <1>2, <1>3, <1>4 DEF RoundState

\* The blocks of a chain are proposals, and a chain stays a sequence of them.
LEMMA ChainParts ==
  ASSUME TypeOK, NEW n \in Validators
  PROVE  /\ chain[n] \in Seq(Proposals) /\ lastNumber(n) \in Nat
         /\ \A i \in 1 .. lastNumber(n) : chain[n][i] \in Proposals
         /\ \A b \in Proposals : Append(chain[n], b) \in Seq(Proposals)
BY DEF TypeOK, lastNumber

LEMMA InitInv1 == Init => Inv1
<1> SUFFICES ASSUME Init PROVE Inv1
  OBVIOUS
<1>1. 0 \in Rounds /\ None \in Proposals \cup {None}
  BY BoundsAssumption DEF Rounds
<1>2. newRoundState(1, 0, None, None, None) \in RoundState
  BY <1>1, NewRoundStateType
<1>3. roundRobinProposer(valSet, NoAddress, 0) \in Validators
  BY ProposerIsValidator
<1>4. TypeOK
  BY <1>2, <1>3 DEF Init, TypeOK, States
<1>5. ProposalAtHand
  BY DEF Init, ProposalAtHand, IsHashLocked, newRoundState
<1> QED
  BY <1>4, <1>5 DEF Inv1

LEMMA NextInv1 == Inv1 /\ [Next]_vars => Inv1'
\* sendCommit keeps the types.
<1>SendCommitType. ASSUME TypeOK, NEW n \in Validators, NEW cur \in RoundState,
             cur.preprepare \in Proposals, sendCommit(n, cur)
      PROVE  commitHeight' \in [Validators -> Nat] /\ msgs' \subseteq Message
  <2> USE <1>SendCommitType
  <2>1. cur.sequence \in Nat
    BY DEF RoundState
  <2>2. message("Commit", n, cur, cur.preprepare) \in Message
    BY MessageType
  <2> QED
    BY <2>1, <2>2, Zenon DEF sendCommit, TypeOK
\* sendRoundChange keeps the types and the proposal at hand.
<1>SendRoundChangeInv1. ASSUME Inv1, NEW n \in Validators, NEW r,
             NEW rcs \in [Rounds -> SUBSET Validators], sendRoundChange(n, r, rcs)
      PROVE  Inv1'
  <2> USE <1>SendRoundChangeInv1
  <2> USE DEF Inv1
  <2>1. r \in Rounds /\ n \in DOMAIN current
    BY DEF sendRoundChange, TypeOK
  <2>2. updateRoundState(n, r) \in RoundState
    BY <2>1, UpdateRoundStateType
  <2>3. current' \in [Validators -> RoundState] /\ current'[n] = updateRoundState(n, r)
    BY <2>1, <2>2 DEF sendRoundChange, catchUpRound, TypeOK
  <2>4. msgs' \subseteq Message
    BY <2>3, <2>2, MessageType DEF sendRoundChange, catchUpRound, TypeOK
  <2>5. Clear(rcs, r) \in [Rounds -> SUBSET Validators]
    BY DEF Clear
  <2>6. TypeOK'
    BY <2>3, <2>4, <2>5 DEF sendRoundChange, catchUpRound, TypeOK, chainVars
  <2>7. ASSUME NEW q \in Validators
        PROVE  /\ ~ waitingForRoundChange'[q] /\ state'[q] # "AcceptRequest"
                    => current'[q].preprepare # None
               /\ IsHashLocked(q)' => current'[q].preprepare = current'[q].lockedHash
    <3>1. CASE q = n
      <4>1. waitingForRoundChange'[q]
        BY <3>1 DEF sendRoundChange, catchUpRound, TypeOK
      <4>2. IsHashLocked(q)' => current'[q].preprepare = current'[q].lockedHash
        BY <3>1, <2>3 DEF ProposalAtHand, IsHashLocked, updateRoundState, newRoundState
      <4> QED
        BY <4>1, <4>2
    <3>2. CASE q # n
      <4>1. /\ current'[q] = current[q] /\ state' = state /\ badBlocks' = badBlocks
            /\ waitingForRoundChange'[q] = waitingForRoundChange[q]
        BY <3>2 DEF sendRoundChange, catchUpRound, TypeOK, chainVars
      <4> QED
        BY <4>1 DEF ProposalAtHand, IsHashLocked, HasBadProposal
    <3> QED
      BY <3>1, <3>2
  <2> QED
    BY <2>6, <2>7 DEF ProposalAtHand
\* Entering a round does so too, whatever is broadcast in it.
<1>EnterRoundInv1. ASSUME Inv1, NEW n \in Validators, NEW cur \in RoundState, enterRound(n, cur),
             cur.lockedHash # None => cur.preprepare = cur.lockedHash,
             commitHeight' \in [Validators -> Nat], msgs' \subseteq Message,
             requested' \in [Validators -> SUBSET Proposals],
             enqueued' \in [Validators -> SUBSET Proposals],
             restarted' \subseteq Validators, UNCHANGED <<chain, badBlocks>>
      PROVE  Inv1'
  <2> USE <1>EnterRoundInv1
  <2> USE DEF Inv1
  <2>1. current' \in [Validators -> RoundState] /\ current'[n] = cur
    BY DEF enterRound, TypeOK
  <2>2. cur.round \in Nat
    BY BoundsAssumption DEF RoundState, Rounds
  <2>3. roundRobinProposer(valSet, lastProposer(n), cur.round) \in Validators
    BY <2>2, ProposerIsValidator
  <2>4. proposer' \in [Validators -> Validators]
    BY <2>3 DEF enterRound, TypeOK
  <2>5. TypeOK'
    BY <2>1, <2>4 DEF enterRound, TypeOK, States
  <2>6. ASSUME NEW q \in Validators
        PROVE  /\ ~ waitingForRoundChange'[q] /\ state'[q] # "AcceptRequest"
                    => current'[q].preprepare # None
               /\ IsHashLocked(q)' => current'[q].preprepare = current'[q].lockedHash
    <3>1. CASE q = n
      <4>1. state'[q] = "AcceptRequest"
        BY <3>1 DEF enterRound, TypeOK
      <4> QED
        BY <3>1, <4>1, <2>1 DEF IsHashLocked
    <3>2. CASE q # n
      <4>1. /\ current'[q] = current[q] /\ state'[q] = state[q]
            /\ waitingForRoundChange'[q] = waitingForRoundChange[q]
        BY <3>2 DEF enterRound, TypeOK
      <4> QED
        BY <4>1 DEF ProposalAtHand, IsHashLocked, HasBadProposal
    <3> QED
      BY <3>1, <3>2
  <2> QED
    BY <2>5, <2>6 DEF ProposalAtHand
<1>StartNewRoundInv1. ASSUME Inv1, NEW n \in Validators, NEW r \in Rounds, startNewRound(n, r)
      PROVE  Inv1'
  <2> USE <1>StartNewRoundInv1
  <2> DEFINE fresh == newRoundState(lastNumber(n) + 1, 0, None, None, None)
             upd == updateRoundState(n, r)
  <2>1. CASE enterRound(n, fresh) /\ UNCHANGED <<commitHeight, chainVars, msgs>>
    <3>1. fresh \in RoundState
      BY FreshRoundState DEF Inv1
    <3>2. fresh.lockedHash = None
      BY DEF newRoundState
    <3>3. /\ commitHeight' \in [Validators -> Nat] /\ msgs' \subseteq Message
          /\ requested' \in [Validators -> SUBSET Proposals]
          /\ enqueued' \in [Validators -> SUBSET Proposals]
          /\ restarted' \subseteq Validators /\ UNCHANGED <<chain, badBlocks>>
      BY <2>1 DEF chainVars, Inv1, TypeOK
    <3> QED
      BY <2>1, <3>1, <3>2, <3>3, <1>EnterRoundInv1
  <2>2. CASE /\ enterRound(n, upd)
             /\ msgs' = msgs \cup reproposed(n, upd, proposer'[n])
             /\ UNCHANGED <<commitHeight, chainVars>>
    <3>1. upd \in RoundState
      BY UpdateRoundStateType DEF Inv1
    <3>2. upd.lockedHash # None => upd.preprepare = upd.lockedHash
      BY DEF updateRoundState, newRoundState, Inv1, ProposalAtHand
    <3>3. /\ upd.lockedHash # None => upd.preprepare \in Proposals
          /\ upd.pendingRequest # None => upd.pendingRequest \in Proposals
      BY <3>1, <3>2 DEF RoundState
    <3>4. reproposed(n, upd, proposer'[n]) \subseteq Message
      BY <3>1, <3>3, SendPreprepareType DEF reproposed
    <3>5. /\ commitHeight' \in [Validators -> Nat] /\ msgs' \subseteq Message
          /\ requested' \in [Validators -> SUBSET Proposals]
          /\ enqueued' \in [Validators -> SUBSET Proposals]
          /\ restarted' \subseteq Validators /\ UNCHANGED <<chain, badBlocks>>
      BY <2>2, <3>4 DEF chainVars, Inv1, TypeOK
    <3> QED
      BY <2>2, <3>1, <3>2, <3>5, <1>EnterRoundInv1
  <2> QED
    BY <2>1, <2>2 DEF startNewRound
\* The handlers that stay in their round write only the own round state and
\* state; what they must not spoil is the pair of conditions on it.
<1>SameRoundInv1. ASSUME Inv1, NEW n \in Validators, NEW cur \in RoundState, NEW s \in States,
             current' = [current EXCEPT ![n] = cur],
             state' = [state EXCEPT ![n] = s],
             UNCHANGED <<waitingForRoundChange, roundChangeSet, proposer, chain,
                         badBlocks, restarted>>,
             ~ waitingForRoundChange[n] /\ s # "AcceptRequest" => cur.preprepare # None,
             cur.lockedHash # None /\ cur.lockedHash \notin badBlocks[n]
               => cur.preprepare = cur.lockedHash,
             commitHeight' \in [Validators -> Nat], msgs' \subseteq Message,
             requested' \in [Validators -> SUBSET Proposals],
             enqueued' \in [Validators -> SUBSET Proposals]
      PROVE  Inv1'
  <2> USE <1>SameRoundInv1
  <2> USE DEF Inv1
  <2>1. /\ current' \in [Validators -> RoundState] /\ current'[n] = cur
        /\ state' \in [Validators -> States] /\ state'[n] = s
    BY DEF TypeOK
  <2>2. TypeOK'
    BY <2>1 DEF TypeOK
  <2>3. ASSUME NEW q \in Validators
        PROVE  /\ ~ waitingForRoundChange'[q] /\ state'[q] # "AcceptRequest"
                    => current'[q].preprepare # None
               /\ IsHashLocked(q)' => current'[q].preprepare = current'[q].lockedHash
    <3>1. CASE q = n
      BY <3>1, <2>1 DEF IsHashLocked, HasBadProposal
    <3>2. CASE q # n
      <4>1. current'[q] = current[q] /\ state'[q] = state[q]
        BY <3>2 DEF TypeOK
      <4> QED
        BY <4>1 DEF ProposalAtHand, IsHashLocked, HasBadProposal
    <3> QED
      BY <3>1, <3>2
  <2> QED
    BY <2>2, <2>3 DEF ProposalAtHand
<1>HandleRequestInv1. ASSUME Inv1, NEW n \in Validators, NEW b \in Proposals, handleRequest(n, b)
      PROVE  Inv1'
  <2> USE <1>HandleRequestInv1
  <2> DEFINE cur == [current[n] EXCEPT !.pendingRequest = b]
  <2>1. current[n] \in RoundState
    BY Parts DEF Inv1
  <2>2. cur \in RoundState
    BY <2>1 DEF RoundState
  <2>3. sendPreprepare(n, current[n], proposer[n], b) \subseteq Message
    BY <2>1, SendPreprepareType
  <2>4. msgs' \subseteq Message /\ requested' \in [Validators -> SUBSET Proposals]
    BY <2>3 DEF handleRequest, Inv1, TypeOK
  <2>5. /\ current' = [current EXCEPT ![n] = cur]
        /\ state' = [state EXCEPT ![n] = state[n]] /\ state[n] \in States
    BY DEF handleRequest, Inv1, TypeOK
  <2>6. cur.preprepare = current[n].preprepare /\ cur.lockedHash = current[n].lockedHash
    BY <2>1 DEF RoundState
  <2>7. /\ ~ waitingForRoundChange[n] /\ state[n] # "AcceptRequest" => cur.preprepare # None
        /\ cur.lockedHash # None /\ cur.lockedHash \notin badBlocks[n]
             => cur.preprepare = cur.lockedHash
    BY <2>6 DEF Inv1, ProposalAtHand, IsHashLocked, HasBadProposal
  <2>8. /\ UNCHANGED <<waitingForRoundChange, roundChangeSet, proposer, chain, badBlocks,
                       restarted, commitHeight, enqueued>>
        /\ commitHeight' \in [Validators -> Nat]
        /\ enqueued' \in [Validators -> SUBSET Proposals]
    BY DEF handleRequest, Inv1, TypeOK
  <2> QED
    BY <2>2, <2>4, <2>5, <2>7, <2>8, <1>SameRoundInv1, Zenon
<1>HandlePreprepareInv1. ASSUME Inv1, NEW n \in Validators, NEW m \in msgs, handlePreprepare(n, m)
      PROVE  Inv1'
  <2> USE <1>HandlePreprepareInv1
  <2> DEFINE cur == [current[n] EXCEPT !.preprepare = m.digest]
  <2>1. /\ current[n] \in RoundState /\ m.digest \in Proposals
        /\ roundChangeSet[n] \in [Rounds -> SUBSET Validators]
    BY Parts DEF handlePreprepare, Inv1
  <2>2. /\ cur \in RoundState /\ cur.preprepare = m.digest /\ cur.preprepare # None
        /\ cur.lockedHash = current[n].lockedHash
    BY <2>1, ProposalsAssumption DEF RoundState
  <2>3. CASE sendNextRoundChange(n)
    BY <2>3, <2>1, <1>SendRoundChangeInv1 DEF sendNextRoundChange
  <2>4. CASE /\ IsHashLocked(n) /\ m.digest = current[n].lockedHash
             /\ current' = [current EXCEPT ![n] = cur]
             /\ state' = [state EXCEPT ![n] = "Prepared"]
             /\ sendCommit(n, cur)
             /\ UNCHANGED <<waitingForRoundChange, roundChangeSet, proposer, chainVars>>
    <3>1. commitHeight' \in [Validators -> Nat] /\ msgs' \subseteq Message
      BY <2>1, <2>2, <2>4, <1>SendCommitType, Zenon DEF Inv1
    <3>2. /\ UNCHANGED <<waitingForRoundChange, roundChangeSet, proposer, chain, badBlocks, restarted>>
          /\ requested' \in [Validators -> SUBSET Proposals]
          /\ enqueued' \in [Validators -> SUBSET Proposals] /\ "Prepared" \in States
      BY <2>4 DEF chainVars, Inv1, TypeOK, States
    <3> QED
      BY <2>2, <2>4, <3>1, <3>2, <1>SameRoundInv1, Zenon
  <2>5. CASE /\ ~ IsHashLocked(n)
             /\ current' = [current EXCEPT ![n] = cur]
             /\ state' = [state EXCEPT ![n] = "Preprepared"]
             /\ msgs' = msgs \cup {message("Prepare", n, current[n], m.digest)}
             /\ UNCHANGED <<waitingForRoundChange, roundChangeSet, proposer,
                            commitHeight, chainVars>>
    <3>1. message("Prepare", n, current[n], m.digest) \in Message
      BY <2>1, MessageType
    <3>2. /\ UNCHANGED <<waitingForRoundChange, roundChangeSet, proposer, chain, badBlocks, restarted>>
          /\ requested' \in [Validators -> SUBSET Proposals]
          /\ enqueued' \in [Validators -> SUBSET Proposals] /\ "Preprepared" \in States
          /\ commitHeight' \in [Validators -> Nat] /\ msgs' \subseteq Message
      BY <2>5, <3>1 DEF chainVars, Inv1, TypeOK, States
    <3>3. ~ (cur.lockedHash # None /\ cur.lockedHash \notin badBlocks[n])
      BY <2>2, <2>5 DEF IsHashLocked, HasBadProposal
    <3> QED
      BY <2>2, <2>5, <3>2, <3>3, <1>SameRoundInv1, Zenon
  <2> QED
    BY <2>3, <2>4, <2>5 DEF handlePreprepare
<1>HandlePrepareInv1. ASSUME Inv1, NEW n \in Validators, NEW m \in msgs, handlePrepare(n, m)
      PROVE  Inv1'
  <2> USE <1>HandlePrepareInv1
  <2> DEFINE cur == [current[n] EXCEPT !.prepares = @ \cup {m.src}]
             locked == [cur EXCEPT !.lockedHash = cur.preprepare]
  <2>1. /\ current[n] \in RoundState /\ m.src \in Validators
        /\ current[n].preprepare \in Proposals
    BY Parts DEF handlePrepare, verifySubject, Inv1
  <2>2. /\ cur \in RoundState /\ cur.preprepare = current[n].preprepare
        /\ cur.lockedHash = current[n].lockedHash
    BY <2>1 DEF RoundState
  <2>3. /\ locked \in RoundState /\ locked.preprepare = cur.preprepare
        /\ locked.lockedHash = cur.preprepare
    BY <2>1, <2>2, Zenon DEF RoundState
  <2>4. /\ UNCHANGED <<waitingForRoundChange, roundChangeSet, proposer, chain, badBlocks, restarted>>
        /\ requested' \in [Validators -> SUBSET Proposals]
        /\ enqueued' \in [Validators -> SUBSET Proposals]
    BY DEF handlePrepare, chainVars, Inv1, TypeOK
  <2>5. None \notin Proposals /\ "Prepared" \in States
    BY ProposalsAssumption DEF States
  <2>6. CASE /\ current' = [current EXCEPT ![n] = locked]
             /\ state' = [state EXCEPT ![n] = "Prepared"]
             /\ sendCommit(n, cur)
    <3>1. commitHeight' \in [Validators -> Nat] /\ msgs' \subseteq Message
      BY <2>1, <2>2, <2>6, <1>SendCommitType, Zenon DEF Inv1
    <3> QED
      BY <2>1, <2>2, <2>3, <2>4, <2>5, <2>6, <3>1, <1>SameRoundInv1, Zenon
  <2>7. CASE /\ current' = [current EXCEPT ![n] = cur]
             /\ UNCHANGED <<state, commitHeight, msgs>>
    <3>1. /\ commitHeight' \in [Validators -> Nat] /\ msgs' \subseteq Message
          /\ state' = [state EXCEPT ![n] = state[n]] /\ state[n] \in States
      BY <2>7 DEF Inv1, TypeOK
    <3>2. cur.lockedHash # None /\ cur.lockedHash \notin badBlocks[n]
            => cur.preprepare = cur.lockedHash
      BY <2>2 DEF Inv1, ProposalAtHand, IsHashLocked, HasBadProposal
    <3>3. cur.preprepare # None
      BY <2>1, <2>2, <2>5
    <3> QED
      BY <2>2, <2>4, <2>7, <3>1, <3>2, <3>3, <1>SameRoundInv1, Zenon
  <2> QED
    BY <2>6, <2>7 DEF handlePrepare
<1>HandleCommitInv1. ASSUME Inv1, NEW n \in Validators, NEW m \in msgs, handleCommit(n, m)
      PROVE  Inv1'
  <2> USE <1>HandleCommitInv1
  <2> DEFINE cur == [current[n] EXCEPT !.commits = @ \cup {m.src}]
             locked == [cur EXCEPT !.lockedHash = cur.preprepare]
  <2>1. /\ current[n] \in RoundState /\ m.src \in Validators
        /\ current[n].preprepare \in Proposals
    BY Parts DEF handleCommit, verifySubject, Inv1
  <2>2. /\ cur \in RoundState /\ cur.preprepare = current[n].preprepare
        /\ cur.lockedHash = current[n].lockedHash
    BY <2>1 DEF RoundState
  <2>3. /\ locked \in RoundState /\ locked.preprepare = cur.preprepare
        /\ locked.lockedHash = cur.preprepare
    BY <2>1, <2>2, Zenon DEF RoundState
  <2>4. /\ UNCHANGED <<waitingForRoundChange, roundChangeSet, proposer, chain, badBlocks, restarted>>
        /\ requested' \in [Validators -> SUBSET Proposals]
        /\ commitHeight' \in [Validators -> Nat] /\ msgs' \subseteq Message
    BY DEF handleCommit, Inv1, TypeOK
  <2>5. None \notin Proposals /\ "Committed" \in States
    BY ProposalsAssumption DEF States
  <2>6. CASE /\ current' = [current EXCEPT ![n] = locked]
             /\ state' = [state EXCEPT ![n] = "Committed"]
             /\ enqueued' = [enqueued EXCEPT ![n] = @ \cup {cur.preprepare}]
    <3>1. enqueued' \in [Validators -> SUBSET Proposals]
      BY <2>1, <2>2, <2>6 DEF Inv1, TypeOK
    <3> QED
      BY <2>1, <2>2, <2>3, <2>4, <2>5, <2>6, <3>1, <1>SameRoundInv1, Zenon
  <2>7. CASE /\ current' = [current EXCEPT ![n] = cur]
             /\ UNCHANGED <<state, enqueued>>
    <3>1. /\ enqueued' \in [Validators -> SUBSET Proposals]
          /\ state' = [state EXCEPT ![n] = state[n]] /\ state[n] \in States
      BY <2>7 DEF Inv1, TypeOK
    <3>2. cur.lockedHash # None /\ cur.lockedHash \notin badBlocks[n]
            => cur.preprepare = cur.lockedHash
      BY <2>2 DEF Inv1, ProposalAtHand, IsHashLocked, HasBadProposal
    <3>3. cur.preprepare # None
      BY <2>1, <2>2, <2>5
    <3> QED
      BY <2>2, <2>4, <2>7, <3>1, <3>2, <3>3, <1>SameRoundInv1, Zenon
  <2> QED
    BY <2>6, <2>7 DEF handleCommit
\* Steps that leave the round states alone keep the proposal at hand: the bad
\* blocks only become more.
<1>SameStateInv1. ASSUME Inv1, TypeOK', UNCHANGED <<state, waitingForRoundChange, current>>,
             \A n \in Validators : badBlocks[n] \subseteq badBlocks'[n]
      PROVE  Inv1'
  BY <1>SameStateInv1 DEF Inv1, ProposalAtHand, IsHashLocked, HasBadProposal
<1>HandleRoundChangeInv1. ASSUME Inv1, NEW n \in Validators, NEW m \in msgs, handleRoundChange(n, m)
      PROVE  Inv1'
  <2> USE <1>HandleRoundChangeInv1
  <2> DEFINE rcs == [roundChangeSet[n] EXCEPT ![m.round] = @ \cup {m.src}]
  <2>1. m.src \in Validators /\ m.round \in Rounds
        /\ roundChangeSet[n] \in [Rounds -> SUBSET Validators]
    BY Parts DEF Inv1
  <2>2. rcs \in [Rounds -> SUBSET Validators]
    BY <2>1
  <2>3. CASE sendRoundChange(n, m.round, rcs)
    BY <2>2, <2>3, <1>SendRoundChangeInv1
  <2>4. CASE startNewRound(n, m.round)
    BY <2>1, <2>4, <1>StartNewRoundInv1
  <2>5. CASE /\ roundChangeSet' = [roundChangeSet EXCEPT ![n] = rcs]
             /\ UNCHANGED <<state, waitingForRoundChange, current, proposer,
                            commitHeight, chainVars, msgs>>
    <3>1. TypeOK' /\ badBlocks' = badBlocks
      BY <2>2, <2>5 DEF Inv1, TypeOK, chainVars
    <3> QED
      BY <2>5, <3>1, <1>SameStateInv1
  <2> QED
    BY <2>3, <2>4, <2>5 DEF handleRoundChange
<1>HandleTimeoutInv1. ASSUME Inv1, NEW n \in Validators, handleTimeoutMsg(n) \/ handleFinalCommitted(n)
      PROVE  Inv1'
  <2> USE <1>HandleTimeoutInv1
  <2>1. roundChangeSet[n] \in [Rounds -> SUBSET Validators] /\ 0 \in Rounds
    BY Parts, BoundsAssumption DEF Inv1, Rounds
  <2>2. ASSUME NEW r, sendRoundChange(n, r, roundChangeSet[n])
        PROVE  Inv1'
    BY <2>1, <2>2, <1>SendRoundChangeInv1
  <2>3. CASE startNewRound(n, 0)
    BY <2>1, <2>3, <1>StartNewRoundInv1
  <2> QED
    BY <2>2, <2>3 DEF handleTimeoutMsg, handleFinalCommitted, sendNextRoundChange
<1>InsertBlockInv1. ASSUME Inv1, NEW n \in Validators, NEW b, insertBlock(n, b)
      PROVE  Inv1'
  <2> USE <1>InsertBlockInv1
  <2> USE DEF Inv1
  <2>1. b \in Proposals
    BY DEF insertBlock, TypeOK
  <2>2. /\ enqueued' \in [Validators -> SUBSET Proposals]
        /\ UNCHANGED <<coreVars, commitHeight, requested, restarted, msgs>>
    BY DEF insertBlock, TypeOK
  <2>3. chain' \in [Validators -> Seq(Proposals)]
    <3>1. Append(chain[n], b) \in Seq(Proposals)
      BY <2>1, ChainParts
    <3>2. chain' = chain \/ chain' = [chain EXCEPT ![n] = Append(chain[n], b)]
      BY DEF insertBlock
    <3> QED
      BY <3>1, <3>2, Zenon DEF TypeOK
  <2>4. /\ badBlocks' \in [Validators -> SUBSET Proposals]
        /\ \A q \in Validators : badBlocks[q] \subseteq badBlocks'[q]
    <3>1. badBlocks' = badBlocks \/ badBlocks' = [badBlocks EXCEPT ![n] = badBlocks[n] \cup {b}]
      BY DEF insertBlock
    <3>2. badBlocks \in [Validators -> SUBSET Proposals]
      BY DEF TypeOK
    <3>3. badBlocks' \in [Validators -> SUBSET Proposals]
      BY <2>1, <3>1, <3>2
    <3>4. \A q \in Validators : badBlocks'[q] = badBlocks[q] \/ badBlocks'[q] = badBlocks[q] \cup {b}
      BY <3>1, <3>2
    <3> QED
      BY <3>3, <3>4
  <2>5. TypeOK'
    BY <2>2, <2>3, <2>4 DEF TypeOK, coreVars
  <2> QED
    BY <2>2, <2>4, <2>5, <1>SameStateInv1 DEF coreVars
<1>ImportBlockInv1. ASSUME Inv1, NEW n \in Validators, NEW p \in Validators, importBlock(n, p)
      PROVE  Inv1'
  <2> USE <1>ImportBlockInv1
  <2> USE DEF Inv1
  <2>1. lastNumber(n) + 1 \in 1 .. lastNumber(p)
    BY ChainParts DEF importBlock
  <2>2. chain[p][lastNumber(n) + 1] \in Proposals
    BY <2>1, ChainParts
  <2>3. Append(chain[n], chain[p][lastNumber(n) + 1]) \in Seq(Proposals)
    BY <2>2, ChainParts
  <2>4. chain' \in [Validators -> Seq(Proposals)]
    BY <2>3 DEF importBlock, TypeOK
  <2>5. TypeOK' /\ badBlocks' = badBlocks /\ UNCHANGED <<state, waitingForRoundChange, current>>
    BY <2>4 DEF importBlock, TypeOK, coreVars
  <2> QED
    BY <2>5, <1>SameStateInv1
<1>RestartInv1. ASSUME Inv1, NEW n \in Validators, Restart(n)
      PROVE  Inv1'
  <2> USE <1>RestartInv1
  <2> DEFINE fresh == newRoundState(lastNumber(n) + 1, 0, None, None, None)
  <2>1. fresh \in RoundState /\ fresh.lockedHash = None
    BY FreshRoundState DEF Inv1, newRoundState
  <2>2. /\ commitHeight' \in [Validators -> Nat] /\ msgs' \subseteq Message
        /\ requested' \in [Validators -> SUBSET Proposals]
        /\ enqueued' \in [Validators -> SUBSET Proposals]
        /\ restarted' \subseteq Validators /\ UNCHANGED <<chain, badBlocks>>
    BY DEF Restart, Inv1, TypeOK
  <2>3. enterRound(n, fresh)
    BY DEF Restart
  <2> QED
    BY <2>1, <2>2, <2>3, <1>EnterRoundInv1
<1> SUFFICES ASSUME Inv1, [Next]_vars PROVE Inv1'
  OBVIOUS
<1>1. ASSUME NEW n \in Started, handleEvents(n)
      PROVE  Inv1'
  BY <1>1, StartedAssumption, <1>HandleRequestInv1, <1>HandlePreprepareInv1,
     <1>HandlePrepareInv1, <1>HandleCommitInv1, <1>HandleRoundChangeInv1, <1>HandleTimeoutInv1
     DEF handleEvents
<1>2. ASSUME NEW n \in Started, NEW b \in enqueued[n], insertBlock(n, b)
      PROVE  Inv1'
  BY <1>2, StartedAssumption, <1>InsertBlockInv1
<1>3. ASSUME NEW n \in Started, NEW p \in Started, importBlock(n, p)
      PROVE  Inv1'
  BY <1>3, StartedAssumption, <1>ImportBlockInv1
<1>4. ASSUME NEW n \in Started, Restart(n)
      PROVE  Inv1'
  BY <1>4, StartedAssumption, <1>RestartInv1
<1>5. CASE UNCHANGED vars
  BY <1>5 DEF vars, coreVars, chainVars, Inv1, TypeOK, ProposalAtHand,
              IsHashLocked, HasBadProposal
<1> QED
  BY <1>1, <1>2, <1>3, <1>4, <1>5 DEF Next

LEMMA Inv1Holds == Spec => []Inv1
BY InitInv1, NextInv1, PTL DEF Spec

\* Every state of the core is well typed: sequence, round and lock of roundState,
\* waitingForRoundChange and the ROUND CHANGEs counted, whatever is restarted.
THEOREM TypeCorrect == Spec => []TypeOK
<1>1. Inv1 => TypeOK
  BY DEF Inv1
<1> QED
  BY <1>1, Inv1Holds, PTL

\* No handler meets the nil proposal that its dereferences (Subject, the
\* re-proposal of a lock) would panic on.
THEOREM ProposalsAtHand == Spec => []ProposalAtHand
<1>1. Inv1 => ProposalAtHand
  BY DEF Inv1
<1> QED
  BY <1>1, Inv1Holds, PTL

-----------------------------------------------------------------------------
(* Agreement.  Every committed block has a certificate: COMMITs of a quorum  *)
(* in one view.  Two quorums share more validators than have restarted, and  *)
(* one that has not restarted sends one COMMIT per height.                   *)

\* commitHeight covers every COMMIT that the core remembers.
CommitHeights ==
  \A m \in msgs : m.type = "Commit" /\ m.src \notin restarted
                    => m.seq <= commitHeight[m.src]

NumberIsSequence ==
  \A m \in msgs : m.type # "RoundChange" => m.digest.number = m.seq

MsgInv == CommitHeights /\ CommitOnce /\ NumberIsSequence

\* The round state of n: its proposal is of its height, and it has counted only
\* COMMITs that were sent for that proposal in its view.
RoundInv(n) ==
  /\ current[n].preprepare # None => current[n].preprepare.number = current[n].sequence
  /\ state[n] = "AcceptRequest" => current[n].commits = {}
  /\ \A s \in current[n].commits :
       message("Commit", s, current[n], current[n].preprepare) \in msgs

CommitOf(s, round, b) ==
  [type |-> "Commit", src |-> s, seq |-> b.number, round |-> round, digest |-> b]

Certified(b) ==
  \E r \in Rounds, S \in SUBSET Validators :
    /\ Cardinality(S) >= QuorumSize(valSet)
    /\ \A s \in S : CommitOf(s, r, b) \in msgs

Certificates == \A n \in Validators : \A b \in Committed(n) : Certified(b)

Inv2 == Inv1 /\ MsgInv /\ (\A n \in Validators : RoundInv(n)) /\ Certificates

LEMMA InitInv2 == Init => Inv2
<1> SUFFICES ASSUME Init PROVE Inv2
  OBVIOUS
<1>1. Inv1
  BY InitInv1
<1>2. MsgInv
  BY DEF Init, MsgInv, CommitHeights, CommitOnce, NumberIsSequence
<1>3. \A n \in Validators : RoundInv(n)
  BY DEF Init, RoundInv, newRoundState
<1>4. Certificates
  BY DEF Init, Certificates, Committed
<1> QED
  BY <1>1, <1>2, <1>3, <1>4 DEF Inv2

LEMMA NextInv2 == Inv2 /\ [Next]_vars => Inv2'
\* Steps that send no COMMIT and reset commitHeight only in a restart.
<1>MsgInvKept. ASSUME Inv2, msgs \subseteq msgs', restarted \subseteq restarted',
             \A m \in msgs' \ msgs : /\ m.type # "Commit"
                                     /\ m.type # "RoundChange" => m.digest.number = m.seq,
             \A q \in Validators : commitHeight'[q] = commitHeight[q] \/ q \in restarted'
      PROVE  MsgInv'
  <2> USE <1>MsgInvKept
  <2>1. \A m \in msgs : m.src \in Validators
    BY Parts DEF Inv2, Inv1
  <2>2. CommitHeights'
    BY <2>1 DEF Inv2, MsgInv, CommitHeights
  <2>3. CommitOnce'
    BY DEF Inv2, MsgInv, CommitOnce
  <2>4. NumberIsSequence'
    BY DEF Inv2, MsgInv, NumberIsSequence
  <2> QED
    BY <2>2, <2>3, <2>4 DEF MsgInv
\* sendCommit sends a COMMIT above every earlier one of the same core.
<1>SendCommitMsgInv. ASSUME Inv2, NEW n \in Validators, NEW cur \in RoundState,
             cur.preprepare.number = cur.sequence, sendCommit(n, cur),
             UNCHANGED restarted
      PROVE  MsgInv' /\ msgs \subseteq msgs'
  <2> USE <1>SendCommitMsgInv
  <2> DEFINE new == message("Commit", n, cur, cur.preprepare)
  <2>1. CASE UNCHANGED <<commitHeight, msgs>>
    BY <2>1, <1>MsgInvKept
  <2>2. CASE /\ ~ (commitHeight[n] >= cur.sequence)
             /\ commitHeight' = [commitHeight EXCEPT ![n] = cur.sequence]
             /\ msgs' = msgs \cup {new}
    <3>1. /\ new.type = "Commit" /\ new.src = n /\ new.seq = cur.sequence
          /\ new.digest.number = new.seq
      BY DEF message
    <3>2. /\ commitHeight \in [Validators -> Nat] /\ cur.sequence \in Nat
          /\ \A m \in msgs : m.src \in Validators /\ m.seq \in Nat
      BY Parts DEF Inv2, Inv1, TypeOK, RoundState
    <3>3. /\ commitHeight'[n] = cur.sequence /\ commitHeight[n] < cur.sequence
          /\ \A q \in Validators \ {n} : commitHeight'[q] = commitHeight[q]
          /\ commitHeight[n] \in Nat
      BY <2>2, <3>2
    <3>4. \A m \in msgs : m.type = "Commit" /\ m.src = n /\ n \notin restarted
                            => m.seq < cur.sequence
      BY <3>2, <3>3 DEF Inv2, MsgInv, CommitHeights
    <3>5. CommitHeights'
      <4>1. ASSUME NEW m \in msgs, m.type = "Commit", m.src \notin restarted
            PROVE  m.seq <= commitHeight'[m.src]
        <5>1. CASE m.src = n
          BY <4>1, <5>1, <3>2, <3>3, <3>4
        <5>2. CASE m.src # n
          BY <4>1, <5>2, <3>2, <3>3 DEF Inv2, MsgInv, CommitHeights
        <5> QED
          BY <5>1, <5>2
      <4> QED
        BY <2>2, <3>1, <3>2, <3>3, <4>1 DEF CommitHeights
    <3>6. CommitOnce'
      <4>1. \A m \in msgs : m.type = "Commit" /\ m.src = new.src /\ m.src \notin restarted
                              => m.seq # new.seq
        BY <3>1, <3>2, <3>4
      <4> QED
        BY <2>2, <3>1, <4>1 DEF Inv2, MsgInv, CommitOnce
    <3>7. NumberIsSequence'
      BY <2>2, <3>1 DEF Inv2, MsgInv, NumberIsSequence
    <3> QED
      BY <2>2, <3>5, <3>6, <3>7 DEF MsgInv
  <2> QED
    BY <2>1, <2>2 DEF sendCommit
\* A round state that a step does not touch keeps its invariant.
<1>RoundInvKept. ASSUME NEW q \in Validators, RoundInv(q), msgs \subseteq msgs',
             current'[q] = current[q], state'[q] = state[q]
      PROVE  RoundInv(q)'
  BY <1>RoundInvKept DEF RoundInv, message
\* Certificates do not expire.
<1>CertifiedKept. ASSUME NEW b, Certified(b), msgs \subseteq msgs'
      PROVE  Certified(b)'
  BY <1>CertifiedKept DEF Certified, CommitOf
<1>CertificatesKept. ASSUME Inv2, msgs \subseteq msgs', UNCHANGED <<chain, badBlocks>>,
             \A q \in Validators : enqueued'[q] \subseteq enqueued[q]
      PROVE  Certificates'
  <2> USE <1>CertificatesKept
  <2>1. ASSUME NEW q \in Validators, NEW b \in Committed(q)'
        PROVE  Certified(b)'
    <3>1. b \in Committed(q)
      BY DEF Committed
    <3> QED
      BY <3>1, <1>CertifiedKept DEF Inv2, Certificates
  <2> QED
    BY <2>1 DEF Certificates
\* A step of n that commits no block.
<1>StepInv2. ASSUME Inv2, Inv1', NEW n \in Validators, MsgInv', RoundInv(n)', msgs \subseteq msgs',
             \A q \in Validators \ {n} : current'[q] = current[q] /\ state'[q] = state[q],
             UNCHANGED <<chain, badBlocks>>,
             \A q \in Validators : enqueued'[q] \subseteq enqueued[q]
      PROVE  Inv2'
  <2> USE <1>StepInv2
  <2>1. ASSUME NEW q \in Validators PROVE RoundInv(q)'
    <3>1. CASE q = n
      BY <3>1
    <3>2. CASE q # n
      BY <3>2, <1>RoundInvKept DEF Inv2
    <3> QED
      BY <3>1, <3>2
  <2>2. Certificates'
    BY <1>CertificatesKept
  <2> QED
    BY <2>1, <2>2 DEF Inv2
\* A round state without COMMITs satisfies the invariant when its proposal does.
<1>NoCommits. ASSUME NEW n \in Validators, current'[n].commits = {},
             current'[n].preprepare # None
               => current'[n].preprepare.number = current'[n].sequence
      PROVE  RoundInv(n)'
  BY <1>NoCommits DEF RoundInv
<1>SendRoundChangeInv2. ASSUME Inv2, Inv1', NEW n \in Validators, NEW r,
             NEW rcs \in [Rounds -> SUBSET Validators], sendRoundChange(n, r, rcs)
      PROVE  Inv2'
  <2> USE <1>SendRoundChangeInv2
  <2>1. Inv1'
    OBVIOUS
  <2>2. r \in Rounds /\ current \in [Validators -> RoundState]
    BY DEF sendRoundChange, Inv2, Inv1, TypeOK
  <2>3. /\ current'[n] = updateRoundState(n, r)
        /\ \A q \in Validators \ {n} : current'[q] = current[q] /\ state'[q] = state[q]
        /\ UNCHANGED <<commitHeight, chain, enqueued, badBlocks, restarted>>
    BY <2>2 DEF sendRoundChange, catchUpRound, chainVars
  <2>4. RoundInv(n)'
    <3>1. /\ current'[n].commits = {} /\ current'[n].sequence = current[n].sequence
          /\ current'[n].preprepare \in {current[n].preprepare, None}
      BY <2>2, <2>3, UpdateRoundStateType, SMTT(30) DEF Inv2, Inv1
    <3> QED
      BY <3>1, <1>NoCommits DEF Inv2, RoundInv
  <2>5. /\ msgs \subseteq msgs'
        /\ \A m \in msgs' \ msgs : m.type = "RoundChange"
    BY DEF sendRoundChange, message
  <2>6. MsgInv'
    BY <2>3, <2>5, <1>MsgInvKept
  <2> QED
    BY <2>1, <2>3, <2>4, <2>5, <2>6, <1>StepInv2
\* The proposals of a PRE-PREPARE that is sent are of its height.
<1>SendPreprepareNumber. ASSUME NEW n, NEW cur, NEW p, NEW b
      PROVE  \A m \in sendPreprepare(n, cur, p, b) :
               m.type = "Preprepare" /\ m.digest.number = m.seq
  BY <1>SendPreprepareNumber DEF sendPreprepare, message
\* The other variables when n enters a round.
<1>EnterRoundInv2. ASSUME Inv2, Inv1', NEW n \in Validators, NEW cur, enterRound(n, cur),
             cur.commits = {}, cur.preprepare # None => cur.preprepare.number = cur.sequence,
             msgs \subseteq msgs',
             \A m \in msgs' \ msgs : m.type = "Preprepare" /\ m.digest.number = m.seq,
             restarted \subseteq restarted',
             \A q \in Validators : commitHeight'[q] = commitHeight[q] \/ q \in restarted',
             UNCHANGED <<chain, badBlocks>>,
             \A q \in Validators : enqueued'[q] \subseteq enqueued[q]
      PROVE  Inv2'
  <2> USE <1>EnterRoundInv2
  <2>1. /\ current'[n] = cur
        /\ \A q \in Validators \ {n} : current'[q] = current[q] /\ state'[q] = state[q]
    <3>1. /\ current' = [current EXCEPT ![n] = cur]
          /\ state' = [state EXCEPT ![n] = "AcceptRequest"]
      BY SMTT(30) DEF enterRound
    <3>2. current \in [Validators -> RoundState] /\ DOMAIN state = Validators
      BY DEF Inv2, Inv1, TypeOK
    <3> QED BY <3>1, <3>2
  <2>2. RoundInv(n)'
    BY <2>1, <1>NoCommits
  <2>3. MsgInv'
    BY <1>MsgInvKept
  <2> QED
    BY <2>1, <2>2, <2>3, <1>StepInv2
<1>StartNewRoundInv2. ASSUME Inv2, Inv1', NEW n \in Validators, NEW r \in Rounds, startNewRound(n, r)
      PROVE  Inv2'
  <2> USE <1>StartNewRoundInv2
  <2> DEFINE fresh == newRoundState(lastNumber(n) + 1, 0, None, None, None)
             upd == updateRoundState(n, r)
  <2>1. Inv1'
    OBVIOUS
  <2>2. CASE enterRound(n, fresh) /\ UNCHANGED <<commitHeight, chainVars, msgs>>
    <3>1. fresh.commits = {} /\ fresh.preprepare = None
      BY DEF newRoundState
    <3>2. UNCHANGED <<commitHeight, chain, enqueued, badBlocks, restarted, msgs>>
      BY <2>2 DEF chainVars
    <3> QED
      BY <2>1, <2>2, <3>1, <3>2, <1>EnterRoundInv2
  <2>3. CASE /\ enterRound(n, upd)
             /\ msgs' = msgs \cup reproposed(n, upd, proposer'[n])
             /\ UNCHANGED <<commitHeight, chainVars>>
    <3>1. /\ upd.commits = {} /\ upd.sequence = current[n].sequence
          /\ upd.preprepare \in {current[n].preprepare, None}
      BY UpdateRoundStateType DEF Inv2, Inv1
    <3>2. upd.preprepare # None => upd.preprepare.number = upd.sequence
      BY <3>1 DEF Inv2, RoundInv
    <3>3. \A m \in reproposed(n, upd, proposer'[n]) :
            m.type = "Preprepare" /\ m.digest.number = m.seq
      BY <1>SendPreprepareNumber DEF reproposed
    <3>4. UNCHANGED <<commitHeight, chain, enqueued, badBlocks, restarted>>
      BY <2>3 DEF chainVars
    <3>5. /\ msgs \subseteq msgs'
          /\ \A m \in msgs' \ msgs : m.type = "Preprepare" /\ m.digest.number = m.seq
      BY <2>3, <3>3
    <3> QED
      BY <2>1, <2>3, <3>1, <3>2, <3>4, <3>5, <1>EnterRoundInv2
  <2> QED
    BY <2>2, <2>3 DEF startNewRound
<1>HandleRequestInv2. ASSUME Inv2, Inv1', NEW n \in Validators, NEW b \in Proposals, handleRequest(n, b)
      PROVE  Inv2'
  <2> USE <1>HandleRequestInv2
  <2>1. Inv1'
    OBVIOUS
  <2>2. current[n] \in RoundState /\ current \in [Validators -> RoundState]
    BY DEF Inv2, Inv1, TypeOK
  <2>3. /\ current'[n] = [current[n] EXCEPT !.pendingRequest = b]
        /\ \A q \in Validators \ {n} : current'[q] = current[q]
        /\ UNCHANGED <<state, commitHeight, chain, enqueued, badBlocks, restarted>>
    BY <2>2 DEF handleRequest
  <2>4. /\ msgs \subseteq msgs'
        /\ \A m \in msgs' \ msgs : m.type = "Preprepare" /\ m.digest.number = m.seq
    BY <1>SendPreprepareNumber DEF handleRequest
  <2>5. MsgInv'
    BY <2>3, <2>4, <1>MsgInvKept
  <2>6. RoundInv(n)'
    <3>1. /\ current'[n].sequence = current[n].sequence /\ current'[n].round = current[n].round
          /\ current'[n].preprepare = current[n].preprepare
          /\ current'[n].commits = current[n].commits
      BY <2>2, <2>3 DEF RoundState
    <3> QED
      BY <2>3, <2>4, <3>1 DEF Inv2, RoundInv, message
  <2> QED
    BY <2>1, <2>3, <2>4, <2>5, <2>6, <1>StepInv2
<1>HandlePreprepareInv2. ASSUME Inv2, Inv1', NEW n \in Validators, NEW m \in msgs, handlePreprepare(n, m)
      PROVE  Inv2'
  <2> USE <1>HandlePreprepareInv2
  <2> DEFINE cur == [current[n] EXCEPT !.preprepare = m.digest]
  <2>1. Inv1'
    OBVIOUS
  <2>2. /\ current[n] \in RoundState /\ current \in [Validators -> RoundState]
        /\ roundChangeSet[n] \in [Rounds -> SUBSET Validators]
        /\ m.digest \in Proposals /\ m.digest.number = m.seq /\ m.seq = current[n].sequence
    BY Parts DEF handlePreprepare, checkMessage, Inv2, Inv1, TypeOK, MsgInv, NumberIsSequence
  <2>3. CASE sendNextRoundChange(n)
    BY <2>2, <2>3, <1>SendRoundChangeInv2 DEF sendNextRoundChange
  <2>4. CASE /\ state[n] = "AcceptRequest"
             /\ current' = [current EXCEPT ![n] = cur]
             /\ \E s \in States : state' = [state EXCEPT ![n] = s]
             /\ \/ sendCommit(n, cur)
                \/ /\ msgs' = msgs \cup {message("Prepare", n, current[n], m.digest)}
                   /\ UNCHANGED commitHeight
             /\ UNCHANGED chainVars
    <3>1. /\ cur \in RoundState /\ cur.preprepare = m.digest /\ cur.commits = {}
          /\ cur.sequence = current[n].sequence
      BY <2>2, <2>4 DEF RoundState, Inv2, RoundInv
    <3>2. /\ current'[n] = cur
          /\ \A q \in Validators \ {n} : current'[q] = current[q] /\ state'[q] = state[q]
          /\ UNCHANGED <<chain, enqueued, badBlocks, restarted>>
      BY <2>2, <2>4 DEF chainVars, Inv2, Inv1, TypeOK
    <3>3. MsgInv' /\ msgs \subseteq msgs'
      <4>1. CASE sendCommit(n, cur)
        <5>1. cur.preprepare.number = cur.sequence
          BY <2>2, <3>1
        <5> HIDE DEF cur
        <5> QED BY <3>1, <3>2, <4>1, <5>1, <1>SendCommitMsgInv
      <4>2. CASE /\ msgs' = msgs \cup {message("Prepare", n, current[n], m.digest)}
                 /\ UNCHANGED commitHeight
        <5>1. \A k \in msgs' \ msgs : k.type = "Prepare" /\ k.digest.number = k.seq
          BY <2>2, <4>2 DEF message
        <5> QED
          BY <3>2, <4>2, <5>1, <1>MsgInvKept
      <4> QED
        BY <2>4, <4>1, <4>2
    <3>4. RoundInv(n)'
      BY <2>2, <3>1, <3>2, <1>NoCommits, Zenon
    <3> QED
      BY <2>1, <3>2, <3>3, <3>4, <1>StepInv2
  <2>5. "Prepared" \in States /\ "Preprepared" \in States
    BY DEF States
  <2> QED
    BY <2>3, <2>4, <2>5 DEF handlePreprepare, acceptable
<1>HandlePrepareInv2. ASSUME Inv2, Inv1', NEW n \in Validators, NEW m \in msgs, handlePrepare(n, m)
      PROVE  Inv2'
  <2> USE <1>HandlePrepareInv2
  <2> DEFINE cur == [current[n] EXCEPT !.prepares = @ \cup {m.src}]
             locked == [cur EXCEPT !.lockedHash = cur.preprepare]
  <2>1. Inv1'
    OBVIOUS
  <2>2. /\ current[n] \in RoundState /\ current \in [Validators -> RoundState]
        /\ state \in [Validators -> States]
        /\ m.src \in Validators /\ current[n].preprepare \in Proposals
        /\ current[n].preprepare.number = current[n].sequence
        /\ state[n] # "AcceptRequest"
    BY Parts, Zenon DEF handlePrepare, checkMessage, verifySubject, Inv2, Inv1, TypeOK, RoundInv
  <2>3. /\ cur \in RoundState /\ cur.preprepare = current[n].preprepare
        /\ cur.commits = current[n].commits /\ cur.sequence = current[n].sequence
        /\ cur.round = current[n].round
    BY <2>2 DEF RoundState
  <2>4. /\ locked.preprepare = cur.preprepare /\ locked.commits = cur.commits
        /\ locked.sequence = cur.sequence /\ locked.round = cur.round
    BY <2>3 DEF RoundState
  <2>5. /\ current'[n] \in {cur, locked} /\ state'[n] # "AcceptRequest"
        /\ \A q \in Validators \ {n} : current'[q] = current[q] /\ state'[q] = state[q]
        /\ UNCHANGED <<chain, enqueued, badBlocks, restarted>>
    BY <2>2 DEF handlePrepare, chainVars
  <2>6. MsgInv' /\ msgs \subseteq msgs'
    <3>1. CASE sendCommit(n, cur)
      BY <2>2, <2>3, <2>5, <3>1, <1>SendCommitMsgInv, Zenon
    <3>2. CASE UNCHANGED <<commitHeight, msgs>>
      BY <2>5, <3>2, <1>MsgInvKept
    <3> QED
      BY <3>1, <3>2 DEF handlePrepare
  <2>7. RoundInv(n)'
    <3>1. /\ current'[n].preprepare = current[n].preprepare
          /\ current'[n].commits = current[n].commits
          /\ current'[n].sequence = current[n].sequence
          /\ current'[n].round = current[n].round
      BY <2>3, <2>4, <2>5, Zenon
    <3> QED
      BY <2>5, <2>6, <3>1 DEF Inv2, RoundInv, message
  <2> QED
    BY <2>1, <2>5, <2>6, <2>7, <1>StepInv2
<1>HandleCommitInv2. ASSUME Inv2, Inv1', NEW n \in Validators, NEW m \in msgs, handleCommit(n, m)
      PROVE  Inv2'
  <2> USE <1>HandleCommitInv2
  <2> DEFINE cur == [current[n] EXCEPT !.commits = @ \cup {m.src}]
             locked == [cur EXCEPT !.lockedHash = cur.preprepare]
  <2>1. Inv1'
    OBVIOUS
  <2>2. /\ current[n] \in RoundState /\ current \in [Validators -> RoundState]
        /\ state \in [Validators -> States] /\ enqueued \in [Validators -> SUBSET Proposals]
        /\ m.src \in Validators /\ current[n].preprepare \in Proposals
        /\ current[n].preprepare.number = current[n].sequence
        /\ state[n] # "AcceptRequest" /\ current[n].round \in Rounds
        /\ current[n].commits \subseteq Validators
    BY Parts DEF handleCommit, checkMessage, verifySubject, Inv2, Inv1, TypeOK, RoundInv
  <2>3. /\ cur \in RoundState /\ cur.preprepare = current[n].preprepare
        /\ cur.commits = current[n].commits \cup {m.src} /\ cur.sequence = current[n].sequence
        /\ cur.round = current[n].round
    BY <2>2 DEF RoundState
  <2>4. /\ locked.preprepare = cur.preprepare /\ locked.commits = cur.commits
        /\ locked.sequence = cur.sequence /\ locked.round = cur.round
    BY <2>3 DEF RoundState
  <2>5. /\ current'[n] \in {cur, locked} /\ state'[n] # "AcceptRequest"
        /\ \A q \in Validators \ {n} : current'[q] = current[q] /\ state'[q] = state[q]
        /\ UNCHANGED <<commitHeight, chain, badBlocks, restarted, msgs>>
    BY <2>2 DEF handleCommit
  <2>6. MsgInv'
    BY <2>5, <1>MsgInvKept
  <2>7. m = message("Commit", m.src, current[n], current[n].preprepare)
    <3>1. m \in Message
      BY DEF Inv2, Inv1, TypeOK
    <3> QED
      BY <3>1 DEF Message, message, handleCommit, checkMessage, verifySubject
  <2>8. \A s \in cur.commits : message("Commit", s, current[n], current[n].preprepare) \in msgs
    BY <2>3, <2>7 DEF Inv2, RoundInv
  <2>9. RoundInv(n)'
    <3>1. /\ current'[n].preprepare = current[n].preprepare
          /\ current'[n].commits = cur.commits
          /\ current'[n].sequence = current[n].sequence
          /\ current'[n].round = current[n].round
      BY <2>3, <2>4, <2>5, Zenon
    <3> QED
      BY <2>2, <2>5, <2>8, <3>1 DEF RoundInv, message
  <2>10. CASE /\ Cardinality(cur.commits) >= QuorumSize(valSet)
              /\ enqueued' = [enqueued EXCEPT ![n] = @ \cup {cur.preprepare}]
    <3>1. Certified(current[n].preprepare)
      <4>1. \A s \in cur.commits : CommitOf(s, current[n].round, current[n].preprepare) \in msgs
        BY <2>2, <2>8 DEF CommitOf, message
      <4>2. cur.commits \in SUBSET Validators
        BY <2>2, <2>3
      <4> QED
        BY <2>2, <2>10, <4>1, <4>2 DEF Certified
    <3>2. ASSUME NEW q \in Validators, NEW b \in Committed(q)'
          PROVE  Certified(b)'
      <4>1. b \in Committed(q) \/ b = current[n].preprepare
        BY <2>2, <2>3, <2>5, <2>10 DEF Committed
      <4>2. Certified(b)
        BY <3>1, <4>1 DEF Inv2, Certificates
      <4> QED
        BY <2>5, <4>2, <1>CertifiedKept
    <3>3. Certificates'
      BY <3>2 DEF Certificates
    <3>4. ASSUME NEW q \in Validators PROVE RoundInv(q)'
      BY <2>5, <2>9, <1>RoundInvKept DEF Inv2
    <3> QED
      BY <2>1, <2>6, <3>3, <3>4 DEF Inv2
  <2>11. CASE UNCHANGED enqueued
    BY <2>1, <2>5, <2>6, <2>9, <2>11, <1>StepInv2
  <2> QED
    BY <2>10, <2>11 DEF handleCommit
<1>HandleRoundChangeInv2. ASSUME Inv2, Inv1', NEW n \in Validators, NEW m \in msgs, handleRoundChange(n, m)
      PROVE  Inv2'
  <2> USE <1>HandleRoundChangeInv2
  <2> DEFINE rcs == [roundChangeSet[n] EXCEPT ![m.round] = @ \cup {m.src}]
  <2>1. m.src \in Validators /\ m.round \in Rounds
        /\ roundChangeSet[n] \in [Rounds -> SUBSET Validators]
    BY Parts DEF Inv2, Inv1
  <2>2. rcs \in [Rounds -> SUBSET Validators]
    BY <2>1
  <2>3. CASE sendRoundChange(n, m.round, rcs)
    BY <2>2, <2>3, <1>SendRoundChangeInv2
  <2>4. CASE startNewRound(n, m.round)
    BY <2>1, <2>4, <1>StartNewRoundInv2
  <2>5. CASE UNCHANGED <<state, waitingForRoundChange, current, proposer,
                         commitHeight, chainVars, msgs>>
    <3>1. Inv1' /\ UNCHANGED <<commitHeight, chain, enqueued, badBlocks, restarted, msgs>>
      BY <2>5 DEF Inv2, chainVars
    <3>2. MsgInv' /\ RoundInv(n)'
      BY <2>5, <3>1, <1>MsgInvKept, <1>RoundInvKept DEF Inv2
    <3> QED
      BY <2>5, <3>1, <3>2, <1>StepInv2
  <2> QED
    BY <2>3, <2>4, <2>5 DEF handleRoundChange
<1>HandleTimeoutInv2. ASSUME Inv2, Inv1', NEW n \in Validators, handleTimeoutMsg(n) \/ handleFinalCommitted(n)
      PROVE  Inv2'
  <2> USE <1>HandleTimeoutInv2
  <2>1. roundChangeSet[n] \in [Rounds -> SUBSET Validators] /\ 0 \in Rounds
    BY Parts, BoundsAssumption DEF Inv2, Inv1, Rounds
  <2>2. ASSUME NEW r, sendRoundChange(n, r, roundChangeSet[n])
        PROVE  Inv2'
    BY <2>1, <2>2, <1>SendRoundChangeInv2
  <2>3. CASE startNewRound(n, 0)
    BY <2>1, <2>3, <1>StartNewRoundInv2
  <2> QED
    BY <2>2, <2>3 DEF handleTimeoutMsg, handleFinalCommitted, sendNextRoundChange
\* A step below the core that moves certified blocks only.
<1>ChainStepInv2. ASSUME Inv2, Inv1', UNCHANGED <<coreVars, commitHeight, restarted, msgs>>,
             \A q \in Validators : \A b \in Committed(q)' : Certified(b)
      PROVE  Inv2'
  <2> USE <1>ChainStepInv2
  <2>1. MsgInv'
    BY <1>MsgInvKept DEF coreVars
  <2>2. \A q \in Validators : RoundInv(q)'
    BY <1>RoundInvKept DEF Inv2, coreVars
  <2>3. Certificates'
    BY <1>CertifiedKept DEF Certificates
  <2> QED
    BY <2>1, <2>2, <2>3 DEF Inv2
\* The blocks of a chain that grew by one block.
<1>AppendElements. ASSUME NEW S, NEW s \in Seq(S), NEW b \in S
      PROVE  /\ DOMAIN Append(s, b) = 1 .. Len(s) + 1
             /\ \A i \in 1 .. Len(s) : Append(s, b)[i] = s[i]
             /\ Append(s, b)[Len(s) + 1] = b
             /\ \A c \in {Append(s, b)[i] : i \in DOMAIN Append(s, b)} :
                  c = b \/ c \in {s[i] : i \in DOMAIN s}
  <2> USE <1>AppendElements
  <2>1. /\ DOMAIN Append(s, b) = 1 .. Len(s) + 1
        /\ \A i \in 1 .. Len(s) : Append(s, b)[i] = s[i]
        /\ Append(s, b)[Len(s) + 1] = b /\ Len(s) \in Nat /\ DOMAIN s = 1 .. Len(s)
    OBVIOUS
  <2>2. ASSUME NEW i \in DOMAIN Append(s, b)
        PROVE  Append(s, b)[i] = b \/ Append(s, b)[i] \in {s[j] : j \in DOMAIN s}
    <3>1. i \in 1 .. Len(s) \/ i = Len(s) + 1
      BY <2>1
    <3> QED
      BY <2>1, <3>1
  <2> QED
    BY <2>1, <2>2
<1>InsertBlockInv2. ASSUME Inv2, Inv1', NEW n \in Validators, NEW b, insertBlock(n, b)
      PROVE  Inv2'
  <2> USE <1>InsertBlockInv2
  <2>1. Inv1'
    OBVIOUS
  <2>2. /\ UNCHANGED <<coreVars, commitHeight, restarted, msgs>>
        /\ b \in enqueued[n] /\ b \in Proposals
    BY DEF insertBlock, Inv2, Inv1, TypeOK
  <2>3. ASSUME NEW q \in Validators
        PROVE  /\ enqueued'[q] \subseteq enqueued[q]
               /\ badBlocks'[q] \subseteq badBlocks[q] \cup (IF q = n THEN {b} ELSE {})
               /\ chain'[q] = chain[q] \/ (q = n /\ chain'[q] = Append(chain[q], b))
    <3>1. /\ enqueued' = [enqueued EXCEPT ![n] = enqueued[n] \ {b}]
          /\ badBlocks' = badBlocks \/ badBlocks' = [badBlocks EXCEPT ![n] = badBlocks[n] \cup {b}]
          /\ chain' = chain \/ chain' = [chain EXCEPT ![n] = Append(chain[n], b)]
      BY DEF insertBlock
    <3> QED
      BY <3>1 DEF Inv2, Inv1, TypeOK
  <2>4. ASSUME NEW q \in Validators, NEW c \in Committed(q)'
        PROVE  Certified(c)
    <3>1. chain[q] \in Seq(Proposals)
      BY DEF Inv2, Inv1, TypeOK
    <3>2. c \in Committed(q) \/ (q = n /\ c = b)
      <4>1. \/ c \in enqueued'[q] \/ c \in badBlocks'[q]
            \/ c \in {chain'[q][i] : i \in DOMAIN chain'[q]}
        BY DEF Committed
      <4>2. CASE c \in enqueued'[q] \/ c \in badBlocks'[q]
        BY <2>3, <4>2 DEF Committed
      <4>3. CASE c \in {chain'[q][i] : i \in DOMAIN chain'[q]}
        <5>1. CASE chain'[q] = chain[q]
          BY <4>3, <5>1 DEF Committed
        <5>2. CASE q = n /\ chain'[q] = Append(chain[q], b)
          <6>1. c = b \/ c \in {chain[q][i] : i \in DOMAIN chain[q]}
            BY <2>2, <3>1, <4>3, <5>2, <1>AppendElements
          <6> QED BY <5>2, <6>1 DEF Committed
        <5> QED BY <2>3, <5>1, <5>2
      <4> QED
        BY <4>1, <4>2, <4>3
    <3>3. b \in Committed(n)
      BY <2>2 DEF Committed
    <3> QED
      BY <3>2, <3>3 DEF Inv2, Certificates
  <2> QED
    BY <2>1, <2>2, <2>4, <1>ChainStepInv2
<1>ImportBlockInv2. ASSUME Inv2, Inv1', NEW n \in Validators, NEW p \in Validators, importBlock(n, p)
      PROVE  Inv2'
  <2> USE <1>ImportBlockInv2
  <2> DEFINE b == chain[p][lastNumber(n) + 1]
  <2>1. Inv1'
    OBVIOUS
  <2>2. UNCHANGED <<coreVars, commitHeight, restarted, msgs, enqueued, badBlocks>>
    BY DEF importBlock
  <2>3. lastNumber(n) + 1 \in 1 .. lastNumber(p)
    BY ChainParts DEF importBlock, Inv2, Inv1
  <2>4. b \in Proposals /\ b \in Committed(p)
    <3>1. TypeOK
      BY DEF Inv2, Inv1
    <3>2. b \in Proposals /\ chain[p] \in Seq(Proposals)
      BY <2>3, <3>1, ChainParts
    <3>3. lastNumber(n) + 1 \in DOMAIN chain[p]
      BY <2>3, <3>2 DEF lastNumber
    <3> QED BY <3>2, <3>3 DEF Committed
  <2>5. ASSUME NEW q \in Validators
        PROVE  chain'[q] = chain[q] \/ (q = n /\ chain'[q] = Append(chain[q], b))
    BY DEF importBlock, Inv2, Inv1, TypeOK
  <2>6. ASSUME NEW q \in Validators, NEW c \in Committed(q)'
        PROVE  Certified(c)
    <3>1. chain[q] \in Seq(Proposals)
      BY DEF Inv2, Inv1, TypeOK
    <3>2. c \in Committed(q) \/ c = b
      <4>1. \/ c \in enqueued'[q] \/ c \in badBlocks'[q]
            \/ c \in {chain'[q][i] : i \in DOMAIN chain'[q]}
        BY DEF Committed
      <4>2. CASE c \in enqueued'[q] \/ c \in badBlocks'[q]
        BY <2>2, <4>2 DEF Committed
      <4>3. CASE c \in {chain'[q][i] : i \in DOMAIN chain'[q]}
        <5>1. CASE chain'[q] = chain[q]
          BY <4>3, <5>1 DEF Committed
        <5>2. CASE q = n /\ chain'[q] = Append(chain[q], b)
          <6> HIDE DEF b
          <6>1. c = b \/ c \in {chain[q][i] : i \in DOMAIN chain[q]}
            BY <2>4, <3>1, <4>3, <5>2, <1>AppendElements
          <6> QED BY <6>1 DEF Committed
        <5> QED BY <2>5, <5>1, <5>2
      <4> QED
        BY <4>1, <4>2, <4>3
    <3> QED
      BY <2>4, <3>2 DEF Inv2, Certificates
  <2> QED
    BY <2>1, <2>2, <2>6, <1>ChainStepInv2
<1>RestartInv2. ASSUME Inv2, Inv1', NEW n \in Validators, Restart(n)
      PROVE  Inv2'
  <2> USE <1>RestartInv2
  <2> DEFINE fresh == newRoundState(lastNumber(n) + 1, 0, None, None, None)
  <2>1. Inv1'
    OBVIOUS
  <2>2. fresh.commits = {} /\ fresh.preprepare = None
    BY DEF newRoundState
  <2>3. /\ enterRound(n, fresh) /\ restarted' = restarted \cup {n}
        /\ UNCHANGED <<chain, badBlocks, msgs>>
    BY DEF Restart
  <2>4. \A q \in Validators : commitHeight'[q] = commitHeight[q] \/ q \in restarted'
    BY DEF Restart, Inv2, Inv1, TypeOK
  <2>5. \A q \in Validators : enqueued'[q] \subseteq enqueued[q]
    BY DEF Restart, Inv2, Inv1, TypeOK
  <2> QED
    BY <2>1, <2>2, <2>3, <2>4, <2>5, <1>EnterRoundInv2
<1> SUFFICES ASSUME Inv2, [Next]_vars PROVE Inv2'
  OBVIOUS
<1>0. Inv1'
  BY NextInv1 DEF Inv2
<1>1. ASSUME NEW n \in Started, handleEvents(n)
      PROVE  Inv2'
  BY <1>0, <1>1, StartedAssumption, <1>HandleRequestInv2, <1>HandlePreprepareInv2,
     <1>HandlePrepareInv2, <1>HandleCommitInv2, <1>HandleRoundChangeInv2, <1>HandleTimeoutInv2
     DEF handleEvents
<1>2. ASSUME NEW n \in Started, NEW b \in enqueued[n], insertBlock(n, b)
      PROVE  Inv2'
  BY <1>0, <1>2, StartedAssumption, <1>InsertBlockInv2
<1>3. ASSUME NEW n \in Started, NEW p \in Started, importBlock(n, p)
      PROVE  Inv2'
  BY <1>0, <1>3, StartedAssumption, <1>ImportBlockInv2
<1>4. ASSUME NEW n \in Started, Restart(n)
      PROVE  Inv2'
  BY <1>0, <1>4, StartedAssumption, <1>RestartInv2
<1>5. CASE UNCHANGED vars
  <2>1. /\ UNCHANGED <<coreVars, commitHeight, restarted, msgs>>
        /\ \A q \in Validators : Committed(q)' = Committed(q)
    BY <1>5 DEF vars, chainVars, Committed
  <2> QED
    BY <1>0, <2>1, <1>ChainStepInv2 DEF Inv2, Certificates
<1> QED
  BY <1>1, <1>2, <1>3, <1>4, <1>5 DEF Next

LEMMA QuorumType ==
  /\ Len(valSet) \in Nat \ {0}
  /\ F(valSet) \in Nat /\ QuorumSize(valSet) \in Nat /\ QuorumOverlap(valSet) \in Int
BY ValSetAssumption DEF F, QuorumSize, QuorumOverlap

LEMMA Inv2Holds == Spec => []Inv2
BY InitInv2, NextInv2, PTL DEF Spec

\* A core that has not been restarted sends one COMMIT per height: commitHeight
\* keeps it from a second one in a later round (sendCommit).
THEOREM CommitsOnce == Spec => []CommitOnce
<1>1. Inv2 => CommitOnce
  BY DEF Inv2, MsgInv
<1> QED
  BY <1>1, Inv2Holds, PTL

\* The premise of Agreement holds when no validator has restarted, unless the set
\* has 2, 3 or 6 validators: then two quorums of QuorumSize may be disjoint.
THEOREM QuorumsOverlap ==
  Len(valSet) \notin {2, 3, 6} => QuorumOverlap(valSet) >= 1
BY QuorumType, ValSetAssumption, SMTT(30) DEF QuorumOverlap, QuorumSize, F

-----------------------------------------------------------------------------
(* The chains implement the ledger.                                         *)

ChainNumbers == \A n \in Validators : \A i \in DOMAIN chain[n] : chain[n][i].number = i

Inv3 == Inv2 /\ ChainNumbers /\ restarted \subseteq Restartable

\* The only steps that touch a chain append a block to it.
LEMMA ChainSteps ==
  ASSUME Inv3, [Next]_vars
  PROVE  \/ UNCHANGED chain
         \/ \E n \in Validators, b \in Proposals :
              /\ \E p \in Validators : b \in Committed(p)
              /\ b.number = lastNumber(n) + 1
              /\ chain' = [chain EXCEPT ![n] = Append(@, b)]
<1>1. ASSUME NEW n \in Started, handleEvents(n) \/ Restart(n)
      PROVE  UNCHANGED chain
  BY <1>1, Zenon DEF handleEvents, Restart, handleRequest, handlePreprepare, handlePrepare,
     handleCommit, handleRoundChange, handleTimeoutMsg, handleFinalCommitted,
     sendNextRoundChange, sendRoundChange, startNewRound, chainVars
<1>2. ASSUME NEW n \in Started, NEW b \in enqueued[n], insertBlock(n, b)
      PROVE  \/ UNCHANGED chain
             \/ /\ n \in Validators /\ b \in Proposals /\ b \in Committed(n)
                /\ b.number = lastNumber(n) + 1
                /\ chain' = [chain EXCEPT ![n] = Append(@, b)]
  BY <1>2, StartedAssumption DEF insertBlock, Committed, Inv3, Inv2, Inv1, TypeOK
<1>3. ASSUME NEW n \in Started, NEW p \in Started, importBlock(n, p)
      PROVE  LET b == chain[p][lastNumber(n) + 1]
             IN  /\ n \in Validators /\ p \in Validators
                 /\ b \in Proposals /\ b \in Committed(p)
                 /\ b.number = lastNumber(n) + 1
                 /\ chain' = [chain EXCEPT ![n] = Append(@, b)]
  <2>1. n \in Validators /\ p \in Validators
    BY StartedAssumption
  <2>2. lastNumber(n) + 1 \in 1 .. lastNumber(p) /\ DOMAIN chain[p] = 1 .. lastNumber(p)
    BY <1>3, <2>1, ChainParts DEF importBlock, lastNumber, Inv3, Inv2, Inv1
  <2> QED
    BY <1>3, <2>1, <2>2, ChainParts
       DEF importBlock, Committed, Inv3, Inv2, Inv1, ChainNumbers
<1>4. CASE UNCHANGED vars
  BY <1>4 DEF vars, chainVars
<1> QED
  BY <1>1, <1>2, <1>3, <1>4 DEF Next

LEMMA InitInv3 == Init => Inv3
BY InitInv2 DEF Init, Inv3, ChainNumbers

LEMMA NextInv3 == Inv3 /\ [Next]_vars => Inv3'
<1> SUFFICES ASSUME Inv3, [Next]_vars PROVE Inv3'
  OBVIOUS
<1>1. Inv2'
  BY NextInv2 DEF Inv3
<1>2. ChainNumbers'
  <2>1. CASE UNCHANGED chain
    BY <2>1, Zenon DEF Inv3, ChainNumbers
  <2>2. ASSUME NEW n \in Validators, NEW b \in Proposals, b.number = lastNumber(n) + 1,
               chain' = [chain EXCEPT ![n] = Append(@, b)],
               NEW q \in Validators, NEW i \in DOMAIN chain'[q]
        PROVE  chain'[q][i].number = i
    <3>1. chain[q] \in Seq(Proposals) /\ chain \in [Validators -> Seq(Proposals)]
      BY Zenon DEF Inv3, Inv2, Inv1, TypeOK
    <3>2. CASE q # n
      <4>1. chain'[q] = chain[q]
        BY <2>2, <3>1, <3>2
      <4> QED
        BY <4>1 DEF Inv3, ChainNumbers
    <3>3. CASE q = n
      <4>1. chain'[q] = Append(chain[q], b) /\ lastNumber(n) = Len(chain[q])
        BY <2>2, <3>1, <3>3 DEF lastNumber
      <4>2. i \in DOMAIN chain[q] \/ i = Len(chain[q]) + 1
        BY <3>1, <4>1
      <4>3. CASE i \in DOMAIN chain[q]
        BY <3>1, <4>1, <4>3 DEF Inv3, ChainNumbers
      <4>4. CASE i = Len(chain[q]) + 1
        BY <2>2, <3>1, <4>1, <4>4
      <4> QED
        BY <4>2, <4>3, <4>4
    <3> QED
      BY <3>2, <3>3
  <2> QED
    BY <2>1, <2>2, ChainSteps DEF ChainNumbers
<1>3. (restarted \subseteq Restartable)'
  <2>1. ASSUME NEW n \in Started, handleEvents(n)
        PROVE  UNCHANGED restarted
    BY <2>1, Zenon DEF handleEvents, handleRequest, handlePreprepare, handlePrepare,
       handleCommit, handleRoundChange, handleTimeoutMsg, handleFinalCommitted,
       sendNextRoundChange, sendRoundChange, startNewRound, chainVars
  <2>2. ASSUME NEW n \in Started, NEW b, insertBlock(n, b)
        PROVE  UNCHANGED restarted
    BY <2>2 DEF insertBlock
  <2>3. ASSUME NEW n \in Started, NEW q, importBlock(n, q)
        PROVE  UNCHANGED restarted
    BY <2>3 DEF importBlock
  <2>4. ASSUME NEW n \in Started, Restart(n)
        PROVE  restarted' = restarted \cup {n} /\ n \in Restartable
    BY <2>4 DEF Restart
  <2>5. CASE UNCHANGED vars
    BY <2>5 DEF vars, chainVars, Inv3
  <2> QED
    BY <2>1, <2>2, <2>3, <2>4, <2>5 DEF Inv3, Next
<1> QED
  BY <1>1, <1>2, <1>3 DEF Inv3

-----------------------------------------------------------------------------
(* Views.                                                                   *)

\* The view and the commitHeight of a core grow in every step but its restart.
THEOREM ViewsOnlyGrow == Spec => ViewsGrow
\* A step of n that writes its round state cur and may send a COMMIT.
<1>ViewStepOf. ASSUME TypeOK, NEW n \in Validators, NEW cur, current' = [current EXCEPT ![n] = cur],
             \/ cur.sequence > current[n].sequence
             \/ cur.sequence = current[n].sequence /\ cur.round >= current[n].round,
             UNCHANGED commitHeight \/ \E c : sendCommit(n, c) /\ c.sequence \in Nat,
             NEW q \in Validators
      PROVE  ViewStep(q)
  <2> USE <1>ViewStepOf
  <2>1. /\ current[q].sequence \in Nat /\ current[q].round \in Nat /\ commitHeight[q] \in Nat
        /\ commitHeight \in [Validators -> Nat] /\ current \in [Validators -> RoundState]
    <3>1. commitHeight \in [Validators -> Nat] /\ current \in [Validators -> RoundState]
      BY DEF TypeOK
    <3>2. current[q].sequence \in Nat /\ current[q].round \in Rounds
      BY <3>1, Parts
    <3>3. current[q].round \in Nat
      BY <3>2, BoundsAssumption DEF Rounds
    <3> QED
      BY <3>1, <3>2, <3>3
  <2>2. commitHeight'[q] >= commitHeight[q]
    BY <2>1 DEF sendCommit
  <2>3. CASE q = n
    BY <2>1, <2>2, <2>3 DEF ViewStep
  <2>4. CASE q # n
    <3>1. current'[q] = current[q]
      BY <2>1, <2>4
    <3> QED
      BY <2>1, <2>2, <3>1 DEF ViewStep
  <2> QED
    BY <2>3, <2>4
<1>RoundViewStep. ASSUME TypeOK, NEW n \in Validators, NEW q \in Validators,
             \/ \E r, rcs : sendRoundChange(n, r, rcs)
             \/ \E r \in Rounds : startNewRound(n, r)
      PROVE  ViewStep(q)
  <2> USE <1>RoundViewStep
  <2>0. \A r \in Rounds : r \in Nat
    BY BoundsAssumption DEF Rounds
  <2>1. /\ current[n].sequence \in Nat /\ current[n].round \in Nat /\ lastNumber(n) \in Nat
        /\ current[n].round \in Rounds
    <3>1. current[n].sequence \in Nat /\ current[n].round \in Rounds
      BY Parts
    <3>2. lastNumber(n) \in Nat
      BY ChainParts
    <3> QED BY <2>0, <3>1, <3>2
  <2>2. \A r \in Rounds : /\ r \in Nat
                          /\ updateRoundState(n, r).sequence = current[n].sequence
                          /\ updateRoundState(n, r).round = r
    BY <2>0, UpdateRoundStateType
  <2>3. ASSUME NEW r, NEW rcs, sendRoundChange(n, r, rcs)
        PROVE  ViewStep(q)
    <3>1. /\ r \in Rounds /\ r > current[n].round /\ UNCHANGED commitHeight
          /\ current' = [current EXCEPT ![n] = updateRoundState(n, r)]
      BY <2>3 DEF sendRoundChange, catchUpRound
    <3>2. updateRoundState(n, r).round >= current[n].round
      BY <2>1, <2>2, <3>1, SMTT(30)
    <3> QED
      BY <2>2, <3>1, <3>2, <1>ViewStepOf, Zenon
  <2>4. ASSUME NEW r \in Rounds, startNewRound(n, r)
        PROVE  ViewStep(q)
    <3> DEFINE fresh == newRoundState(lastNumber(n) + 1, 0, None, None, None)
    <3>1. CASE lastNumber(n) >= current[n].sequence /\ enterRound(n, fresh)
               /\ UNCHANGED commitHeight
      <4>1. fresh.sequence > current[n].sequence
        <5>1. fresh.sequence = lastNumber(n) + 1
          BY DEF newRoundState
        <5>2. lastNumber(n) >= current[n].sequence
          BY <3>1
        <5> HIDE DEF fresh
        <5> QED
          BY <2>1, <5>1, <5>2
      <4>2. current' = [current EXCEPT ![n] = fresh]
        BY <3>1 DEF enterRound
      <4> QED
        BY <3>1, <4>1, <4>2, <1>ViewStepOf, Zenon
    <3>2. CASE r >= current[n].round /\ enterRound(n, updateRoundState(n, r))
               /\ UNCHANGED commitHeight
      <4>1. current' = [current EXCEPT ![n] = updateRoundState(n, r)]
        BY <3>2, Zenon DEF enterRound
      <4> QED
        BY <2>2, <3>2, <4>1, <1>ViewStepOf, Zenon
    <3> QED
      BY <2>4, <3>1, <3>2, Zenon DEF startNewRound
  <2> QED
    BY <2>3, <2>4
<1>1. ASSUME TypeOK, [Next]_vars, NEW q \in Validators \ restarted'
      PROVE  ViewStep(q)
  <2>1. /\ \A n \in Validators : /\ current[n] \in RoundState
                                 /\ current[n].sequence \in Nat /\ current[n].round \in Nat
                                 /\ commitHeight[n] \in Nat
        /\ current \in [Validators -> RoundState] /\ commitHeight \in [Validators -> Nat]
        /\ Started \subseteq Validators /\ 0 \in Rounds
        /\ \A m \in msgs : m.round \in Rounds
    <3>1. TypeOK /\ 0 \in Rounds /\ Rounds \subseteq Nat
      BY <1>1, BoundsAssumption DEF Rounds
    <3>2. \A n \in Validators : commitHeight[n] \in Nat
      BY <3>1 DEF TypeOK
    <3> QED
      BY <3>1, <3>2, Parts, StartedAssumption, Zenon DEF TypeOK
  <2>2. ASSUME NEW n \in Started, NEW cur, cur.sequence = current[n].sequence,
               cur.round = current[n].round, current' = [current EXCEPT ![n] = cur],
               UNCHANGED commitHeight \/ \E c : sendCommit(n, c) /\ c.sequence \in Nat
        PROVE  ViewStep(q)
    <3>1. cur.round >= current[n].round /\ n \in Validators
      BY <2>1, <2>2
    <3> QED
      BY <1>1, <2>2, <3>1, <1>ViewStepOf, Zenon
  <2>3. ASSUME UNCHANGED <<current, commitHeight>>
        PROVE  ViewStep(q)
    BY <2>1, <2>3 DEF ViewStep
  <2>4. ASSUME NEW n \in Started, NEW b \in Proposals, handleRequest(n, b)
        PROVE  ViewStep(q)
    <3> DEFINE cur == [current[n] EXCEPT !.pendingRequest = b]
    <3>1. cur.sequence = current[n].sequence /\ cur.round = current[n].round
      BY <2>1 DEF RoundState
    <3>2. current' = [current EXCEPT ![n] = cur] /\ UNCHANGED commitHeight
      BY <2>4 DEF handleRequest
    <3> QED
      BY <2>2, <3>1, <3>2, Zenon
  <2>5. ASSUME NEW n \in Started, NEW m \in msgs, handlePreprepare(n, m)
        PROVE  ViewStep(q)
    <3> DEFINE cur == [current[n] EXCEPT !.preprepare = m.digest]
    <3>1. cur.sequence = current[n].sequence /\ cur.round = current[n].round
      BY <2>1 DEF RoundState
    <3>2. \/ sendNextRoundChange(n)
          \/ /\ current' = [current EXCEPT ![n] = cur]
             /\ UNCHANGED commitHeight \/ sendCommit(n, cur)
      BY <2>5 DEF handlePreprepare
    <3>3. cur.sequence \in Nat
      BY <2>1, <3>1
    <3> QED
      BY <1>1, <2>1, <2>2, <3>1, <3>2, <3>3, <1>RoundViewStep, Zenon DEF sendNextRoundChange
  <2>6. ASSUME NEW n \in Started, NEW m \in msgs, handlePrepare(n, m)
        PROVE  ViewStep(q)
    <3> DEFINE cur == [current[n] EXCEPT !.prepares = @ \cup {m.src}]
               locked == [cur EXCEPT !.lockedHash = cur.preprepare]
    <3>1. cur.sequence = current[n].sequence /\ cur.round = current[n].round
      BY <2>1 DEF RoundState
    <3>2. locked.sequence = current[n].sequence /\ locked.round = current[n].round
      BY <2>1 DEF RoundState
    <3>3. /\ current' = [current EXCEPT ![n] = cur] \/ current' = [current EXCEPT ![n] = locked]
          /\ UNCHANGED commitHeight \/ sendCommit(n, cur)
      BY <2>6 DEF handlePrepare
    <3>4. cur.sequence \in Nat
      BY <2>1, <3>1
    <3> QED
      BY <2>2, <3>1, <3>2, <3>3, <3>4, Zenon
  <2>7. ASSUME NEW n \in Started, NEW m \in msgs, handleCommit(n, m)
        PROVE  ViewStep(q)
    <3> DEFINE cur == [current[n] EXCEPT !.commits = @ \cup {m.src}]
               locked == [cur EXCEPT !.lockedHash = cur.preprepare]
    <3>1. cur.sequence = current[n].sequence /\ cur.round = current[n].round
      BY <2>1 DEF RoundState
    <3>2. locked.sequence = current[n].sequence /\ locked.round = current[n].round
      BY <2>1 DEF RoundState
    <3>3. /\ current' = [current EXCEPT ![n] = cur] \/ current' = [current EXCEPT ![n] = locked]
          /\ UNCHANGED commitHeight
      BY <2>7 DEF handleCommit
    <3> QED
      BY <2>2, <3>1, <3>2, <3>3, Zenon
  <2>8. ASSUME NEW n \in Started, NEW m \in msgs, handleRoundChange(n, m)
        PROVE  ViewStep(q)
    <3>1. \/ \E r, rcs : sendRoundChange(n, r, rcs)
          \/ startNewRound(n, m.round)
          \/ UNCHANGED <<current, commitHeight>>
      BY <2>8 DEF handleRoundChange
    <3> QED
      BY <1>1, <2>1, <2>3, <3>1, <1>RoundViewStep
  <2>9. ASSUME NEW n \in Started, handleTimeoutMsg(n) \/ handleFinalCommitted(n)
        PROVE  ViewStep(q)
    <3>1. \/ \E r, rcs : sendRoundChange(n, r, rcs)
          \/ startNewRound(n, 0)
      BY <2>9 DEF handleTimeoutMsg, handleFinalCommitted, sendNextRoundChange
    <3> QED
      BY <1>1, <2>1, <3>1, <1>RoundViewStep
  <2>10. ASSUME NEW n \in Started, Restart(n)
         PROVE  ViewStep(q)
    <3>1. q # n
      BY <1>1, <2>10 DEF Restart
    <3>2. current'[q] = current[q] /\ commitHeight'[q] = commitHeight[q]
      BY <2>1, <2>10, <3>1 DEF Restart, enterRound
    <3> QED
      BY <2>1, <3>2 DEF ViewStep
  <2>11. ASSUME NEW n \in Started, NEW b, insertBlock(n, b) \/ importBlock(n, b)
         PROVE  ViewStep(q)
    BY <2>3, <2>11 DEF insertBlock, importBlock, coreVars
  <2>12. CASE UNCHANGED vars
    BY <2>3, <2>12 DEF vars, coreVars
  <2> QED
    BY <1>1, <2>4, <2>5, <2>6, <2>7, <2>8, <2>9, <2>10, <2>11, <2>12 DEF Next, handleEvents
<1>2. TypeOK /\ [Next]_vars => [\A n \in Validators \ restarted' : ViewStep(n)]_vars
  BY <1>1
<1> QED
  BY <1>2, TypeCorrect, PTL DEF Spec, ViewsGrow
=============================================================================
