------------------------------ MODULE QbftCore ------------------------------
(***************************************************************************)
(* The QBFT consensus core (consensus/istanbul/qbft/core), which a chain    *)
(* may choose instead of the IBFT core: a validator does not lock a block,  *)
(* but a proposer of a later round must show, with ROUND-CHANGE messages    *)
(* and the PREPARE messages they carry, that its block is the one that was  *)
(* prepared in the highest round, or that a quorum has prepared nothing.    *)
(*                                                                          *)
(* As in IbftCore a handler is an action, and msgs is the set of all        *)
(* messages ever sent, from which a validator takes any at any time: loss,  *)
(* delay, reordering, repetition, the backlog and the queue of pending      *)
(* requests are all covered by that.  PREPARE and COMMIT messages have no   *)
(* effect below the quorum, so that the actions handlePrepare and           *)
(* handleCommitMsg are the handling of the message that completes it.       *)
(*                                                                          *)
(* Left out: signatures, blocks that Verify refuses, failures of Commit,    *)
(* the lengths of timers (a timeout may come at any time), restarts.        *)
(***************************************************************************)
EXTENDS ValidatorSet, FiniteSets

CONSTANTS
  valSet,          \* the validators of every height, in their sorted order
  Started,         \* the validators whose engine is started
  Proposals,       \* the blocks that validators may seal: number and author
  Ceil2Nby3Block,  \* the first height with quorum ceil(2N/3)
  None,            \* nil
  MaxSequence,     \* bound: the heights whose messages are handled
  MaxRound         \* bound: no validator moves to a larger round

Validators == {valSet[i] : i \in DOMAIN valSet}
Rounds == 0 .. MaxRound

ASSUME ValSetAssumption ==
  /\ valSet \in Seq(Validators) /\ valSet # << >>
  /\ IsFiniteSet(Validators) /\ Cardinality(Validators) = Len(valSet)
  /\ Started \subseteq Validators

ASSUME ProposalsAssumption ==
  /\ \A b \in Proposals : b.author \in Validators /\ b.number \in Nat
  /\ None \notin Proposals \cup [round : Rounds, block : Proposals]

ASSUME BoundsAssumption ==
  Ceil2Nby3Block \in Nat /\ MaxSequence \in Nat /\ MaxRound \in Nat

VARIABLES
  state,           \* c.state, or "Panic" after a nil dereference
  current,         \* c.current, the roundState
  preparedPrepares,\* c.QBFTPreparedPrepares: view and digest of the quorum
  roundChangeSet,  \* c.roundChangeSet: the messages, for any round
  lastStarted,     \* the round of its last NewRound, whose key may be empty
  highestPrepared, \* its highestPreparedRound, highestPreparedBlock and
                   \* prepareMessages, for every round
  requested,       \* the sealed blocks whose RequestEvent was handled
  chain,           \* the blocks of the local chain above genesis
  enqueued,        \* blocks given to backend.Commit, not yet inserted
  msgs             \* every message ever broadcast

coreVars == <<state, current, preparedPrepares, roundChangeSet, lastStarted,
              highestPrepared>>
vars == <<coreVars, requested, chain, enqueued, msgs>>

newRoundState(seq, round, preprepare, prepared, pendingRequest) ==
  [sequence |-> seq, round |-> round, preprepare |-> preprepare,
   prepared |-> prepared, pendingRequest |-> pendingRequest, preprepareSent |-> 0]

Nothing == [r \in Rounds |-> None]

\* Every started core has run startNewRound(0) on the genesis block.
Init ==
  /\ state = [n \in Started |-> "AcceptRequest"]
  /\ current = [n \in Started |-> newRoundState(1, 0, None, None, None)]
  /\ preparedPrepares = [n \in Started |-> None]
  /\ roundChangeSet = [n \in Started |-> {}]
  /\ lastStarted = [n \in Started |-> 0]
  /\ highestPrepared = [n \in Started |-> Nothing]
  /\ requested = {}
  /\ chain = [n \in Started |-> << >>]
  /\ enqueued = [n \in Started |-> {}]
  /\ msgs = {}

-----------------------------------------------------------------------------
quorumSize(seq) ==
  IF seq < Ceil2Nby3Block THEN QuorumSize(valSet) ELSE (2 * Len(valSet) + 2) \div 3

\* CalcProposer, for the author of the block before the sequence.
proposer(n) ==
  LET seq == current[n].sequence IN
  roundRobinProposer(valSet, IF seq = 1 THEN NoAddress ELSE chain[n][seq - 1].author,
                     current[n].round)

IsProposer(n) == proposer(n) = n

Up(n) == state[n] # "Panic"

\* Bound: a validator whose chain has all the heights handles no more messages
\* of them.
Active(n) == Up(n) /\ Len(chain[n]) < MaxSequence

\* checkMessage for all but ROUND-CHANGE messages.
checkMessage(n, m) ==
  m.seq = current[n].sequence /\ m.round = current[n].round

\* checkMessage for a ROUND-CHANGE message.
checkRoundChange(n, m) ==
  m.seq = current[n].sequence /\ m.round >= current[n].round

-----------------------------------------------------------------------------
(* Justification (justification.go).  The digest of a block is the block.   *)

\* prepared is the round and block of the ROUND-CHANGE's PREPARE messages.
hasQuorumForNil(rcs, quorum) ==
  Cardinality({m \in rcs : m.prepared = None}) >= quorum

hasQuorumForPrepared(rcs, prepared, quorum) ==
  /\ Cardinality({m \in rcs : m.prepared = None \/ m.prepared.round <= prepared.round})
       >= quorum
  /\ \E m \in rcs : m.prepared = prepared

isJustified(block, rcs, prepares, quorum) ==
  /\ Cardinality(rcs) >= quorum
  /\ IF prepares = None THEN hasQuorumForNil(rcs, quorum)
     ELSE /\ prepares.block = block
          /\ hasQuorumForPrepared(rcs, prepares, quorum)

-----------------------------------------------------------------------------
(* Messages. *)

preprepareMsg(n, block, rcs, prepares) ==
  [type |-> "Preprepare", src |-> n, seq |-> current[n].sequence,
   round |-> current[n].round, digest |-> block, rcs |-> rcs, prepares |-> prepares]

vote(type, n, digest) ==
  [type |-> type, src |-> n, seq |-> current[n].sequence,
   round |-> current[n].round, digest |-> digest]

\* The senders of the votes of a type that n's current proposal has.
voters(type, n) ==
  {m.src : m \in {x \in msgs : /\ x.type = type /\ checkMessage(n, x)
                               /\ x.digest = current[n].preprepare}}

-----------------------------------------------------------------------------
(* Rounds (core.go). *)

\* Mutant: the new round state does not keep what was prepared.
newRoundForgets(n, round, rcs, tops) ==
  /\ state' = [state EXCEPT ![n] = "AcceptRequest"]
  /\ current' = [current EXCEPT ![n] =
       IF Len(chain[n]) >= @.sequence
       THEN newRoundState(Len(chain[n]) + 1, 0, None, None, None)
       ELSE newRoundState(@.sequence, round, @.preprepare, None, @.pendingRequest)]
  /\ preparedPrepares' = [preparedPrepares EXCEPT ![n] = IF round = 0 THEN None ELSE @]
  /\ roundChangeSet' = [roundChangeSet EXCEPT ![n] =
       IF round = 0 THEN {} ELSE {m \in rcs : m.round >= round}]
  /\ lastStarted' = [lastStarted EXCEPT ![n] = round]
  /\ highestPrepared' = [highestPrepared EXCEPT ![n] =
       [r \in Rounds |-> IF round = 0 \/ r < round THEN None ELSE tops[r]]]
  /\ UNCHANGED <<requested, chain, enqueued>>

\* startNewRound(round) with the ROUND-CHANGE messages rcs and the highest
\* prepared blocks tops at hand.  A chain that has got the block of the current
\* sequence makes it a new sequence, whatever the round is.
newRound(n, round, rcs, tops) ==
  /\ state' = [state EXCEPT ![n] = "AcceptRequest"]
  /\ current' = [current EXCEPT ![n] =
       IF Len(chain[n]) >= @.sequence
       THEN newRoundState(Len(chain[n]) + 1, 0, None, None, None)
       ELSE newRoundState(@.sequence, round, @.preprepare, @.prepared,
                          @.pendingRequest)]
  /\ preparedPrepares' = [preparedPrepares EXCEPT ![n] = IF round = 0 THEN None ELSE @]
  /\ roundChangeSet' = [roundChangeSet EXCEPT ![n] =
       IF round = 0 THEN {} ELSE {m \in rcs : m.round >= round}]
  /\ lastStarted' = [lastStarted EXCEPT ![n] = round]
  /\ highestPrepared' = [highestPrepared EXCEPT ![n] =
       [r \in Rounds |-> IF round = 0 \/ r < round THEN None ELSE tops[r]]]
  /\ UNCHANGED <<requested, chain, enqueued>>

\* startNewRound, then broadcastRoundChange with what the new state has prepared.
changeRound(n, round, rcs, tops) ==
  /\ newRound(n, round, rcs, tops)
  /\ msgs' = msgs \cup {[type |-> "RoundChange", src |-> n,
                         seq |-> current'[n].sequence, round |-> round,
                         prepared |-> current'[n].prepared,
                         justification |-> preparedPrepares'[n]]}

handleFinalCommitted(n) ==
  /\ Up(n) /\ Len(chain[n]) >= current[n].sequence
  /\ newRound(n, 0, {}, Nothing)
  /\ UNCHANGED msgs

handleTimeoutMsg(n) ==
  /\ Active(n) /\ current[n].round < MaxRound
  /\ changeRound(n, current[n].round + 1, roundChangeSet[n], highestPrepared[n])

-----------------------------------------------------------------------------
(* Requests and PRE-PREPARE messages (request.go, preprepare.go). *)

\* sendPreprepareMsg, with what justifies the block.
sendPreprepareMsg(n, block, rcs, prepares) ==
  IF block.number = current[n].sequence /\ IsProposer(n)
  THEN msgs' = msgs \cup {preprepareMsg(n, block, rcs, prepares)}
  ELSE UNCHANGED msgs

\* Mutant: the PRE-PREPARE counts as that of the next round.
handleRequestAhead(n, b) ==
  /\ Active(n) /\ b.author = n /\ b.number = current[n].sequence /\ b \notin requested
  /\ requested' = requested \cup {b}
  /\ current' = [current EXCEPT ![n].pendingRequest = b,
                                ![n].preprepareSent = current[n].round + 1]
  /\ IF state[n] = "AcceptRequest"
     THEN sendPreprepareMsg(n, b, {}, None) ELSE UNCHANGED msgs
  /\ UNCHANGED <<state, preparedPrepares, roundChangeSet, lastStarted,
                 highestPrepared, chain, enqueued>>

\* The worker's block of the current height: a proposer proposes it at once.
handleRequest(n, b) ==
  /\ Active(n) /\ b.author = n /\ b.number = current[n].sequence /\ b \notin requested
  /\ requested' = requested \cup {b}
  /\ current' = [current EXCEPT ![n].pendingRequest = b,
                   ![n].preprepareSent =
                     IF state[n] = "AcceptRequest" /\ IsProposer(n)
                     THEN current[n].round ELSE @]
  /\ IF state[n] = "AcceptRequest"
     THEN sendPreprepareMsg(n, b, {}, None) ELSE UNCHANGED msgs
  /\ UNCHANGED <<state, preparedPrepares, roundChangeSet, lastStarted,
                 highestPrepared, chain, enqueued>>

\* The justification of a PRE-PREPARE is looked at in every round but the first.
justified(m) ==
  m.round > 0 => isJustified(m.digest, m.rcs, m.prepares, quorumSize(m.seq))

handlePreprepareMsg(n, m) ==
  /\ m.type = "Preprepare" /\ Active(n) /\ state[n] = "AcceptRequest"
  /\ checkMessage(n, m)
  /\ m.src = proposer(n)
  /\ justified(m)
  /\ state' = [state EXCEPT ![n] = "Preprepared"]
  /\ current' = [current EXCEPT ![n].preprepare = m.digest]
  /\ msgs' = msgs \cup {vote("Prepare", n, m.digest)}
  /\ UNCHANGED <<preparedPrepares, roundChangeSet, lastStarted, highestPrepared,
                 requested, chain, enqueued>>

-----------------------------------------------------------------------------
(* PREPARE and COMMIT messages (prepare.go, commit.go). *)

\* Mutant: the PREPARE messages are kept, the prepared round and block are not.
handlePrepareUnmarked(n) ==
  /\ Active(n) /\ state[n] = "Preprepared"
  /\ Cardinality(voters("Prepare", n)) >= quorumSize(current[n].sequence)
  /\ state' = [state EXCEPT ![n] = "Prepared"]
  /\ preparedPrepares' = [preparedPrepares EXCEPT ![n] =
       [round |-> current[n].round, block |-> current[n].preprepare]]
  /\ msgs' = msgs \cup {vote("Commit", n, current[n].preprepare)}
  /\ UNCHANGED <<current, roundChangeSet, lastStarted, highestPrepared, requested,
                 chain, enqueued>>

\* Mutant: one PREPARE message too few.
handlePrepareEarly(n) ==
  LET prepared == [round |-> current[n].round, block |-> current[n].preprepare] IN
  /\ Active(n) /\ state[n] = "Preprepared"
  /\ Cardinality(voters("Prepare", n)) >= quorumSize(current[n].sequence) - 1
  /\ state' = [state EXCEPT ![n] = "Prepared"]
  /\ current' = [current EXCEPT ![n].prepared = prepared]
  /\ preparedPrepares' = [preparedPrepares EXCEPT ![n] = prepared]
  /\ msgs' = msgs \cup {vote("Commit", n, current[n].preprepare)}
  /\ UNCHANGED <<roundChangeSet, lastStarted, highestPrepared, requested, chain,
                 enqueued>>

handlePrepare(n) ==
  LET prepared == [round |-> current[n].round, block |-> current[n].preprepare] IN
  /\ Active(n) /\ state[n] = "Preprepared"
  /\ Cardinality(voters("Prepare", n)) >= quorumSize(current[n].sequence)
  /\ state' = [state EXCEPT ![n] = "Prepared"]
  /\ current' = [current EXCEPT ![n].prepared = prepared]
  /\ preparedPrepares' = [preparedPrepares EXCEPT ![n] = prepared]
  /\ msgs' = msgs \cup {vote("Commit", n, current[n].preprepare)}
  /\ UNCHANGED <<roundChangeSet, lastStarted, highestPrepared, requested, chain,
                 enqueued>>

handleCommitMsg(n) ==
  /\ Active(n) /\ state[n] = "Prepared"
  /\ Cardinality(voters("Commit", n)) >= quorumSize(current[n].sequence)
  /\ state' = [state EXCEPT ![n] = "Committed"]
  /\ enqueued' = [enqueued EXCEPT ![n] = @ \cup {current[n].preprepare}]
  /\ UNCHANGED <<current, preparedPrepares, roundChangeSet, lastStarted,
                 highestPrepared, requested, chain, msgs>>

-----------------------------------------------------------------------------
(* ROUND-CHANGE messages (roundchange.go). *)

\* roundChangeSet.Add keeps one message of each sender for each round...
added(n, m) ==
  {x \in roundChangeSet[n] : x.src # m.src \/ x.round # m.round} \cup {m}

\* ... and the highest block its PREPARE messages show to be prepared.
highest(n, m) ==
  IF /\ m.prepared # None /\ m.justification = m.prepared
     /\ \/ highestPrepared[n][m.round] = None
        \/ m.prepared.round > highestPrepared[n][m.round].round
  THEN [highestPrepared[n] EXCEPT ![m.round] = m.prepared]
  ELSE highestPrepared[n]

\* A quorum for the current round: its proposer proposes the highest prepared
\* block, or else the one its own worker has built.
proposeAgain(n, rcs, top) ==
  LET block == IF top # None THEN top.block ELSE current[n].pendingRequest
      quorum == quorumSize(current[n].sequence) IN
  IF block = None
  THEN state' = [state EXCEPT ![n] = "Panic"] /\ UNCHANGED <<current, msgs>>
  ELSE /\ IF /\ isJustified(block, rcs, top, quorum)
             /\ block.number = current[n].sequence
          THEN /\ msgs' = msgs \cup {preprepareMsg(n, block, rcs, top)}
               /\ current' = [current EXCEPT ![n].preprepareSent = current[n].round]
          ELSE UNCHANGED <<current, msgs>>
       /\ UNCHANGED state

\* getMinRoundChange looks at the keys of the set above the round: the rounds
\* with messages, and the one of NewRound, which a new sequence begun with a
\* round above 0 leaves behind without messages.
keysAbove(n, rcs, round) ==
  {r \in Rounds : r > round /\ (r = lastStarted[n] \/ \E x \in rcs : x.round = r)}

\* A message of the current round is of use to its proposer only, until it has
\* proposed, for the next round forgets it; but any message makes the validator
\* see the F+1 messages of higher rounds it may have by then.
handleRoundChange(n, m) ==
  LET round == current[n].round
      rcs == added(n, m)
      tops == highest(n, m)
      higher == {x \in rcs : x.round > round}
      now == {x \in rcs : x.round = round}
  IN
  /\ m.type = "RoundChange" /\ Active(n) /\ checkRoundChange(n, m)
  /\ m.round = round => \/ IsProposer(n) /\ current[n].preprepareSent < round
                        \/ Cardinality({x.src : x \in higher}) = F(valSet) + 1
  /\ IF Cardinality({x.src : x \in higher}) = F(valSet) + 1
     THEN \E r \in keysAbove(n, rcs, round) :
            /\ \A k \in keysAbove(n, rcs, round) : r <= k
            /\ changeRound(n, r, rcs, tops)
     ELSE /\ roundChangeSet' = [roundChangeSet EXCEPT ![n] = rcs]
          /\ highestPrepared' = [highestPrepared EXCEPT ![n] = tops]
          /\ IF /\ Cardinality(now) >= quorumSize(current[n].sequence)
                /\ IsProposer(n) /\ current[n].preprepareSent < round
             THEN proposeAgain(n, now, tops[round])
             ELSE UNCHANGED <<state, current, msgs>>
          /\ UNCHANGED <<preparedPrepares, lastStarted, requested, chain, enqueued>>

-----------------------------------------------------------------------------
(* The chain (backend, fetcher and downloader). *)

\* A block is inserted: one that n's core has committed, or one that a peer
\* has in its chain.
insertBlock(n, b) ==
  /\ b \in enqueued[n] \cup UNION {{chain[p][i] : i \in DOMAIN chain[p]} : p \in Started}
  /\ b.number = Len(chain[n]) + 1
  /\ chain' = [chain EXCEPT ![n] = Append(@, b)]
  /\ UNCHANGED <<coreVars, requested, enqueued, msgs>>

Next ==
  \E n \in Started :
    \/ handleFinalCommitted(n) \/ handleTimeoutMsg(n)
    \/ handlePrepare(n) \/ handleCommitMsg(n)
    \/ \E b \in Proposals : handleRequest(n, b) \/ insertBlock(n, b)
    \/ \E m \in msgs : handlePreprepareMsg(n, m) \/ handleRoundChange(n, m)

Spec == Init /\ [][Next]_vars

-----------------------------------------------------------------------------
(* Properties. *)

TypeOK ==
  /\ state \in [Started -> {"AcceptRequest", "Preprepared", "Prepared", "Committed",
                            "Panic"}]
  /\ \A n \in Started : LET cur == current[n] IN
       /\ cur.round \in Rounds /\ cur.preprepareSent \in 0 .. cur.round
       /\ {cur.preprepare, cur.pendingRequest} \subseteq Proposals \cup {None}
       /\ {preparedPrepares[n], cur.prepared} \subseteq
            {None} \cup [round : Rounds, block : Proposals]
       /\ \A m \in roundChangeSet[n] : m.type = "RoundChange" /\ m \in msgs
       /\ highestPrepared[n] \in [Rounds -> {None} \cup [round : Rounds, block : Proposals]]
       /\ \A b \in enqueued[n] : b \in Proposals

\* No two validators commit different blocks of one height, although no
\* validator is bound by what it has prepared: the justifications of the later
\* rounds alone have to see to it.
Agreement ==
  \A n, p \in Started : \A b \in enqueued[n], c \in enqueued[p] :
    b.number = c.number => b = c

\* Once a quorum has sent COMMIT messages for a block in some round, all
\* PREPARE messages of later rounds of that height are for this block, whether
\* or not anybody has seen the quorum: a ROUND-CHANGE quorum has met it.
CommittedStays ==
  \A c \in msgs : c.type = "Commit" =>
    \/ Cardinality({x \in msgs : /\ x.type = "Commit" /\ x.digest = c.digest
                                 /\ x.seq = c.seq /\ x.round = c.round})
         < quorumSize(c.seq)
    \/ \A m \in msgs : (/\ m.type = "Prepare" /\ m.seq = c.seq
                        /\ m.round > c.round) => m.digest = c.digest

\* The validators that have sent a PREPARE message for b in that view.
Preparers(seq, round, b) ==
  {m.src : m \in {x \in msgs : /\ x.type = "Prepare" /\ x.seq = seq
                               /\ x.round = round /\ x.digest = b}}

\* What broadcastRoundChange tells of a validator's past can be relied on: the
\* prepared block it names has got the PREPARE messages of a quorum in the
\* earlier round it names, and that round is not below any in which the
\* validator has sent a COMMIT, through any number of round changes since.
PreparedTold ==
  \A x \in msgs : x.type = "RoundChange" =>
    /\ x.prepared # None =>
         /\ x.prepared.round < x.round
         /\ Cardinality(Preparers(x.seq, x.prepared.round, x.prepared.block))
              >= quorumSize(x.seq)
    /\ \A c \in msgs : (/\ c.type = "Commit" /\ c.src = x.src /\ c.seq = x.seq
                        /\ c.round < x.round)
                       => x.prepared # None /\ c.round <= x.prepared.round

\* The ROUND-CHANGE messages that count, as the F+1 that make a validator go
\* to a round and as the quorum that justifies a proposal, are those of the
\* current sequence.
RoundChangesCurrent ==
  \A n \in Started : \A m \in roundChangeSet[n] : m.seq = current[n].sequence

\* handleRoundChange finds a block to propose.
NoPanic == \A n \in Started : Up(n)
=============================================================================
