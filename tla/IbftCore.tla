------------------------------ MODULE IbftCore ------------------------------
(***************************************************************************)
(* The IBFT consensus core (consensus/istanbul/ibft/core) of a set of       *)
(* validators, and the part of consensus/istanbul/backend it runs on.       *)
(*                                                                          *)
(* Every validator runs one event loop (handleEvents), so a handler is one  *)
(* atomic action; the validators interleave.  Messages are kept in a set    *)
(* that only grows: a validator may handle any message in it at any time,   *)
(* again, or never, which covers loss, delay, reordering and duplication.   *)
(* It also stands for the backlog and the pending-request queue: a message  *)
(* that checkMessage calls a future message is one that is handled later.   *)
(*                                                                          *)
(* Left out: the list of online validators (PutAddr, nothing in the core    *)
(* reads it), PRE-PREPARE messages without a proposal (they only feed that  *)
(* list), the height at which a chain changes to QBFT (handleFinalCommitted *)
(* then calls startNewRound in a goroutine, while the engine replaces the   *)
(* core), signatures, timers' lengths, logging.                             *)
(***************************************************************************)
EXTENDS ValidatorSet, FiniteSets

CONSTANTS
  valSet,        \* the validators of every height, in their sorted order
  Started,       \* the validators whose engine is started
  Payloads,      \* what blocks of one author and number differ in
  Proposals,     \* the blocks that validators may seal and propose
  Executable,    \* those of them whose execution succeeds on insertion
  None,          \* no proposal / the empty hash
  MaxSequence,   \* bound: no timeout is handled at a larger sequence
  MaxRound,      \* bound: no validator moves to a larger round
  Restartable,   \* bound: the validators that may restart
  Importing      \* bound: the validators that fetch blocks from their peers

Validators == {valSet[i] : i \in DOMAIN valSet}

ASSUME ValSetAssumption ==
  /\ valSet \in Seq(Validators) /\ valSet # << >>
  /\ IsFiniteSet(Validators) /\ Cardinality(Validators) = Len(valSet)
  /\ NoAddress \notin Validators

ASSUME StartedAssumption == Started \subseteq Validators

ASSUME ProposalsAssumption ==
  /\ Proposals \subseteq [number : Nat \ {0}, author : Validators, payload : Payloads]
  /\ Executable \subseteq Proposals
  /\ None \notin Proposals

ASSUME BoundsAssumption ==
  /\ MaxSequence \in Nat /\ MaxRound \in Nat
  /\ Restartable \subseteq Validators /\ Importing \subseteq Validators

VARIABLES
  state,                  \* c.state
  waitingForRoundChange,  \* c.waitingForRoundChange
  current,                \* c.current, the roundState
  roundChangeSet,         \* c.roundChangeSet: the senders for each round
  proposer,               \* c.valSet.proposer
  commitHeight,           \* c.commitHeight
  requested,              \* the sealed blocks whose RequestEvent was handled
  chain,                  \* the blocks of the local chain above genesis
  enqueued,               \* blocks given to backend.Commit, not yet inserted
  badBlocks,              \* blocks whose insertion failed
  msgs,                   \* every message ever broadcast
  restarted               \* history: the validators that restarted

coreVars == <<state, waitingForRoundChange, current, roundChangeSet, proposer>>
chainVars == <<requested, chain, enqueued, badBlocks, restarted>>
vars == <<coreVars, commitHeight, chainVars, msgs>>

-----------------------------------------------------------------------------
Rounds == 0 .. MaxRound

States == {"AcceptRequest", "Preprepared", "Prepared", "Committed"}

\* The position of a state in the iota of ibft/types/state.go, for State.Cmp.
Ord(s) == CASE s = "AcceptRequest" -> 0
            [] s = "Preprepared"   -> 1
            [] s = "Prepared"      -> 2
            [] s = "Committed"     -> 3

\* A PRE-PREPARE carries a proposal; PREPARE and COMMIT carry its digest, for
\* which the proposal itself stands; a ROUND CHANGE carries the empty digest.
Message ==
       [type   : {"Preprepare", "Prepare", "Commit"},
        src    : Validators,
        seq    : Nat,
        round  : Rounds,
        digest : Proposals]
  \cup [type   : {"RoundChange"},
        src    : Validators,
        seq    : Nat,
        round  : Rounds,
        digest : {None}]

RoundState == [sequence       : Nat,
               round          : Rounds,
               preprepare     : Proposals \cup {None},
               prepares       : SUBSET Validators,
               commits        : SUBSET Validators,
               lockedHash     : Proposals \cup {None},
               pendingRequest : Proposals \cup {None}]

newRoundState(seq, round, lockedHash, preprepare, pendingRequest) ==
  [sequence |-> seq, round |-> round, preprepare |-> preprepare,
   prepares |-> {}, commits |-> {}, lockedHash |-> lockedHash,
   pendingRequest |-> pendingRequest]

message(type, n, cur, digest) ==
  [type |-> type, src |-> n, seq |-> cur.sequence, round |-> cur.round,
   digest |-> digest]

-----------------------------------------------------------------------------
\* backend.LastProposal: the head of the local chain and its author.
lastNumber(n) == Len(chain[n])

lastProposer(n) == IF chain[n] = << >> THEN NoAddress
                   ELSE chain[n][Len(chain[n])].author

HasBadProposal(n, b) == b \in badBlocks[n]

IsHashLocked(n) ==
  /\ current[n].lockedHash # None
  /\ ~ HasBadProposal(n, current[n].lockedHash)

\* checkMessage: the answer nil for a message that is not a ROUND CHANGE.  An
\* old message is dropped; a future one goes to the backlog, i.e. stays in msgs.
checkMessage(n, m) ==
  /\ m.seq = current[n].sequence /\ m.round = current[n].round
  /\ ~ waitingForRoundChange[n]
  /\ state[n] = "AcceptRequest" => m.type = "Preprepare"

\* checkMessage: the answer nil for a ROUND CHANGE.
checkRoundChange(n, m) ==
  m.seq = current[n].sequence /\ m.round >= current[n].round

\* Mutant of verifySubject: the digest is not compared.
verifySubjectAnyDigest(n, m) == current[n].preprepare # None

\* verifyPrepare, verifyCommit: the subject is the one of the own round state.
verifySubject(n, m) ==
  /\ current[n].preprepare # None
  /\ m.digest = current[n].preprepare

-----------------------------------------------------------------------------
(* Sending.  Each operator gives the messages that are added to msgs.       *)

\* sendPreprepare: the PRE-PREPARE of a proposer; a validator that is not the
\* proposer p broadcasts one without proposal, which is not modelled.
sendPreprepare(n, cur, p, b) ==
  IF cur.sequence = b.number /\ p = n
    THEN {message("Preprepare", n, cur, b)} ELSE {}

\* Mutants of sendCommit: without the check of commitHeight, and with the check
\* one height too early.
sendCommitAlways(n, cur) ==
  /\ commitHeight' = [commitHeight EXCEPT ![n] = cur.sequence]
  /\ msgs' = msgs \cup {message("Commit", n, cur, cur.preprepare)}

sendCommitEarly(n, cur) ==
  IF commitHeight[n] + 1 >= cur.sequence
    THEN UNCHANGED <<commitHeight, msgs>>
    ELSE sendCommitAlways(n, cur)

\* sendCommit: at most one COMMIT per height, see commitHeight.
sendCommit(n, cur) ==
  IF commitHeight[n] >= cur.sequence
    THEN UNCHANGED <<commitHeight, msgs>>
    ELSE /\ commitHeight' = [commitHeight EXCEPT ![n] = cur.sequence]
         /\ msgs' = msgs \cup {message("Commit", n, cur, cur.preprepare)}

-----------------------------------------------------------------------------
(* Rounds.  rcs is the round change set of n that the caller has reached.   *)

\* Mutant of updateRoundState: the lock is not carried over.
updateRoundStateUnlocked(n, round) ==
  newRoundState(current[n].sequence, round, None, None, current[n].pendingRequest)

\* Mutant of updateRoundState: the lock is carried over without its proposal.
updateRoundStateHashOnly(n, round) ==
  newRoundState(current[n].sequence, round,
                IF IsHashLocked(n) THEN current[n].lockedHash ELSE None,
                None, current[n].pendingRequest)

\* updateRoundState(view, valSet, roundChange = true)
updateRoundState(n, round) ==
  IF IsHashLocked(n)
    THEN newRoundState(current[n].sequence, round, current[n].lockedHash,
                       current[n].preprepare, current[n].pendingRequest)
    ELSE newRoundState(current[n].sequence, round, None,
                       None, current[n].pendingRequest)

\* roundChangeSet.Clear: the messages for smaller rounds are dropped.
Clear(rcs, round) == [r \in Rounds |-> IF r < round THEN {} ELSE rcs[r]]

\* The round grows, and the state of the old round is kept until the new one
\* starts; so is the proposer.
catchUpRound(n, round, rcs) ==
  /\ waitingForRoundChange' = [waitingForRoundChange EXCEPT ![n] = TRUE]
  /\ current' = [current EXCEPT ![n] = updateRoundState(n, round)]
  /\ roundChangeSet' = [roundChangeSet EXCEPT ![n] = Clear(rcs, round)]

\* Mutant of sendRoundChange: the subject carries the digest of the lock.
sendRoundChangeLocked(n, round, rcs) ==
  /\ round \in Rounds /\ round > current[n].round
  /\ catchUpRound(n, round, rcs)
  /\ msgs' = msgs \cup {message("RoundChange", n, current'[n], current'[n].lockedHash)}
  /\ UNCHANGED <<state, proposer, commitHeight, chainVars>>

\* A ROUND CHANGE to a larger round, and nothing for any other.
sendRoundChange(n, round, rcs) ==
  /\ round \in Rounds /\ round > current[n].round
  /\ catchUpRound(n, round, rcs)
  /\ msgs' = msgs \cup {message("RoundChange", n, current'[n], None)}
  /\ UNCHANGED <<state, proposer, commitHeight, chainVars>>

sendNextRoundChange(n) ==
  sendRoundChange(n, current[n].round + 1, roundChangeSet[n])

\* The assignments that startNewRound makes in every new round.
enterRound(n, cur) ==
  /\ current' = [current EXCEPT ![n] = cur]
  /\ proposer' = [proposer EXCEPT ![n] =
                    roundRobinProposer(valSet, lastProposer(n), cur.round)]
  /\ roundChangeSet' = [roundChangeSet EXCEPT ![n] = [r \in Rounds |-> {}]]
  /\ waitingForRoundChange' = [waitingForRoundChange EXCEPT ![n] = FALSE]
  /\ state' = [state EXCEPT ![n] = "AcceptRequest"]

\* What the proposer of a new round proposes: the locked proposal, else its
\* own pending request.
reproposed(n, cur, p) ==
  IF cur.lockedHash # None THEN sendPreprepare(n, cur, p, cur.preprepare)
  ELSE IF cur.pendingRequest # None THEN sendPreprepare(n, cur, p, cur.pendingRequest)
  ELSE {}

\* Mutant of startNewRound: the new sequence is the number of the chain's head.
startNewRoundAtHead(n, round) ==
  \/ /\ lastNumber(n) >= current[n].sequence
     /\ enterRound(n, newRoundState(lastNumber(n), 0, None, None, None))
     /\ UNCHANGED <<commitHeight, chainVars, msgs>>
  \/ /\ lastNumber(n) = current[n].sequence - 1
     /\ round # 0 /\ round >= current[n].round
     /\ enterRound(n, updateRoundState(n, round))
     /\ msgs' = msgs \cup reproposed(n, updateRoundState(n, round), proposer'[n])
     /\ UNCHANGED <<commitHeight, chainVars>>

\* startNewRound: the chain has reached the current sequence, so the next
\* sequence starts; or the round grows at the same sequence.  In every other
\* case it returns without effect.
startNewRound(n, round) ==
  \/ /\ lastNumber(n) >= current[n].sequence
     /\ enterRound(n, newRoundState(lastNumber(n) + 1, 0, None, None, None))
     /\ UNCHANGED <<commitHeight, chainVars, msgs>>
  \/ /\ lastNumber(n) = current[n].sequence - 1
     /\ round # 0 /\ round >= current[n].round
     /\ enterRound(n, updateRoundState(n, round))
     /\ msgs' = msgs \cup reproposed(n, updateRoundState(n, round), proposer'[n])
     /\ UNCHANGED <<commitHeight, chainVars>>

-----------------------------------------------------------------------------
(* The handlers of the event loop.                                          *)

\* A block that n has sealed is posted as a RequestEvent and handled once the
\* core has reached its height (until then it is in pendingRequests).
handleRequest(n, b) ==
  /\ b \notin requested[n] /\ b.author = n
  /\ b.number = current[n].sequence
  /\ requested' = [requested EXCEPT ![n] = @ \cup {b}]
  /\ current' = [current EXCEPT ![n].pendingRequest = b]
  /\ msgs' = IF state[n] = "AcceptRequest"
               THEN msgs \cup sendPreprepare(n, current[n], proposer[n], b)
               ELSE msgs
  /\ UNCHANGED <<state, waitingForRoundChange, roundChangeSet, proposer,
                 commitHeight, chain, enqueued, badBlocks, restarted>>

\* Mutant of acceptable: in every state.
acceptableAnytime(n, b) == ~ HasBadProposal(n, b)

\* A verified proposal is about to be accepted.
acceptable(n, b) == ~ HasBadProposal(n, b) /\ state[n] = "AcceptRequest"

\* A PRE-PREPARE of the current view from the proposer.  backend.Verify fails
\* for a bad block; a block from the future is handled again later.
handlePreprepare(n, m) ==
  /\ m.type = "Preprepare" /\ checkMessage(n, m)
  /\ m.src = proposer[n]
  /\ \/ /\ HasBadProposal(n, m.digest)
        /\ sendNextRoundChange(n)
     \/ /\ acceptable(n, m.digest)
        /\ IsHashLocked(n) /\ m.digest # current[n].lockedHash
        /\ sendNextRoundChange(n)
     \/ /\ acceptable(n, m.digest)
        /\ IsHashLocked(n) /\ m.digest = current[n].lockedHash
        /\ current' = [current EXCEPT ![n].preprepare = m.digest]
        /\ state' = [state EXCEPT ![n] = "Prepared"]
        /\ sendCommit(n, [current[n] EXCEPT !.preprepare = m.digest])
        /\ UNCHANGED <<waitingForRoundChange, roundChangeSet, proposer, chainVars>>
     \/ /\ acceptable(n, m.digest) /\ ~ IsHashLocked(n)
        /\ current' = [current EXCEPT ![n].preprepare = m.digest]
        /\ state' = [state EXCEPT ![n] = "Preprepared"]
        /\ msgs' = msgs \cup {message("Prepare", n, current[n], m.digest)}
        /\ UNCHANGED <<waitingForRoundChange, roundChangeSet, proposer,
                       commitHeight, chainVars>>

\* Mutant of isPrepared: F + 1 PREPAREs or COMMITs are enough.
isPreparedWeak(n, cur, digest) ==
  \/ IsHashLocked(n) /\ digest = cur.lockedHash
  \/ Cardinality(cur.prepares \cup cur.commits) > F(valSet)

\* The prepared condition of handlePrepare, in the round state cur.
isPrepared(n, cur, digest) ==
  \/ IsHashLocked(n) /\ digest = cur.lockedHash
  \/ Cardinality(cur.prepares \cup cur.commits) >= QuorumSize(valSet)

\* A PREPARE of the current view for the accepted proposal.  Once the state is
\* Prepared the code still records it, in a set that is not read again.
handlePrepare(n, m) ==
  LET cur == [current[n] EXCEPT !.prepares = @ \cup {m.src}]
  IN  /\ m.type = "Prepare" /\ checkMessage(n, m) /\ verifySubject(n, m)
      /\ Ord(state[n]) < Ord("Prepared")
      /\ IF isPrepared(n, cur, m.digest)
           THEN /\ current' = [current EXCEPT ![n] = [cur EXCEPT !.lockedHash = cur.preprepare]]
                /\ state' = [state EXCEPT ![n] = "Prepared"]
                /\ sendCommit(n, cur)
           ELSE /\ current' = [current EXCEPT ![n] = cur]
                /\ UNCHANGED <<state, commitHeight, msgs>>
      /\ UNCHANGED <<waitingForRoundChange, roundChangeSet, proposer, chainVars>>

\* With a quorum of COMMITs the proposal is locked and handed to
\* backend.Commit, which gives it to Seal or to the block fetcher.  Once the
\* state is Committed the code still records COMMITs that nothing reads.
handleCommit(n, m) ==
  LET cur == [current[n] EXCEPT !.commits = @ \cup {m.src}]
  IN  /\ m.type = "Commit" /\ checkMessage(n, m) /\ verifySubject(n, m)
      /\ Ord(state[n]) < Ord("Committed")
      /\ IF Cardinality(cur.commits) >= QuorumSize(valSet)
           THEN /\ current' = [current EXCEPT ![n] = [cur EXCEPT !.lockedHash = cur.preprepare]]
                /\ state' = [state EXCEPT ![n] = "Committed"]
                /\ enqueued' = [enqueued EXCEPT ![n] = @ \cup {cur.preprepare}]
           ELSE /\ current' = [current EXCEPT ![n] = cur]
                /\ UNCHANGED <<state, enqueued>>
      /\ UNCHANGED <<waitingForRoundChange, roundChangeSet, proposer, commitHeight,
                     requested, chain, badBlocks, restarted, msgs>>

\* F + 1 validators ask for a round that n is still waiting to change to.
weakCertificate(n, num) == waitingForRoundChange[n] /\ num = F(valSet) + 1

\* Mutant of roundChangeQuorum: one ROUND CHANGE too few.
roundChangeQuorumEarly(n, num, round) ==
  /\ num = QuorumSize(valSet) - 1
  /\ waitingForRoundChange[n] \/ current[n].round < round

\* Mutant of roundChangeQuorum: one ROUND CHANGE too many.
roundChangeQuorumLate(n, num, round) ==
  /\ num = QuorumSize(valSet) + 1
  /\ waitingForRoundChange[n] \/ current[n].round < round

\* A quorum of validators asks for a round that n has not entered yet.
roundChangeQuorum(n, num, round) ==
  /\ num = QuorumSize(valSet)
  /\ waitingForRoundChange[n] \/ current[n].round < round

\* A ROUND CHANGE to the current round of a core that is no longer waiting is
\* recorded by the code and never counted; it is left out here.
handleRoundChange(n, m) ==
  LET rcs == [roundChangeSet[n] EXCEPT ![m.round] = @ \cup {m.src}]
      num == Cardinality(rcs[m.round])
      weak == weakCertificate(n, num)
      ahead == current[n].round < m.round
  IN  /\ m.type = "RoundChange" /\ checkRoundChange(n, m)
      /\ waitingForRoundChange[n] \/ ahead
      /\ \/ weak /\ ahead /\ sendRoundChange(n, m.round, rcs)
         \/ ~ weak /\ roundChangeQuorum(n, num, m.round) /\ startNewRound(n, m.round)
         \/ /\ IF weak THEN ~ ahead ELSE ~ roundChangeQuorum(n, num, m.round)
            /\ roundChangeSet' = [roundChangeSet EXCEPT ![n] = rcs]
            /\ UNCHANGED <<state, waitingForRoundChange, current, proposer,
                           commitHeight, chainVars, msgs>>

\* roundChangeSet.MaxRound(num) is not nil and larger than the current round.
catchUpRounds(n, num) ==
  {r \in Rounds : /\ Cardinality(roundChangeSet[n][r]) >= num
                  /\ r > current[n].round}

handleTimeoutMsg(n) ==
  LET ahead == catchUpRounds(n, F(valSet) + 1)
  IN  /\ current[n].sequence <= MaxSequence
      /\ \/ /\ ~ waitingForRoundChange[n] /\ ahead # {}
            /\ \E r \in ahead : /\ \A s \in ahead : s <= r
                                /\ sendRoundChange(n, r, roundChangeSet[n])
         \/ /\ waitingForRoundChange[n] \/ ahead = {}
            /\ lastNumber(n) >= current[n].sequence
            /\ startNewRound(n, 0)
         \/ /\ waitingForRoundChange[n] \/ ahead = {}
            /\ lastNumber(n) < current[n].sequence
            /\ sendNextRoundChange(n)

\* A new chain head posts a FinalCommittedEvent.
handleFinalCommitted(n) ==
  /\ lastNumber(n) >= current[n].sequence
  /\ startNewRound(n, 0)

-----------------------------------------------------------------------------
(* The chain below the core, and restarts.                                  *)

\* Mutant of insertBlock: Seal returns the block that was sealed in place of the
\* result that was committed.
insertBlockSealed(n, b) ==
  \E c \in requested[n] :
    /\ b \in enqueued[n] /\ b.number = lastNumber(n) + 1 /\ c.number = b.number
    /\ enqueued' = [enqueued EXCEPT ![n] = @ \ {b}]
    /\ chain' = [chain EXCEPT ![n] = Append(@, c)]
    /\ UNCHANGED <<badBlocks, coreVars, commitHeight, requested, restarted, msgs>>

\* A block given to backend.Commit reaches the chain through Seal and the
\* worker or through the block fetcher; one that fails to execute is bad.
insertBlock(n, b) ==
  /\ b \in enqueued[n] /\ b.number <= lastNumber(n) + 1
  /\ enqueued' = [enqueued EXCEPT ![n] = @ \ {b}]
  /\ \/ /\ b.number = lastNumber(n) + 1 /\ b \in Executable
        /\ chain' = [chain EXCEPT ![n] = Append(@, b)]
        /\ UNCHANGED badBlocks
     \/ /\ b.number = lastNumber(n) + 1 /\ b \notin Executable
        /\ badBlocks' = [badBlocks EXCEPT ![n] = @ \cup {b}]
        /\ UNCHANGED chain
     \/ /\ b.number <= lastNumber(n)
        /\ UNCHANGED <<chain, badBlocks>>
  /\ UNCHANGED <<coreVars, commitHeight, requested, restarted, msgs>>

\* The next block is fetched from a peer p that has it.
importBlock(n, p) ==
  /\ n \in Importing
  /\ lastNumber(n) < lastNumber(p)
  /\ chain' = [chain EXCEPT ![n] = Append(@, chain[p][lastNumber(n) + 1])]
  /\ UNCHANGED <<coreVars, commitHeight, requested, enqueued, badBlocks, restarted, msgs>>

\* backend.Stop and Start: startIBFT makes a new core.  Blocks on their way to
\* the chain are lost when the whole process restarts.
Restart(n) ==
  /\ n \in Restartable
  /\ restarted' = restarted \cup {n}
  /\ enterRound(n, newRoundState(lastNumber(n) + 1, 0, None, None, None))
  /\ commitHeight' = [commitHeight EXCEPT ![n] = 0]
  /\ requested' = [requested EXCEPT ![n] = {}]
  /\ \E kept \in {{}, enqueued[n]} : enqueued' = [enqueued EXCEPT ![n] = kept]
  /\ UNCHANGED <<chain, badBlocks, msgs>>

-----------------------------------------------------------------------------
\* Every engine has been started on the genesis block.
Init ==
  /\ state = [n \in Validators |-> "AcceptRequest"]
  /\ waitingForRoundChange = [n \in Validators |-> FALSE]
  /\ current = [n \in Validators |-> newRoundState(1, 0, None, None, None)]
  /\ roundChangeSet = [n \in Validators |-> [r \in Rounds |-> {}]]
  /\ proposer = [n \in Validators |-> roundRobinProposer(valSet, NoAddress, 0)]
  /\ commitHeight = [n \in Validators |-> 0]
  /\ requested = [n \in Validators |-> {}]
  /\ chain = [n \in Validators |-> << >>]
  /\ enqueued = [n \in Validators |-> {}]
  /\ badBlocks = [n \in Validators |-> {}]
  /\ msgs = {}
  /\ restarted = {}

\* One event of the loop handleEvents.
handleEvents(n) ==
  \/ \E b \in Proposals : handleRequest(n, b)
  \/ \E m \in msgs : handlePreprepare(n, m)
  \/ \E m \in msgs : handlePrepare(n, m)
  \/ \E m \in msgs : handleCommit(n, m)
  \/ \E m \in msgs : handleRoundChange(n, m)
  \/ handleTimeoutMsg(n)
  \/ handleFinalCommitted(n)

Next ==
  \E n \in Started :
    \/ handleEvents(n)
    \/ \E b \in enqueued[n] : insertBlock(n, b)
    \/ \E p \in Started : importBlock(n, p)
    \/ Restart(n)

Spec == Init /\ [][Next]_vars

\* As long as an event or a committed block is pending somewhere, one of them
\* is handled.  Each validator has its own goroutines, so the code guarantees
\* more; the handlers run out of work after finitely many steps, and this is
\* enough.  Nothing is assumed of imports and restarts.
Fairness ==
  WF_vars(\E n \in Started : \/ handleEvents(n)
                             \/ \E b \in enqueued[n] : insertBlock(n, b))

FairSpec == Spec /\ Fairness

-----------------------------------------------------------------------------
(* Properties.                                                              *)

TypeOK ==
  /\ state \in [Validators -> States]
  /\ waitingForRoundChange \in [Validators -> BOOLEAN]
  /\ current \in [Validators -> RoundState]
  /\ roundChangeSet \in [Validators -> [Rounds -> SUBSET Validators]]
  /\ proposer \in [Validators -> Validators]
  /\ commitHeight \in [Validators -> Nat]
  /\ requested \in [Validators -> SUBSET Proposals]
  /\ chain \in [Validators -> Seq(Proposals)]
  /\ enqueued \in [Validators -> SUBSET Proposals]
  /\ badBlocks \in [Validators -> SUBSET Proposals]
  /\ msgs \subseteq Message
  /\ restarted \subseteq Validators

\* The blocks that n has committed: in its chain, on their way to it, or found
\* bad on insertion.
Committed(n) ==
  enqueued[n] \cup badBlocks[n] \cup {chain[n][i] : i \in DOMAIN chain[n]}

\* No two validators commit different blocks at one height, as long as fewer
\* validators have restarted (and so forgotten commitHeight and their lock)
\* than any two quorums have in common.  This holds across rounds, and after
\* a committed block turned out to be bad.
Agreement ==
  Cardinality(restarted) < QuorumOverlap(valSet) =>
    \A n, p \in Validators : \A b \in Committed(n), c \in Committed(p) :
      b.number = c.number => b = c

\* sendCommit and commitHeight: a core that has not been restarted sends one
\* COMMIT per height, whatever the rounds it goes through.
CommitOnce ==
  \A m, k \in msgs :
    /\ m.type = "Commit" /\ k.type = "Commit"
    /\ m.src = k.src /\ m.src \notin restarted
    /\ m.seq = k.seq
    => m = k

\* What a validator has committed to at its current height it stays locked on:
\* no round change drops the lock (updateRoundState), unless the block is bad.
CommitStaysLocked ==
  \A m \in msgs :
    /\ m.type = "Commit" /\ m.src \notin restarted
    /\ m.seq = current[m.src].sequence
    /\ ~ HasBadProposal(m.src, m.digest)
    => current[m.src].lockedHash = m.digest

\* The validators that broadcast a PREPARE or a COMMIT for b in that view.
Supporters(seq, round, b) ==
  {m.src : m \in {k \in msgs : /\ k.type \in {"Prepare", "Commit"}
                               /\ k.seq = seq /\ k.round = round /\ k.digest = b}}

\* A validator is locked only on a block that a quorum supported in one of the
\* rounds so far (handlePrepare and handleCommit before LockHash).
LockHasQuorum ==
  \A n \in Validators : current[n].lockedHash # None =>
    \E r \in 0 .. current[n].round :
      Cardinality(Supporters(current[n].sequence, r, current[n].lockedHash))
        >= QuorumSize(valSet)

\* A core that has not been restarted prepares one block per view, even when the
\* proposer broadcast two PRE-PREPAREs in it (handleRequest while its own
\* PRE-PREPARE is still on its way).
PrepareOnce ==
  \A m, k \in msgs :
    /\ m.type = "Prepare" /\ k.type = "Prepare"
    /\ m.src = k.src /\ m.src \notin restarted
    /\ m.seq = k.seq /\ m.round = k.round
    => m.digest = k.digest

\* The nil dereferences the handlers rely on not meeting: past AcceptRequest
\* there is a proposal to take the subject of (sendCommit), and a locked core
\* still holds the locked proposal to propose it again (startNewRound).
ProposalAtHand ==
  \A n \in Validators :
    /\ ~ waitingForRoundChange[n] /\ state[n] # "AcceptRequest"
         => current[n].preprepare # None
    /\ IsHashLocked(n) => current[n].preprepare = current[n].lockedHash

\* A validator works in a round above 0 only once a quorum of validators asked
\* for that very round (handleRoundChange calling startNewRound).
RoundHasQuorum ==
  \A n \in Validators : ~ waitingForRoundChange[n] /\ current[n].round > 0 =>
    Cardinality({m.src : m \in {k \in msgs : /\ k.type = "RoundChange"
                                             /\ k.seq = current[n].sequence
                                             /\ k.round = current[n].round}})
      >= QuorumSize(valSet)

\* "We've received 2f+1/Ceil(2N/3) ROUND CHANGE messages, start a new round
\* immediately": no core waits for its round with a quorum of them at hand.  The
\* exact comparisons num == F()+1 and num == QuorumSize() of handleRoundChange
\* are not stepped over, whatever the order of messages, timeouts and catching
\* up.  It holds for F > 0; for F = 0 the two numbers are the same, and it fails.
QuorumStartsRound ==
  \A n \in Validators : waitingForRoundChange[n] =>
    Cardinality(roundChangeSet[n][current[n].round]) < QuorumSize(valSet)

\* The view of a core never goes back, and neither does its commitHeight, in a
\* step that is not its restart (startNewRound, catchUpRound, sendCommit).
ViewStep(n) ==
  /\ \/ current'[n].sequence > current[n].sequence
     \/ /\ current'[n].sequence = current[n].sequence
        /\ current'[n].round >= current[n].round
  /\ commitHeight'[n] >= commitHeight[n]

ViewsGrow == [][\A n \in Validators \ restarted' : ViewStep(n)]_vars

\* The chains of the validators implement the abstract ledger: they only grow,
\* by blocks that no other chain contradicts (backend.Commit, block import).
L == INSTANCE Ledger WITH Nodes <- Validators, Blocks <- Proposals
ImplementsLedger == L!Spec

\* No proposer has broadcast two proposals in one view (see PrepareOnce).
OneProposal ==
  LET proposals == {m \in msgs : m.type = "Preprepare"}
  IN  \A m, k \in proposals : m.seq = k.seq /\ m.round = k.round => m = k

\* While no round times out and no proposer proposes twice in a view, every
\* height is committed by every started validator (the path handleRequest ...
\* handleFinalCommitted never stalls).
EveryHeightCommitted ==
  []OneProposal => <>(\A n \in Started : lastNumber(n) >= MaxSequence)

-----------------------------------------------------------------------------
(* What comments of the source say, and the code does not do.               *)

\* "If I'm the proposer and I have the same sequence with the proposal": only
\* the proposer of a view sends a PRE-PREPARE with a proposal in that view.
ProposerOfView(n, seq, round) ==
  roundRobinProposer(valSet, IF seq = 1 THEN NoAddress ELSE chain[n][seq - 1].author, round)

OnlyProposerProposes ==
  \A m \in msgs : m.type = "Preprepare" => m.src = ProposerOfView(m.src, m.seq, m.round)

\* "core should have 2F+1 before Ceil2Nby3Block and Ceil(2N/3) after": with the
\* default Ceil2Nby3Block = 0, a core commits with the COMMITs of at least two
\* thirds of the validators.
CommittedByCeil2Nby3 ==
  \A n \in Validators : ~ waitingForRoundChange[n] /\ state[n] = "Committed" =>
    3 * Cardinality(current[n].commits) >= 2 * Len(valSet)
=============================================================================
