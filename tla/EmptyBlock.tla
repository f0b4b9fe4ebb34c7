----------------------------- MODULE EmptyBlock -----------------------------
(***************************************************************************)
(* Empty blocks.  When no block comes for too long a staker's worker stops  *)
(* sealing (module Miner) and votes, round robin, for each staker as the    *)
(* author of an empty block at the next height (miner/worker.go, certify.go *)
(* and signatureProcess.go).  A staker that collects the votes of more than *)
(* half of the weighted stake assembles the block.  Every node checks the   *)
(* votes an empty block carries (verifyEmptyVote in core/blockchain.go) and *)
(* chooses between chains by total difficulty, of which an empty block has  *)
(* 24 and a normal one 1.                                                   *)
(*                                                                         *)
(* A chain is the sequence of its blocks.  A normal block is the one that   *)
(* the validators of its parent commit (module IbftCore), so that a parent  *)
(* has at most one; an empty block is named after the staker that made it.  *)
(***************************************************************************)
EXTENDS Naturals, Sequences, FiniteSets, SequencesExt

CONSTANTS Stakers,
          Balance,          \* Balance[s]: what s has pledged
          Coefficient,      \* Coefficient[s]: its weight
          FullCoefficient,  \* DEFAULT_VALIDATOR_COEFFICIENT
          EmptyDifficulty,  \* 24
          Normal,           \* the normal block of a parent
          None,
          MaxHeight         \* bound: the longest chain

ASSUME EmptyBlockAssumption ==
  /\ IsFiniteSet(Stakers)
  /\ Balance \in [Stakers -> Nat] /\ Coefficient \in [Stakers -> Nat]
  /\ FullCoefficient \in Nat /\ MaxHeight \in Nat
  /\ EmptyDifficulty \in Nat /\ EmptyDifficulty > 1

VARIABLES
  chain,             \* chain[n]: node n's canonical chain
  blocks,            \* chains whose last block has been broadcast
  isEmpty,           \* isEmpty[n]: n has turned to empty blocks
  voted,             \* voted[n]: for whom, and at which height, n has voted
  proofs,            \* proofs[n][h][s]: how often n has counted s's vote for h
  assembling         \* assembling[n]: the votes emptyLoop makes a block of, or None

chainVars == <<chain, blocks>>
voteVars == <<voted, proofs, assembling>>
vars == <<chainVars, isEmpty, voteVars>>

Heights == 1..MaxHeight
NoVotes == [s \in Stakers |-> 0]

Init ==
  /\ chain = [n \in Stakers |-> << >>]
  /\ blocks = {}
  /\ isEmpty = [n \in Stakers |-> FALSE]
  /\ voted = [n \in Stakers |-> {}]
  /\ proofs = [n \in Stakers |-> [h \in Heights |-> NoVotes]]
  /\ assembling = [n \in Stakers |-> None]

-----------------------------------------------------------------------------
(* Weights and difficulties. *)

\* Half of the stake, each pledge weighted with its owner's coefficient.
targetSizeWithWeight ==
  (50 * SumFunction([s \in Stakers |-> Balance[s] * Coefficient[s]])) \div 100

\* What the counted votes weigh: a vote has its pledge at the full weight.
receiveSum(votes) ==
  SumFunction([s \in Stakers |-> votes[s] * Balance[s] * FullCoefficient])

\* Mutant: votes for another height count as well.
verifyEmptyVoteAnyHeight(h, certificate) ==
  receiveSum(certificate.votes) > targetSizeWithWeight

\* Whether a block at height h that carries these votes is accepted: the
\* votes are for its height and outweigh the target.  Nothing keeps a sender
\* from being counted as often as its vote is there; the only blocks here are
\* those that commitEmptyWork assembles of the votes it has gathered.
verifyEmptyVote(h, certificate) ==
  /\ certificate.height = h
  /\ receiveSum(certificate.votes) > targetSizeWithWeight

Difficulty(block) == IF block = Normal THEN 1 ELSE EmptyDifficulty

Td(c) == SumFunction([i \in DOMAIN c |-> Difficulty(c[i])])

\* Mutant: the lengths are compared before the difficulties.
ReorgShorter(c, d) ==
  IF Len(d) # Len(c) THEN {Len(d) < Len(c)}
  ELSE IF Td(d) # Td(c) THEN {Td(d) > Td(c)} ELSE BOOLEAN

\* writeBlockWithState: whether a node on chain c goes over to chain d.  Two
\* chains as heavy and as long as each other leave the choice to chance.
Reorg(c, d) ==
  IF Td(d) # Td(c) THEN {Td(d) > Td(c)}
  ELSE IF Len(d) # Len(c) THEN {Len(d) < Len(c)} ELSE BOOLEAN

\* Mutant: repeated votes count.
IsNewAlways(pool, s, h) == pool[h][s] < 2

\* onlineValidator.Has: s's vote for h has not been counted.
IsNew(pool, s, h) == pool[h][s] = 0

\* ClearPrev: only the votes for heights past chain c are kept.
ClearPrev(pool, c) ==
  [h \in DOMAIN pool |-> IF h <= Len(c) THEN NoVotes ELSE pool[h]]

-----------------------------------------------------------------------------
(* The vote. *)

Height(n) == Len(chain[n]) + 1

\* emptyTimer: n stops sealing and turns to empty blocks.  Module Miner tells
\* when it may; here it may at any time.
emptyTimeout(n) ==
  /\ ~isEmpty[n]
  /\ isEmpty' = [isEmpty EXCEPT ![n] = TRUE]
  /\ UNCHANGED <<chainVars, voteVars>>

\* AssembleAndBroadcastMessage for s, at the start and at every gossipTimer.
vote(n, s) ==
  /\ isEmpty[n] /\ assembling[n] = None
  /\ Height(n) <= MaxHeight
  /\ voted' = [voted EXCEPT ![n] = @ \cup {<<s, Height(n)>>}]
  /\ UNCHANGED <<chainVars, isEmpty, proofs, assembling>>

\* s's vote for n at height h gets to n's handleEvents.  HandleMsg took it
\* when h was the next height, but a goroutine posts it, so that n may have
\* any chain by now.  n counts it once (GatherOtherPeerSignature), and
\* emptyLoop makes a block of the votes when they are for the next height and
\* outweigh the target.
gatherVote(n, s, h) ==
  LET pool == [proofs[n] EXCEPT ![h][s] = @ + 1]
      enough == /\ isEmpty[n] /\ h = Height(n)
                /\ receiveSum(pool[h]) > targetSizeWithWeight IN
  /\ <<n, h>> \in voted[s] /\ assembling[n] = None
  /\ IsNew(proofs[n], s, h)
  /\ IF enough
     THEN /\ assembling' = [assembling EXCEPT ![n] = [height |-> h, votes |-> pool[h]]]
          /\ proofs' = [proofs EXCEPT ![n] = pool]
     ELSE /\ proofs' = [proofs EXCEPT ![n] = ClearPrev(pool, chain[n])]
          /\ UNCHANGED assembling
  /\ UNCHANGED <<chainVars, isEmpty, voted>>

\* commitEmptyWork builds on the head of the moment.  InsertChain may refuse
\* the block, but the empty phase ends in any case.
commitEmptyWork(n) ==
  /\ assembling[n] # None
  /\ IF Height(n) <= MaxHeight /\ verifyEmptyVote(Height(n), assembling[n])
     THEN /\ chain' = [chain EXCEPT ![n] = Append(@, n)]
          /\ blocks' = blocks \cup {Append(chain[n], n)}
     ELSE UNCHANGED chainVars
  /\ isEmpty' = [isEmpty EXCEPT ![n] = FALSE]
  /\ assembling' = [assembling EXCEPT ![n] = None]
  /\ proofs' = [proofs EXCEPT ![n] = ClearPrev(@, chain'[n])]
  /\ UNCHANGED voted

\* resetEmptyCondition, when a new head has been announced or the checkTimer
\* sees that the height of the vote has its block.  The announcement may be
\* that of an earlier phase.
resetEmptyCondition(n) ==
  /\ isEmpty[n] /\ assembling[n] = None
  /\ isEmpty' = [isEmpty EXCEPT ![n] = FALSE]
  /\ UNCHANGED <<chainVars, voteVars>>

-----------------------------------------------------------------------------
(* The chain. *)

\* The validators of n's head commit a normal block.
normalBlock(n) ==
  /\ Height(n) <= MaxHeight
  /\ blocks' = blocks \cup {Append(chain[n], Normal)}
  /\ UNCHANGED <<chain, isEmpty, voteVars>>

\* A broadcast block arrives at n.
importBlock(n, c) ==
  /\ c \in blocks
  /\ TRUE \in Reorg(chain[n], c)
  /\ chain' = [chain EXCEPT ![n] = c]
  /\ UNCHANGED <<blocks, isEmpty, voteVars>>

Next ==
  \/ \E n \in Stakers :
       \/ emptyTimeout(n) \/ commitEmptyWork(n) \/ resetEmptyCondition(n)
       \/ normalBlock(n)
       \/ \E s \in Stakers : vote(n, s) \/ \E h \in Heights : gatherVote(n, s, h)
  \/ \E n \in Stakers, c \in blocks : importBlock(n, c)

Spec == Init /\ [][Next]_vars

-----------------------------------------------------------------------------
(* Properties. *)

TypeOK ==
  /\ chain \in [Stakers -> blocks \cup {<< >>}]
  /\ blocks \subseteq UNION {[1..h -> Stakers \cup {Normal}] : h \in Heights}
  /\ isEmpty \in [Stakers -> BOOLEAN]
  /\ voted \in [Stakers -> SUBSET (Stakers \X Heights)]
  /\ proofs \in [Stakers -> [Heights -> [Stakers -> 0..1]]]
  /\ \A n \in Stakers :
       assembling[n] \in {None} \cup [height : Heights, votes : [Stakers -> 0..1]]

\* The staker behind an empty block at the end of chain c got, for that very
\* height, the votes of stakers that together outweigh the target: the sums
\* of GatherOtherPeerSignature, of emptyLoop and of verifyEmptyVote, which
\* are taken at different moments, never stand for votes not given.
EmptyBlocksVoted ==
  \A c \in blocks : LET author == c[Len(c)] IN
    author # Normal =>
      receiveSum([s \in Stakers |->
        IF <<author, Len(c)>> \in voted[s] THEN 1 ELSE 0]) > targetSizeWithWeight

\* A node gives up blocks of its chain only for a branch with an empty block
\* of its own, or for one that is longer by almost the difficulty of an empty
\* block, because it has to outweigh one.  In particular, without empty blocks
\* the reorganisation rule of writeBlockWithState never undoes what the
\* validators have committed.
OnlyEmptyBlocksUndo ==
  [][\A n \in Stakers :
       \/ IsPrefix(chain[n], chain'[n])
       \/ \E i \in DOMAIN chain'[n] :
            /\ chain'[n][i] # Normal
            /\ i \in DOMAIN chain[n] => chain'[n][i] # chain[n][i]
       \/ Len(chain'[n]) > Len(chain[n]) + EmptyDifficulty - 1]_vars
=============================================================================
