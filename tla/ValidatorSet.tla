---------------------------- MODULE ValidatorSet ----------------------------
(***************************************************************************)
(* The validator set of one height (consensus/istanbul/validator/default.go *)
(* and the sort functions of consensus/istanbul/validator.go): its order,   *)
(* the number of faults it tolerates, the quorum that the consensus core    *)
(* derives from it, and the proposer of a round.                            *)
(*                                                                          *)
(* A validator set is the sequence of its validators; index i of the code   *)
(* is position i + 1 here.                                                  *)
(***************************************************************************)
EXTENDS Integers, Sequences

\* Address{}: what LastProposal returns when there is no last proposer
\* (the genesis block, or an empty block).
CONSTANT NoAddress

-----------------------------------------------------------------------------
\* math.Ceil(float64(valSet.Size())/3) - 1
F(valSet) == (Len(valSet) + 2) \div 3 - 1

QuorumSize(valSet) == 2 * F(valSet) + 1

\* How many members any two quorums have in common at least (not positive
\* when two quorums may be disjoint).
QuorumOverlap(valSet) == 2 * QuorumSize(valSet) - Len(valSet)

-----------------------------------------------------------------------------
\* The index of an address that is in the set, which lists no address twice.
GetByAddress(valSet, address) ==
  CHOOSE i \in 0 .. Len(valSet) - 1 : valSet[i + 1] = address

\* Mutant of calcSeed: the round is left out.
calcSeedSameRound(valSet, proposer, round) ==
  IF \E i \in DOMAIN valSet : valSet[i] = proposer
    THEN GetByAddress(valSet, proposer) ELSE 0

calcSeed(valSet, proposer, round) ==
  (IF \E i \in DOMAIN valSet : valSet[i] = proposer
     THEN GetByAddress(valSet, proposer) ELSE 0) + round

\* Mutant of roundRobinProposer: the last proposer is not skipped.
roundRobinProposerStays(valSet, proposer, round) ==
  LET seed == IF proposer = NoAddress
                THEN round
                ELSE calcSeed(valSet, proposer, round)
  IN  valSet[(seed % Len(valSet)) + 1]

\* The selector of the RoundRobin and Coefficient policies.
roundRobinProposer(valSet, proposer, round) ==
  LET seed == IF proposer = NoAddress
                THEN round
                ELSE calcSeed(valSet, proposer, round) + 1
  IN  valSet[(seed % Len(valSet)) + 1]

\* The selector of the Sticky policy.
stickyProposer(valSet, proposer, round) ==
  LET seed == IF proposer = NoAddress
                THEN round
                ELSE calcSeed(valSet, proposer, round)
  IN  valSet[(seed % Len(valSet)) + 1]
=============================================================================
