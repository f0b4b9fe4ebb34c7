-------------------------- MODULE ProposerRotation --------------------------
(***************************************************************************)
(* Who proposes, round after round and height after height: startNewRound   *)
(* gives CalcProposer the author of the last block and the round.  Every    *)
(* height has a validator set of its own, in the order of its sort function *)
(* (by coefficient: any order), and may end with an empty block, which has  *)
(* no author.                                                               *)
(***************************************************************************)
EXTENDS ValidatorSet

CONSTANTS
  Validators,
  ValSets,   \* the validator sets a height may have
  MaxRound   \* bound: the rounds of a height

ASSUME RotationAssumption ==
  /\ \A vs \in ValSets : /\ vs \in Seq(Validators) /\ vs # << >>
                         /\ \A i, j \in DOMAIN vs : vs[i] = vs[j] => i = j
  /\ NoAddress \notin Validators
  /\ MaxRound \in Nat

VARIABLES
  policy,        \* "RoundRobin" (also stands for "Coefficient") or "Sticky"
  valSet,        \* c.valSet
  lastProposer,  \* the author of the last block
  turns          \* the proposers of the rounds 0, 1, ... of this height

rotationVars == <<policy, valSet, lastProposer, turns>>

CalcProposer(pol, vs, last, round) ==
  IF pol = "Sticky" THEN stickyProposer(vs, last, round)
  ELSE roundRobinProposer(vs, last, round)

newHeight(last) ==
  /\ lastProposer' = last
  /\ valSet' \in ValSets
  /\ turns' = <<CalcProposer(policy, valSet', last, 0)>>
  /\ UNCHANGED policy

\* A block is committed.  Its author is the proposer of this round or, when a
\* later proposer proposes the locked block again, of an earlier one.
commitBlock == \E i \in DOMAIN turns : newHeight(turns[i])

emptyBlock == newHeight(NoAddress)

nextRound ==
  /\ Len(turns) <= MaxRound
  /\ turns' = Append(turns, CalcProposer(policy, valSet, lastProposer, Len(turns)))
  /\ UNCHANGED <<policy, valSet, lastProposer>>

RotationInit ==
  /\ policy \in {"RoundRobin", "Sticky"}
  /\ valSet \in ValSets
  /\ lastProposer = NoAddress
  /\ turns = <<CalcProposer(policy, valSet, NoAddress, 0)>>

RotationNext == commitBlock \/ emptyBlock \/ nextRound

RotationSpec == RotationInit /\ [][RotationNext]_rotationVars

-----------------------------------------------------------------------------
\* As many consecutive rounds of a height as there are validators have as many
\* different proposers, whatever the last block and its author: a faulty
\* proposer cannot keep a height (roundRobinProposer, stickyProposer, calcSeed).
EveryoneGetsATurn ==
  \A i, j \in DOMAIN turns : i < j /\ j < i + Len(valSet) => turns[i] # turns[j]

\* The author of a block that is still a validator does not open the next
\* height under RoundRobin, and does under Sticky.
AuthorMovesOn ==
  \A i \in DOMAIN valSet : valSet[i] = lastProposer /\ Len(valSet) > 1 =>
    (turns[1] = lastProposer <=> policy = "Sticky")
=============================================================================
