----------------------------- MODULE MCIbftCore -----------------------------
(* Small instances of IbftCore for TLC.                                     *)
EXTENDS IbftCore, TLC

CONSTANTS v1, v2, v3, v4, v5, v6, p1, p2

\* Four validators: F = 1, the quorum is 3.
FourValidators == <<v1, v2, v3, v4>>

\* Three validators: F = 0, the quorum is 1.
ThreeValidators == <<v1, v2, v3>>

\* Six validators: F = 1, and two quorums of 3 may be disjoint.
SixValidators == <<v1, v2, v3, v4, v5, v6>>

Block(number, author, payload) ==
  [number |-> number, author |-> author, payload |-> payload]

\* One block of each of the proposers of rounds 0 and 1 of the first height.
TwoProposers == {Block(1, v1, p1), Block(1, v2, p1)}

\* The proposer of round 0 seals two blocks of the first height.
TwoSealed == {Block(1, v1, p1), Block(1, v1, p2)}

\* Two blocks of the first height and one of the second, by the proposers of
\* their rounds 0.
TwoHeights == {Block(1, v1, p1), Block(1, v1, p2), Block(2, v2, p1)}

SecondProposer == {Block(1, v2, p1)}

OneBlock == {Block(1, v1, p1)}

NoBlock == {}

\* Nothing tells the payloads of the two sealed blocks apart.
SamePayloads == Permutations({p1, p2})
=============================================================================
