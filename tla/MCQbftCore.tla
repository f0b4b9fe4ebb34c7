----------------------------- MODULE MCQbftCore -----------------------------
(* Instances of QbftCore for TLC. *)
EXTENDS QbftCore

CONSTANTS v1, v2, v3

ThreeValidators == <<v1, v2, v3>>

\* One block from each of the first two proposers of the first height.
FirstTwoProposers ==
  {[number |-> 1, author |-> v1], [number |-> 1, author |-> v2]}

=============================================================================
