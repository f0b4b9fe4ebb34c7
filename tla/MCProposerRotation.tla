------------------------- MODULE MCProposerRotation -------------------------
(* Small instances of ProposerRotation for TLC.                             *)
EXTENDS ProposerRotation

CONSTANTS v1, v2, v3, v4

\* Every order of every non-empty set of up to four validators.
UpToFourValidators ==
  {vs \in UNION {[1 .. n -> Validators] : n \in 1 .. 4} :
     \A i, j \in DOMAIN vs : vs[i] = vs[j] => i = j}
=============================================================================
