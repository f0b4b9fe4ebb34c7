---------------------------- MODULE MCEmptyBlock ----------------------------
(* Instances of EmptyBlock for TLC. *)
EXTENDS EmptyBlock

CONSTANTS s1, s2, s3

EqualPledges == [s \in Stakers |-> 1]
FullCoefficients == [s \in Stakers |-> 70]

\* Pledges and coefficients are equal.
Interchangeable == Permutations(Stakers)
=============================================================================
