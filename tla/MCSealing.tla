----------------------------- MODULE MCSealing ------------------------------
(* Instances of Sealing for TLC. *)
EXTENDS Sealing
=============================================================================
