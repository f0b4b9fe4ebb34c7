------------------------------ MODULE MCMiner -------------------------------
(* Instances of Miner for TLC. *)
EXTENDS Miner
=============================================================================
