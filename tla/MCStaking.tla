----------------------------- MODULE MCStaking -----------------------------
(***************************************************************************)
(* One genesis validator and other accounts with the means to become one.   *)
(***************************************************************************)
EXTENDS Staking, TLC

CONSTANTS a, b, c

ThreeFunds == a :> 4 @@ b :> 4 @@ c :> 2
OneValidator == a :> 4
=============================================================================
