---------------------------- MODULE MCValidatorSet ----------------------------
(* An instance of ValidatorSet and Producers for TLC.                      *)
EXTENDS Producers, TLC

\* Two validators of different power; the addresses of later ones are on both
\* sides of theirs.
MCGenesisPower == 2 :> 2 @@ 3 :> 1
===============================================================================
