------------------------------- MODULE MCStaking -------------------------------
(* Instances of Staking for TLC.                                           *)
EXTENDS Staking, TLC

CONSTANTS v1, v2, a, b

\* One validator is there from the start.
MCGenesisSigner == v1 :> a
===============================================================================
