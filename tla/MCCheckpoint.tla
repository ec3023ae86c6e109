---------------------------- MODULE MCCheckpoint -----------------------------
(***************************************************************************)
(* Small instances of Checkpoint for TLC: the stake chain tron, which is   *)
(* checkpointed from block 0 on, and eth, activated at block 1.            *)
(***************************************************************************)
EXTENDS Checkpoint

CONSTANTS tron, eth

MCActivation == [r \in RootChain |-> IF r = tron THEN 0 ELSE 1]
=============================================================================
