--------------------------- MODULE CheckpointParams ---------------------------
(***************************************************************************)
(* What the two parts of the checkpoint component share: the checkpoints   *)
(* of module Checkpoint and the sync of the other root chains' headers to  *)
(* the stake chain in module CheckpointSync.  They keep their state under  *)
(* different keys.                                                         *)
(***************************************************************************)
EXTENDS Integers

CONSTANTS
    BufferTime,    \* params.CheckpointBufferTime
    TimeSteps,     \* by how much the time may advance from block to block
    None,          \* nothing under a key of the store
    MaxNumber,     \* bound: checkpoints per root chain
    MaxTxs         \* bound: side transactions per block

ASSUME ParamAssumption ==
    /\ BufferTime \in Nat \ {0}
    /\ TimeSteps \subseteq Nat
    /\ MaxNumber \in Nat /\ MaxTxs \in Nat

Numbers == 1 .. MaxNumber
=============================================================================
