---------------------------- MODULE MCCheckpointSync ----------------------------
(* Instances of CheckpointSync for TLC.                                    *)
EXTENDS CheckpointSync
===============================================================================
