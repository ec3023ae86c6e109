--------------------------- MODULE CheckpointLedger ---------------------------
(***************************************************************************)
(* What the checkpoint module promises, without buffers, acknowledgements  *)
(* or side transactions: for each root chain, an append-only list of block *)
(* ranges of the child chain that starts at the activation height, has no  *)
(* gap and no overlap.                                                     *)
(***************************************************************************)
EXTENDS Integers, Sequences

CONSTANTS
    Block,       \* block numbers of the child chain
    RootChain,   \* the root chains checkpoints are submitted to
    Activation   \* Activation[r]: the first child block checkpointed to r

VARIABLE ledger  \* ledger[r]: the ranges checkpointed to r, oldest first

\* The only block the next range may start at.
NextBlock(r) ==
    IF ledger[r] = <<>> THEN Activation[r] ELSE ledger[r][Len(ledger[r])].end + 1

Init == ledger = [r \in RootChain |-> <<>>]

\* One range of at least two blocks (MsgCheckpoint.ValidateBasic) is finalised.
Finalise(r, last) ==
    /\ last > NextBlock(r)
    /\ ledger' = [ledger EXCEPT ![r] =
                      Append(@, [start |-> NextBlock(r), end |-> last])]

Next == \E r \in RootChain, last \in Block : Finalise(r, last)

Spec == Init /\ [][Next]_ledger
=============================================================================
