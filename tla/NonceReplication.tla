--------------------------- MODULE NonceReplication ---------------------------
(***************************************************************************)
(* What the staking module promises to the other root chains.  The stake   *)
(* chain numbers the events of a validator; heimdall applies them and the  *)
(* other root chains receive them, each one exactly once and in order:     *)
(* every nonce advances in steps of one and none overtakes the one it      *)
(* follows.                                                                *)
(***************************************************************************)
EXTENDS Naturals

CONSTANTS ValidatorID, SyncRoot

VARIABLES emitted, applied, synced

vars == <<emitted, applied, synced>>

\* Genesis validators are known everywhere, with the nonce of their join.
Init ==
    /\ emitted \in [ValidatorID -> {0, 1}]
    /\ applied = emitted
    /\ synced = [r \in SyncRoot |-> emitted]

Emit(id) ==
    /\ emitted' = [emitted EXCEPT ![id] = @ + 1]
    /\ UNCHANGED <<applied, synced>>

Apply(id) ==
    /\ applied[id] < emitted[id]
    /\ applied' = [applied EXCEPT ![id] = @ + 1]
    /\ UNCHANGED <<emitted, synced>>

Sync(r, id) ==
    /\ synced[r][id] < applied[id]
    /\ synced' = [synced EXCEPT ![r][id] = @ + 1]
    /\ UNCHANGED <<emitted, applied>>

Next ==
    \E id \in ValidatorID :
        Emit(id) \/ Apply(id) \/ (\E r \in SyncRoot : Sync(r, id))

Spec == Init /\ [][Next]_vars
===============================================================================
