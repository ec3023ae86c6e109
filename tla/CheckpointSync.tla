----------------------------- MODULE CheckpointSync -----------------------------
(***************************************************************************)
(* The sync of checkpoints (checkpoint/, bridge/setu/processor/            *)
(* checkpointsync.go): the stake chain's contract is told of the headers   *)
(* of another root chain, one by one.  A validator's bridge proposes the   *)
(* header after the last one synced, the post handler buffers it, the      *)
(* proposer's bridge sends it to the stake chain, whose event comes back   *)
(* as an acknowledgement that empties the buffer.                          *)
(*                                                                         *)
(* The root chains do not share any of this state: the module speaks of    *)
(* one of them.  A header is known by its number; the buffer holds its     *)
(* blocks and proposer, which name it.  Bridges propose what they just     *)
(* read, but a transaction waits in the mempool and then two blocks for    *)
(* its votes.                                                              *)
(***************************************************************************)
EXTENDS CheckpointParams, FiniteSets

CONSTANT Sender  \* the validators whose bridges propose

\* A buffered sync holds the next one back for a fifth of the buffer time.
SyncTime == BufferTime \div 5

Sync    == [type: {"sync"}, sender: Sender, number: Numbers]
SyncAck == [type: {"syncAck"}, number: Numbers]
SyncMsg == Sync \cup SyncAck

\* The age is the time since the TimeStamp; beyond the buffer time all are equal.
BufferedSync == [number: Numbers, age: 0 .. BufferTime]

ASSUME SyncNoneAssumption == None \notin BufferedSync

VARIABLES
    headers,     \* the root chain's contract: number of its current header
    synced,      \* the stake chain's contract: GetSyncedCheckpointId
    syncBuffer,  \* BufferCheckpointSyncKey + root chain
    mempool,     \* what the bridges sent and no block has taken yet
    syncPipe,    \* side transactions, by the blocks since their delivery
    notified     \* checkpoint-sync events that wait for the bridges

l1Vars == <<headers, synced>>
syncVars == <<headers, synced, syncBuffer, mempool, syncPipe, notified>>

SyncTypeOK ==
    /\ headers \in 0 .. MaxNumber
    /\ synced \in 0 .. MaxNumber
    /\ syncBuffer \in BufferedSync \cup {None}
    /\ mempool \subseteq SyncMsg
    /\ syncPipe \in [0 .. 2 -> SUBSET SyncMsg]
    /\ notified \subseteq Numbers

SyncInit ==
    /\ headers = 0
    /\ synced = 0
    /\ syncBuffer = None
    /\ mempool = {}
    /\ syncPipe = [k \in 0 .. 2 |-> {}]
    /\ notified = {}

-----------------------------------------------------------------------------
(* The bridges propose and acknowledge.                                    *)

OlderThan(t) == syncBuffer # None => syncBuffer.age >= t

\* Mutant: the next header is sent although the root chain has none.
SendCheckpointSync_NoHeader(v) ==
    /\ OlderThan(SyncTime)
    /\ mempool' = mempool \cup {[type |-> "sync", sender |-> v, number |-> synced + 1]}
    /\ UNCHANGED <<headers, synced, syncBuffer, syncPipe, notified>>

\* handleCheckpointSync: the header after the last synced one, if there is one.
SendCheckpointSync(v) ==
    /\ OlderThan(SyncTime)
    /\ synced + 1 <= headers
    /\ mempool' = mempool \cup {[type |-> "sync", sender |-> v, number |-> synced + 1]}
    /\ UNCHANGED <<headers, synced, syncBuffer, syncPipe, notified>>

\* sendCheckpointSyncAckToHeimdall: the bridge ignores the event when the buffer
\* is empty or old; its task may be handled any time after the event.
SendCheckpointSyncAck(n) ==
    /\ n <= synced
    /\ syncBuffer # None
    /\ syncBuffer.age <= SyncTime
    /\ mempool' = mempool \cup {[type |-> "syncAck", number |-> n]}
    /\ UNCHANGED <<headers, synced, syncBuffer, syncPipe, notified>>

-----------------------------------------------------------------------------
(* Handlers, on delivery; a block delivers after its side transactions     *)
(* were executed.                                                          *)

DeliverSync(m) ==
    /\ syncPipe[2] = {}
    /\ Cardinality(syncPipe[0]) < MaxTxs
    /\ m \in mempool
    /\ mempool' = mempool \ {m}
    /\ syncPipe' = [syncPipe EXCEPT ![0] = @ \cup {m}]

\* Mutant: a sync that timed out stays in the buffer.
HandleMsgCheckpointSync_NoFlush(m) ==
    /\ m.type = "sync"
    /\ DeliverSync(m)
    /\ OlderThan(SyncTime)
    /\ UNCHANGED <<l1Vars, syncBuffer, notified>>

\* A buffered sync that timed out is flushed, one that did not refuses the new
\* one.
HandleMsgCheckpointSync(m) ==
    /\ m.type = "sync"
    /\ DeliverSync(m)
    /\ OlderThan(SyncTime)
    /\ syncBuffer' = None
    /\ UNCHANGED <<l1Vars, notified>>

\* Here it times out after the whole buffer time only.
HandleMsgCheckpointSyncAck(m) ==
    /\ m.type = "syncAck"
    /\ DeliverSync(m)
    /\ syncBuffer' = IF OlderThan(BufferTime) THEN None ELSE syncBuffer
    /\ UNCHANGED <<l1Vars, notified>>

\* The transaction fails on delivery or is dropped from the mempool.
TxFails(m) ==
    /\ m \in mempool
    /\ mempool' = mempool \ {m}
    /\ UNCHANGED <<l1Vars, syncBuffer, syncPipe, notified>>

-----------------------------------------------------------------------------
(* Post handlers, two blocks later.  What a bridge read of the contracts   *)
(* stays true, so the side handlers can say Yes to all that is sent.       *)

ExecutedSync(m) == m \in syncPipe[2] /\ syncPipe' = [syncPipe EXCEPT ![2] = @ \ {m}]

\* Mutant: a sync in the buffer is overwritten by one that waited for its votes.
PostHandleMsgCheckpointSync_Overwrite(m) ==
    /\ m.type = "sync"
    /\ ExecutedSync(m)
    /\ syncBuffer' = [number |-> m.number, age |-> 0]
    /\ notified' = notified \cup {m.number}
    /\ UNCHANGED <<l1Vars, mempool>>

PostHandleMsgCheckpointSync(m) ==
    /\ m.type = "sync"
    /\ ExecutedSync(m)
    /\ syncBuffer = None
    /\ syncBuffer' = [number |-> m.number, age |-> 0]
    /\ notified' = notified \cup {m.number}
    /\ UNCHANGED <<l1Vars, mempool>>

\* Whatever is in the buffer is flushed.
PostHandleMsgCheckpointSyncAck(m) ==
    /\ m.type = "syncAck"
    /\ ExecutedSync(m)
    /\ syncBuffer' = None
    /\ UNCHANGED <<l1Vars, mempool, notified>>

\* No quorum of Yes, or the post handler returned an error.
SyncDropped(m) ==
    /\ ExecutedSync(m)
    /\ UNCHANGED <<l1Vars, syncBuffer, mempool, notified>>

-----------------------------------------------------------------------------
(* The environment.                                                        *)

Older(age, dt) == IF age + dt < BufferTime THEN age + dt ELSE BufferTime

NextSyncBlock(dt) ==
    /\ syncPipe[2] = {}
    /\ syncPipe' = [k \in 0 .. 2 |-> IF k = 0 THEN {} ELSE syncPipe[k - 1]]
    /\ syncBuffer' = IF syncBuffer = None THEN None
                     ELSE [syncBuffer EXCEPT !.age = Older(@, dt)]
    /\ UNCHANGED <<l1Vars, mempool, notified>>

\* External: the root chain's contract takes a checkpoint.
NewHeaderBlock ==
    /\ headers < MaxNumber
    /\ headers' = headers + 1
    /\ UNCHANGED <<synced, syncBuffer, mempool, syncPipe, notified>>

\* The proposer's bridge sends a number that follows the synced one; the stake
\* chain takes it.
SendCheckpointSyncToStakeChain(n) ==
    /\ n \in notified
    /\ n = synced + 1
    /\ synced' = n
    /\ notified' = notified \ {n}
    /\ UNCHANGED <<headers, syncBuffer, mempool, syncPipe>>

\* The number does not follow, the bridge is not the proposer's or crashes, or
\* its transaction fails.
NotSent(n) ==
    /\ n \in notified
    /\ notified' = notified \ {n}
    /\ UNCHANGED <<l1Vars, syncBuffer, mempool, syncPipe>>

-----------------------------------------------------------------------------

SyncNext ==
    \/ \E v \in Sender : SendCheckpointSync(v)
    \/ \E n \in Numbers : SendCheckpointSyncAck(n)
    \/ \E m \in mempool : HandleMsgCheckpointSync(m)
    \/ \E m \in mempool : HandleMsgCheckpointSyncAck(m)
    \/ \E m \in mempool : TxFails(m)
    \/ \E m \in syncPipe[2] : PostHandleMsgCheckpointSync(m)
    \/ \E m \in syncPipe[2] : PostHandleMsgCheckpointSyncAck(m)
    \/ \E m \in syncPipe[2] : SyncDropped(m)
    \/ \E dt \in TimeSteps : NextSyncBlock(dt)
    \/ NewHeaderBlock
    \/ \E n \in notified : SendCheckpointSyncToStakeChain(n)
    \/ \E n \in notified : NotSent(n)

SyncSpec == SyncInit /\ [][SyncNext]_syncVars

IsNext(m) == m.type = "sync" /\ m.number = synced + 1

\* Consensus produces blocks and time passes; the bridges poll every interval
\* (startPolling); a header that is sent again and again is delivered at last,
\* an honest quorum votes for it, and its notice is handled.  Acknowledgements
\* need no fairness.
SyncFairSpec ==
    /\ SyncSpec
    /\ WF_syncVars(\E m \in syncPipe[2] :
           \/ PostHandleMsgCheckpointSync(m)
           \/ PostHandleMsgCheckpointSyncAck(m)
           \/ SyncDropped(m))
    /\ SF_syncVars(\E dt \in TimeSteps : dt > 0 /\ NextSyncBlock(dt))
    /\ SF_syncVars(\E v \in Sender : SendCheckpointSync(v))
    /\ SF_syncVars(\E m \in mempool : IsNext(m) /\ HandleMsgCheckpointSync(m))
    /\ SF_syncVars(\E m \in syncPipe[2] : IsNext(m) /\ PostHandleMsgCheckpointSync(m))
    /\ SF_syncVars(SendCheckpointSyncToStakeChain(synced + 1))

-----------------------------------------------------------------------------
(* Properties.                                                             *)

\* A sync that the stake chain has not got yet is never replaced in place, and
\* leaves the buffer early only when an acknowledgement of a smaller number,
\* which waited two blocks for its votes, flushes what is in it by then.
BufferedSyncKept ==
    [][syncBuffer # None /\ syncBuffer' # syncBuffer /\ syncBuffer.number > synced =>
          \/ /\ syncBuffer' # None
             /\ syncBuffer'.number = syncBuffer.number
             /\ syncBuffer'.age >= syncBuffer.age
          \/ syncBuffer' = None /\ syncBuffer.age >= SyncTime
          \/ syncBuffer' = None /\ \E m \in syncPipe[2] :
                m.type = "syncAck" /\ m.number < syncBuffer.number]_syncVars

\* Every header of the root chain reaches the stake chain, although late
\* acknowledgements flush younger syncs, late syncs fill the buffer with a
\* number the stake chain has already, and notices and votes are lost.
EventuallyAllSynced == []<>(synced = headers)
===============================================================================
