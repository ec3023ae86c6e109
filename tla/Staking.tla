-------------------------------- MODULE Staking --------------------------------
(***************************************************************************)
(* The staking module (staking/): the events of the stake chain (join,     *)
(* signer update, exit) are applied to the validator store, and queued for *)
(* every other root chain, whose contract receives them one at a time      *)
(* (staking sync, staking sync ack).                                       *)
(*                                                                         *)
(* A handler runs when its transaction is delivered, its post handler two  *)
(* blocks later; pipe[k] holds the side transactions delivered k blocks    *)
(* ago and pipe[2] runs before anything is delivered (module SideChannel). *)
(*                                                                         *)
(* A message carries an event and the validators say Yes only to what the  *)
(* stake chain confirmed, so a message is the ID and the nonce of its      *)
(* event; the sequence (block number and log index) names the same event.  *)
(* Public keys, amounts, signing infos and the fee balance that moves with *)
(* a signer are left out.                                                  *)
(***************************************************************************)
EXTENDS Integers, FiniteSets, Sequences

CONSTANTS
    ValidatorID,        \* validator IDs of the stake chain
    Signer,             \* signer addresses
    GenesisSigner,      \* the genesis validators: a function to their signers
    SyncRoot,           \* the root chains other than RootChainTypeStake
    StakingBufferTime,  \* params.StakingBufferTime
    TimeSteps,          \* by how much the time may advance from block to block
    None,               \* nothing under a key of the store
    MaxNonce,           \* bound: events of a validator
    MaxEpoch,           \* bound: epochs and ack counts
    MaxTxs              \* bound: side transactions per block

Genesis == DOMAIN GenesisSigner

ASSUME GenesisAssumption ==
    /\ Genesis \subseteq ValidatorID
    /\ GenesisSigner \in [Genesis -> Signer]
    /\ \A i, j \in Genesis : GenesisSigner[i] = GenesisSigner[j] => i = j

ASSUME BoundAssumption ==
    /\ StakingBufferTime \in Nat \ {0} /\ TimeSteps \subseteq Nat
    /\ MaxNonce \in Nat \ {0} /\ MaxEpoch \in Nat \ {0} /\ MaxTxs \in Nat

Nonces == 1 .. MaxNonce
Epoch  == 0 .. MaxEpoch

\* What an event tells: the validator as the contract has it from then on.
Event == [type: {"validatorJoin", "signerUpdate", "validatorExit"},
          signer: Signer, startEpoch: Epoch, endEpoch: Epoch]

Validator == [id: ValidatorID, startEpoch: Epoch, endEpoch: Epoch,
              nonce: Nonces, votingPower: {0, 1}]

ASSUME NoneAssumption == None \notin Signer \cup Validator \cup Event

Sequence == [id: ValidatorID, nonce: Nonces]

\* The age of a record is the time since its TimeStamp; one that was never sent
\* is as good as one whose buffer time is over.
Age    == 0 .. StakingBufferTime
Record == [id: ValidatorID, nonce: Nonces, age: Age]

EventMsg == [type: {"event"}, id: ValidatorID, nonce: Nonces]
SyncMsg  == [type: {"sync", "syncAck"}, root: SyncRoot, id: ValidatorID,
             nonce: Nonces]
Msg      == EventMsg \cup SyncMsg

VARIABLES
    l1Nonce,     \* the stake chain's contract: number of events of an ID
    events,      \* the stake chain's contract: its events
    ackCount,    \* checkpoints acknowledged from the stake chain
    validators,  \* ValidatorsKey + signer -> validator
    signerOf,    \* ValidatorMapKey + ID -> signer
    sequences,   \* StakingSequenceKey + sequence
    queue,       \* stakingSendingQueueKey + root chain -> records
    pipe,        \* side transactions, by the blocks since their delivery
    notified,    \* a staking-sync event waits for the bridge
    synced       \* the other root chains' contracts: nonce of an ID

l1Vars == <<l1Nonce, events>>
heimdallVars == <<ackCount, validators, signerOf, sequences, queue>>
vars == <<l1Nonce, events, ackCount, validators, signerOf, sequences, queue,
          pipe, notified, synced>>

TypeOK ==
    /\ l1Nonce \in [ValidatorID -> 0 .. MaxNonce]
    /\ events \in [ValidatorID -> [Nonces -> Event \cup {None}]]
    /\ ackCount \in Epoch
    /\ validators \in [Signer -> Validator \cup {None}]
    /\ signerOf \in [ValidatorID -> Signer \cup {None}]
    /\ sequences \subseteq Sequence
    /\ queue \in [SyncRoot -> Seq(Record)]
    /\ pipe \in [0 .. 2 -> SUBSET Msg]
    /\ notified \in [SyncRoot -> BOOLEAN]
    /\ synced \in [SyncRoot -> [ValidatorID -> 0 .. MaxNonce]]

\* Genesis validators have joined everywhere (cmd/deliveryd/init.go: nonce 1).
JoinedAtGenesis == [id \in ValidatorID |-> IF id \in Genesis THEN 1 ELSE 0]

Init ==
    /\ l1Nonce = JoinedAtGenesis
    /\ events = [id \in ValidatorID |-> [n \in Nonces |->
                    IF id \in Genesis /\ n = 1
                    THEN [type |-> "validatorJoin", signer |-> GenesisSigner[id],
                          startEpoch |-> 0, endEpoch |-> 0]
                    ELSE None]]
    /\ ackCount = 0
    /\ validators = [s \in Signer |->
                        IF \E id \in Genesis : GenesisSigner[id] = s
                        THEN [id |-> CHOOSE id \in Genesis : GenesisSigner[id] = s,
                              startEpoch |-> 0, endEpoch |-> 0, nonce |-> 1,
                              votingPower |-> 1]
                        ELSE None]
    /\ signerOf = [id \in ValidatorID |->
                      IF id \in Genesis THEN GenesisSigner[id] ELSE None]
    /\ sequences = {}
    /\ queue = [r \in SyncRoot |-> <<>>]
    /\ pipe = [k \in 0 .. 2 |-> {}]
    /\ notified = [r \in SyncRoot |-> FALSE]
    /\ synced = [r \in SyncRoot |-> JoinedAtGenesis]

-----------------------------------------------------------------------------
(* The stake chain's contract (external): it numbers the events of an ID,  *)
(* and never takes a signer that was used before.                          *)

Unused(s) ==
    \A id \in ValidatorID : \A n \in 1 .. l1Nonce[id] : events[id][n].signer # s

Emit(id, e) ==
    /\ l1Nonce[id] < MaxNonce
    /\ l1Nonce' = [l1Nonce EXCEPT ![id] = @ + 1]
    /\ events' = [events EXCEPT ![id][l1Nonce[id] + 1] = e]
    /\ UNCHANGED <<heimdallVars, pipe, notified, synced>>

Staked(id, s, epoch) ==
    /\ l1Nonce[id] = 0
    /\ Unused(s)
    /\ Emit(id, [type |-> "validatorJoin", signer |-> s,
                 startEpoch |-> epoch, endEpoch |-> 0])

SignerChange(id, s) ==
    /\ l1Nonce[id] > 0
    /\ Unused(s)
    /\ Emit(id, [events[id][l1Nonce[id]] EXCEPT !.type = "signerUpdate",
                                               !.signer = s])

UnstakeInit(id, epoch) ==
    /\ l1Nonce[id] > 0
    /\ events[id][l1Nonce[id]].endEpoch = 0
    /\ epoch > 0
    /\ Emit(id, [events[id][l1Nonce[id]] EXCEPT !.type = "validatorExit",
                                               !.endEpoch = epoch])

-----------------------------------------------------------------------------
(* Delivery.                                                               *)

\* GetValidatorFromValID.
HasValidator(id) == signerOf[id] # None /\ validators[signerOf[id]] # None
ValidatorOf(id)  == validators[signerOf[id]]

EventOf(m)    == events[m.id][m.nonce]
SequenceOf(m) == [id |-> m.id, nonce |-> m.nonce]

Deliver(m) ==
    /\ m \notin pipe[0]
    /\ Cardinality(pipe[0]) < MaxTxs
    /\ pipe' = [pipe EXCEPT ![0] = @ \cup {m}]
    /\ UNCHANGED <<l1Vars, heimdallVars, notified, synced>>

\* A block delivers after its side transactions were executed.
Delivering(m, type) == pipe[2] = {} /\ m.type = "event" /\ EventOf(m).type = type

HandleMsgValidatorJoin(m) ==
    /\ Delivering(m, "validatorJoin")
    /\ signerOf[m.id] = None
    /\ validators[EventOf(m).signer] = None
    /\ SequenceOf(m) \notin sequences
    /\ Deliver(m)

\* Mutant: the nonce is not compared.
HandleMsgSignerUpdate_AnyNonce(m) ==
    /\ Delivering(m, "signerUpdate")
    /\ HasValidator(m.id)
    /\ SequenceOf(m) \notin sequences
    /\ EventOf(m).signer # signerOf[m.id]
    /\ Deliver(m)

HandleMsgSignerUpdate(m) ==
    /\ Delivering(m, "signerUpdate")
    /\ HasValidator(m.id)
    /\ SequenceOf(m) \notin sequences
    /\ EventOf(m).signer # signerOf[m.id]
    /\ m.nonce = ValidatorOf(m.id).nonce + 1
    /\ Deliver(m)

HandleMsgValidatorExit(m) ==
    /\ Delivering(m, "validatorExit")
    /\ HasValidator(m.id)
    /\ ValidatorOf(m.id).endEpoch = 0
    /\ SequenceOf(m) \notin sequences
    /\ m.nonce = ValidatorOf(m.id).nonce + 1
    /\ Deliver(m)

\* GetNextStakingRecordFromQueue is the record of the message.
IsNext(m) ==
    /\ queue[m.root] # <<>>
    /\ Head(queue[m.root]).id = m.id
    /\ Head(queue[m.root]).nonce = m.nonce

\* Sent in this very second does not count.
InBufferTime(record) == 0 < record.age /\ record.age < StakingBufferTime

\* With a nonce the contract has already, no validator will say Yes
\* (SideHandleMsgStakingSync): such a message changes nothing.
HandleMsgStakingSync(m) ==
    /\ pipe[2] = {} /\ m.type = "sync"
    /\ IsNext(m)
    /\ ~ InBufferTime(Head(queue[m.root]))
    /\ synced[m.root][m.id] < m.nonce
    /\ Deliver(m)

HandleMsgStakingSyncAck(m) ==
    /\ pipe[2] = {} /\ m.type = "syncAck"
    /\ IsNext(m)
    /\ Deliver(m)

-----------------------------------------------------------------------------
(* Execution.                                                              *)

Executed(m) == pipe' = [pipe EXCEPT ![2] = @ \ {m}]

\* AddStakingRecordToQueue for every other root chain.
Enqueued(m) ==
    [r \in SyncRoot |-> Append(queue[r], [id |-> m.id, nonce |-> m.nonce,
                                         age |-> StakingBufferTime])]

\* Mutant: a replayed event is not recognised.
Approved_Replayed(m, type) ==
    /\ m \in pipe[2]
    /\ m.type = "event"
    /\ EventOf(m).type = type
    /\ sequences' = sequences \cup {SequenceOf(m)}
    /\ queue' = Enqueued(m)
    /\ Executed(m)
    /\ UNCHANGED <<l1Vars, ackCount, notified, synced>>

\* What the three post handlers of events share: the sequence is new, is saved,
\* and the event is queued.
Approved(m, type) ==
    /\ m \in pipe[2]
    /\ m.type = "event"
    /\ EventOf(m).type = type
    /\ SequenceOf(m) \notin sequences
    /\ sequences' = sequences \cup {SequenceOf(m)}
    /\ queue' = Enqueued(m)
    /\ Executed(m)
    /\ UNCHANGED <<l1Vars, ackCount, notified, synced>>

PostHandleMsgValidatorJoin(m) ==
    LET e == EventOf(m) IN
    /\ Approved(m, "validatorJoin")
    /\ validators' = [validators EXCEPT ![e.signer] =
                         [id |-> m.id, startEpoch |-> e.startEpoch, endEpoch |-> 0,
                          nonce |-> m.nonce, votingPower |-> 1]]
    /\ signerOf' = [signerOf EXCEPT ![m.id] = e.signer]

\* Mutant: the old signer keeps its power.
PostHandleMsgSignerUpdate_KeepPower(m) ==
    LET e   == EventOf(m)
        old == signerOf[m.id] IN
    /\ Approved(m, "signerUpdate")
    /\ HasValidator(m.id)
    /\ e.signer # old
    /\ validators' = [validators EXCEPT
                         ![old] = [@ EXCEPT !.endEpoch = ackCount,
                                            !.nonce = m.nonce],
                         ![e.signer] = [ValidatorOf(m.id) EXCEPT !.nonce = m.nonce]]
    /\ signerOf' = [signerOf EXCEPT ![m.id] = e.signer]

\* The old signer's record stays, without power; the new one takes over all
\* the rest.
PostHandleMsgSignerUpdate(m) ==
    LET e   == EventOf(m)
        old == signerOf[m.id] IN
    /\ Approved(m, "signerUpdate")
    /\ HasValidator(m.id)
    /\ e.signer # old
    /\ validators' = [validators EXCEPT
                         ![old] = [@ EXCEPT !.endEpoch = ackCount,
                                            !.votingPower = 0, !.nonce = m.nonce],
                         ![e.signer] = [ValidatorOf(m.id) EXCEPT !.nonce = m.nonce]]
    /\ signerOf' = [signerOf EXCEPT ![m.id] = e.signer]

PostHandleMsgValidatorExit(m) ==
    /\ Approved(m, "validatorExit")
    /\ HasValidator(m.id)
    /\ validators' = [validators EXCEPT ![signerOf[m.id]] =
                         [@ EXCEPT !.endEpoch = EventOf(m).endEpoch,
                                   !.nonce = m.nonce]]
    /\ UNCHANGED signerOf

\* UpdateStakingRecordTimestamp, and the event that makes the bridge send.
PostHandleMsgStakingSync(m) ==
    /\ m \in pipe[2]
    /\ m.type = "sync"
    /\ IsNext(m)
    /\ ~ InBufferTime(Head(queue[m.root]))
    /\ queue' = [queue EXCEPT ![m.root][1].age = 0]
    /\ notified' = [notified EXCEPT ![m.root] = TRUE]
    /\ Executed(m)
    /\ UNCHANGED <<l1Vars, ackCount, validators, signerOf, sequences, synced>>

\* Mutant: the nonce the contract has is not taken for arrived.
PostHandleMsgStakingSyncAck_OffByOne(m) ==
    /\ m \in pipe[2]
    /\ m.type = "syncAck"
    /\ synced[m.root][m.id] > m.nonce
    /\ IsNext(m)
    /\ queue' = [queue EXCEPT ![m.root] = Tail(@)]
    /\ Executed(m)
    /\ UNCHANGED <<l1Vars, ackCount, validators, signerOf, sequences, notified, synced>>

\* removeStakingRecordFromQueue.  The contract's nonce only grows, so what the
\* validators saw still holds when the post handler runs.
PostHandleMsgStakingSyncAck(m) ==
    /\ m \in pipe[2]
    /\ m.type = "syncAck"
    /\ synced[m.root][m.id] >= m.nonce
    /\ IsNext(m)
    /\ queue' = [queue EXCEPT ![m.root] = Tail(@)]
    /\ Executed(m)
    /\ UNCHANGED <<l1Vars, ackCount, validators, signerOf, sequences, notified, synced>>

\* No quorum of Yes, or the post handler returned an error: runTx drops its
\* writes.
SideTxDropped(m) ==
    /\ m \in pipe[2]
    /\ Executed(m)
    /\ UNCHANGED <<l1Vars, heimdallVars, notified, synced>>

-----------------------------------------------------------------------------
(* The environment.                                                        *)

\* The records that were sent get older.
Older(age, dt) ==
    IF age + dt < StakingBufferTime THEN age + dt ELSE StakingBufferTime
Aged(q, dt) == [i \in DOMAIN q |-> [q[i] EXCEPT !.age = Older(@, dt)]]

NextBlock(dt) ==
    /\ pipe[2] = {}
    /\ pipe' = [k \in 0 .. 2 |-> IF k = 0 THEN {} ELSE pipe[k - 1]]
    /\ queue' = [r \in SyncRoot |-> Aged(queue[r], dt)]
    /\ UNCHANGED <<l1Vars, ackCount, validators, signerOf, sequences, notified, synced>>

\* A checkpoint to the stake chain is acknowledged.
UpdateACKCount ==
    /\ ackCount < MaxEpoch
    /\ ackCount' = ackCount + 1
    /\ UNCHANGED <<l1Vars, validators, signerOf, sequences, queue, pipe, notified, synced>>

\* The bridge of the proposer sends the record that is first by then, unless
\* the contract has its nonce already.  External: the contract takes a nonce
\* above the one it has.
SendStakingSync(r) ==
    /\ notified[r]
    /\ queue[r] # <<>>
    /\ synced[r][Head(queue[r]).id] < Head(queue[r]).nonce
    /\ synced' = [synced EXCEPT ![r][Head(queue[r]).id] = Head(queue[r]).nonce]
    /\ notified' = [notified EXCEPT ![r] = FALSE]
    /\ UNCHANGED <<l1Vars, heimdallVars, pipe>>

\* The bridge does not send: it is not the proposer's, has crashed, finds
\* nothing to send, or its transaction fails.
NotSent(r) ==
    /\ notified[r]
    /\ notified' = [notified EXCEPT ![r] = FALSE]
    /\ UNCHANGED <<l1Vars, heimdallVars, pipe, synced>>

-----------------------------------------------------------------------------

\* What the bridges send: the events of the stake chain, and what is first in a
\* queue.
EventMsgs ==
    UNION {[type : {"event"}, id : {id}, nonce : 1 .. l1Nonce[id]] :
              id \in ValidatorID}

Next ==
    \/ \E id \in ValidatorID, s \in Signer, e \in Epoch : Staked(id, s, e)
    \/ \E id \in ValidatorID, s \in Signer : SignerChange(id, s)
    \/ \E id \in ValidatorID, e \in Epoch : UnstakeInit(id, e)
    \/ \E m \in EventMsgs : HandleMsgValidatorJoin(m)
    \/ \E m \in EventMsgs : HandleMsgSignerUpdate(m)
    \/ \E m \in EventMsgs : HandleMsgValidatorExit(m)
    \/ \E m \in SyncMsg : HandleMsgStakingSync(m)
    \/ \E m \in SyncMsg : HandleMsgStakingSyncAck(m)
    \/ \E m \in pipe[2] : PostHandleMsgValidatorJoin(m)
    \/ \E m \in pipe[2] : PostHandleMsgSignerUpdate(m)
    \/ \E m \in pipe[2] : PostHandleMsgValidatorExit(m)
    \/ \E m \in pipe[2] : PostHandleMsgStakingSync(m)
    \/ \E m \in pipe[2] : PostHandleMsgStakingSyncAck(m)
    \/ \E m \in pipe[2] : SideTxDropped(m)
    \/ \E dt \in TimeSteps : NextBlock(dt)
    \/ UpdateACKCount
    \/ \E r \in SyncRoot : SendStakingSync(r)
    \/ \E r \in SyncRoot : NotSent(r)

Spec == Init /\ [][Next]_vars

\* What the fairness assumptions are about.
Executes(m) ==
    \/ PostHandleMsgValidatorJoin(m)
    \/ PostHandleMsgSignerUpdate(m)
    \/ PostHandleMsgValidatorExit(m)
    \/ PostHandleMsgStakingSync(m)
    \/ PostHandleMsgStakingSyncAck(m)

\* Consensus executes what is due and produces later blocks; the proposer's
\* bridge polls the queues and sends what is first in them again and again
\* (checkStakingSyncAck), and an honest quorum votes for what is sent for ever.
\* Nothing is assumed of the events: a bridge sends one once, and an event that
\* is refused or outvoted then is lost.
FairSpec ==
    /\ Spec
    /\ WF_vars(\E m \in pipe[2] : Executes(m) \/ SideTxDropped(m))
    /\ SF_vars(\E dt \in TimeSteps : dt > 0 /\ NextBlock(dt))
    /\ \A r \in SyncRoot :
        /\ SF_vars(\E m \in SyncMsg : m.root = r /\ HandleMsgStakingSync(m))
        /\ SF_vars(\E m \in pipe[2] : m.type = "sync" /\ m.root = r /\ Executes(m))
        /\ SF_vars(SendStakingSync(r))
        /\ SF_vars(\E m \in SyncMsg : m.root = r /\ synced[r][m.id] = m.nonce
                                       /\ HandleMsgStakingSyncAck(m))
        /\ SF_vars(\E m \in pipe[2] : m.type = "syncAck" /\ m.root = r /\ Executes(m))

-----------------------------------------------------------------------------
(* Properties.                                                             *)

\* The nonce of the last event applied, 0 before the validator joined.
Nonce(id) == IF HasValidator(id) THEN ValidatorOf(id).nonce ELSE 0

\* The validator store shows what the stake chain's contract had after the
\* event of the stored nonce, and exactly the events up to it are marked as
\* seen: although the post handlers check neither the nonce nor the ID again,
\* no event is skipped, repeated or applied out of order.
StoreMirrorsStakeChain ==
    \A id \in ValidatorID :
        /\ Nonce(id) <= l1Nonce[id]
        /\ Nonce(id) > 0 =>
              LET e == events[id][Nonce(id)] IN
              /\ signerOf[id] = e.signer
              /\ ValidatorOf(id).id = id
              /\ ValidatorOf(id).startEpoch = e.startEpoch
              /\ ValidatorOf(id).endEpoch = e.endEpoch
        /\ \A n \in Nonces :
              [id |-> id, nonce |-> n] \in sequences <=>
                  n <= Nonce(id) /\ (n = 1 => id \notin Genesis)

\* Of all the signers a validator had, only the present one has power.
OneSignerWithPower ==
    \A s \in Signer :
        validators[s] # None =>
            (validators[s].votingPower > 0 <=> signerOf[validators[s].id] = s)

Waiting(r, id) == {i \in DOMAIN queue[r] : queue[r][i].id = id}

\* What another root chain's contract has not got waits in its queue; the
\* records of a validator are in the order of their nonces, and only the first
\* of the queue may already have arrived.
QueueHoldsUnsynced ==
    \A r \in SyncRoot, id \in ValidatorID :
        /\ \A n \in synced[r][id] + 1 .. Nonce(id) :
              \E i \in Waiting(r, id) : queue[r][i].nonce = n
        /\ \A i, j \in Waiting(r, id) :
              i < j => queue[r][i].nonce < queue[r][j].nonce
        /\ \A i \in Waiting(r, id) :
              /\ queue[r][i].nonce <= Nonce(id)
              /\ queue[r][i].nonce > synced[r][id]
                    \/ (i = 1 /\ queue[r][i].nonce = synced[r][id])

Replication == INSTANCE NonceReplication
                   WITH emitted <- l1Nonce,
                        applied <- [id \in ValidatorID |-> Nonce(id)]

\* Every event of the stake chain reaches the validator store, and from there
\* every other root chain, once and in order.
ImplementsReplication == Replication!Spec

\* Once no more events are applied (a validator has at most MaxNonce of them),
\* all that were have reached every other root chain and have left its queue,
\* although syncs, acknowledgements and notices are lost and every record waits
\* behind those of all validators before it.
EventuallySynced ==
    []<>\A r \in SyncRoot, id \in ValidatorID :
        synced[r][id] = Nonce(id) /\ Waiting(r, id) = {}
===============================================================================
