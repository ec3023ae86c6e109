------------------------------ MODULE Checkpoint ------------------------------
(***************************************************************************)
(* The checkpoint module (checkpoint/): proposal, buffer, acknowledgement, *)
(* no-ack and proposer rotation, for every root chain, together with the   *)
(* root chain contracts they are acknowledged from.                        *)
(*                                                                         *)
(* A handler runs when its transaction is delivered, its post handler two  *)
(* blocks later; pipe[k] holds the side transactions delivered k blocks    *)
(* ago and pipe[2] runs before anything is delivered (module SideChannel). *)
(* A post handler that fails, or a side transaction without a quorum of    *)
(* Yes, leaves the state as it was.                                        *)
(*                                                                         *)
(* Root hashes are left out: validators say Yes only to the child chain's  *)
(* own root, which the range determines.  The epoch and the account root   *)
(* are compared with the current ones on delivery and never stored; a      *)
(* message they refuse is one that is not delivered.                       *)
(***************************************************************************)
EXTENDS CheckpointParams, FiniteSets

CONSTANTS
    RootChain,     \* RootChainTypeEth, -Tron, -Bsc
    Stake,         \* RootChainTypeStake, the chain that drives the rotation
    Activation,    \* GetChainActivationHeight
    Proposer,      \* validators, any of which the rotation may select
    Lengths,       \* lengths a proposer chooses (at most MaxCheckpointLength)
    MaxBlock,      \* bound: child blocks
    MaxTime        \* bound: time

ASSUME ChainAssumption ==
    /\ Stake \in RootChain
    /\ Activation \in [RootChain -> Nat]

\* ValidateBasic refuses a message with StartBlock >= EndBlock.
ASSUME LengthAssumption == Lengths \subseteq {n \in Nat : n > 1}

ASSUME BoundAssumption ==
    /\ MaxBlock \in Nat
    /\ MaxTime \in Nat /\ MaxTime >= BufferTime

Block == 0 .. MaxBlock
Time  == 0 .. MaxTime

Header     == [start: Block, end: Block, proposer: Proposer]
Checkpoints == [start: Block, end: Block, proposer: Proposer, timeStamp: Time]

ASSUME NoneAssumption == None \notin Checkpoints /\ None \notin Header

CheckpointMsg ==
    [type: {"checkpoint"}, root: RootChain, start: Block, end: Block,
     proposer: Proposer]
AckMsg ==
    [type: {"ack"}, root: RootChain, number: Numbers, start: Block, end: Block,
     proposer: Proposer]
Msg == CheckpointMsg \cup AckMsg

VARIABLES
    time,         \* ctx.BlockTime()
    proposer,     \* validatorSet.Proposer
    ackCount,     \* ACKCountKey + root chain
    checkpoints,  \* the store: root chain and number -> checkpoint
    buffer,       \* BufferCheckpointKey + root chain
    lastNoAck,    \* LastNoACKKey
    pipe,         \* side transactions, by the blocks since their delivery
    approved,     \* the headers ever written to the buffer: they are signed
    l1Count,      \* the root chain contract: number of the current header
    l1            \* the root chain contract: its headers

heimdallVars == <<time, proposer, ackCount, checkpoints, buffer, lastNoAck>>
vars == <<time, proposer, ackCount, checkpoints, buffer, lastNoAck, pipe,
          approved, l1Count, l1>>

TypeOK ==
    /\ time \in Time
    /\ proposer \in Proposer
    /\ ackCount \in [RootChain -> 0 .. MaxNumber]
    /\ checkpoints \in [RootChain -> [Numbers -> Checkpoints \cup {None}]]
    /\ buffer \in [RootChain -> Checkpoints \cup {None}]
    /\ lastNoAck \in Time
    /\ pipe \in [0 .. 2 -> SUBSET Msg]
    /\ approved \in [RootChain -> SUBSET Header]
    /\ l1Count \in [RootChain -> 0 .. MaxNumber]
    /\ l1 \in [RootChain -> [Numbers -> Header \cup {None}]]

\* The chain starts long after the epoch the absent time stamps denote.
Init ==
    /\ time = BufferTime
    /\ proposer \in Proposer
    /\ ackCount = [r \in RootChain |-> 0]
    /\ checkpoints = [r \in RootChain |-> [n \in Numbers |-> None]]
    /\ buffer = [r \in RootChain |-> None]
    /\ lastNoAck = 0
    /\ pipe = [k \in 0 .. 2 |-> {}]
    /\ approved = [r \in RootChain |-> {}]
    /\ l1Count = [r \in RootChain |-> 0]
    /\ l1 = [r \in RootChain |-> [n \in Numbers |-> None]]

-----------------------------------------------------------------------------
(* Reading the store.                                                      *)

\* GetLastCheckpoint: the one numbered by the ack count, if there is one.
HasLastCheckpoint(r) ==
    ackCount[r] \in Numbers /\ checkpoints[r][ackCount[r]] # None
LastCheckpoint(r) == checkpoints[r][ackCount[r]]

\* The block the next checkpoint must start at.
NextStart(r) ==
    IF HasLastCheckpoint(r) THEN LastCheckpoint(r).end + 1 ELSE Activation[r]

\* Mutant: only older checkpoints are refused.
Continues_NotOld(m) == m.start >= NextStart(m.root)

\* "Validate last checkpoint", on delivery and again two blocks later.
Continues(m) == m.start = NextStart(m.root)

Expired(ts) == ts = 0 \/ (time > ts /\ time - ts >= BufferTime)

BufferFree(r) == buffer[r] # None => Expired(buffer[r].timeStamp)

\* Transactions are delivered after the side block of their block.
Delivering == pipe[2] = {} /\ Cardinality(pipe[0]) < MaxTxs

Deliver(m) == pipe' = [pipe EXCEPT ![0] = @ \cup {m}]

-----------------------------------------------------------------------------
(* Handlers, on delivery.                                                  *)

\* handleMsgCheckpoint: a buffered checkpoint that timed out is flushed, one
\* that did not refuses the new proposal.
HandleMsgCheckpoint(m) ==
    /\ Delivering
    /\ m \in CheckpointMsg
    /\ BufferFree(m.root)
    /\ Continues(m)
    /\ m.proposer = proposer
    /\ buffer' = [buffer EXCEPT ![m.root] = None]
    /\ Deliver(m)
    /\ UNCHANGED <<time, proposer, ackCount, checkpoints, lastNoAck, approved,
                   l1Count, l1>>

\* Mutant: a checkpoint that timed out is not acknowledged any more.
HandleMsgCheckpointAck_InTime(m) ==
    /\ Delivering
    /\ m \in AckMsg
    /\ buffer[m.root] # None =>
          m.start = buffer[m.root].start /\ ~Expired(buffer[m.root].timeStamp)
    /\ Deliver(m)
    /\ UNCHANGED <<heimdallVars, approved, l1Count, l1>>

\* handleMsgCheckpointAck: compared with the buffer if there is one.
HandleMsgCheckpointAck(m) ==
    /\ Delivering
    /\ m \in AckMsg
    /\ buffer[m.root] # None => m.start = buffer[m.root].start
    /\ Deliver(m)
    /\ UNCHANGED <<heimdallVars, approved, l1Count, l1>>

\* Seconds since a time stamp, never negative in the code's comparisons.
LongAgo(ts) == ts <= time /\ time - ts >= BufferTime

LastCheckpointTime ==
    IF HasLastCheckpoint(Stake) THEN LastCheckpoint(Stake).timeStamp ELSE 0

\* handleMsgCheckpointNoAck: no side transaction; IncrementAccum selects some
\* validator.
HandleMsgCheckpointNoAck ==
    /\ pipe[2] = {}
    /\ LongAgo(LastCheckpointTime)
    /\ LongAgo(lastNoAck)
    /\ lastNoAck' = time
    /\ proposer' \in Proposer
    /\ UNCHANGED <<time, ackCount, checkpoints, buffer, pipe, approved, l1Count, l1>>

-----------------------------------------------------------------------------
(* Side handlers and post handlers, two blocks later.                      *)

\* Mutant: the header's end is not compared.
OnRootChain_StartOnly(m) ==
    m.number <= l1Count[m.root] /\ l1[m.root][m.number].start = m.start

\* SideHandleMsgCheckpointAck and its Tron twin: the contract's header with
\* that number is the one acknowledged.  The contract's headers only grow, so
\* what the validators saw still holds when the post handler runs.
OnRootChain(m) ==
    /\ m.number <= l1Count[m.root]
    /\ l1[m.root][m.number] =
          [start |-> m.start, end |-> m.end, proposer |-> m.proposer]

Executed(m) == pipe' = [pipe EXCEPT ![2] = @ \ {m}]

\* Mutant: the tip is not validated again.
PostHandleMsgCheckpoint_StaleTip(m) ==
    /\ m \in pipe[2]
    /\ m.type = "checkpoint"
    /\ buffer[m.root] = None
    /\ buffer' = [buffer EXCEPT ![m.root] =
                      [start |-> m.start, end |-> m.end, proposer |-> m.proposer,
                       timeStamp |-> time]]
    /\ approved' = [approved EXCEPT ![m.root] =
                      @ \cup {[start |-> m.start, end |-> m.end,
                               proposer |-> m.proposer]}]
    /\ Executed(m)
    /\ UNCHANGED <<time, proposer, ackCount, checkpoints, lastNoAck, l1Count, l1>>

\* Mutant: a checkpoint that waits in the buffer is overwritten.
PostHandleMsgCheckpoint_Overwrite(m) ==
    /\ m \in pipe[2]
    /\ m.type = "checkpoint"
    /\ Continues(m)
    /\ buffer' = [buffer EXCEPT ![m.root] =
                      [start |-> m.start, end |-> m.end, proposer |-> m.proposer,
                       timeStamp |-> time]]
    /\ approved' = [approved EXCEPT ![m.root] =
                      @ \cup {[start |-> m.start, end |-> m.end,
                               proposer |-> m.proposer]}]
    /\ Executed(m)
    /\ UNCHANGED <<time, proposer, ackCount, checkpoints, lastNoAck, l1Count, l1>>

\* PostHandleMsgCheckpoint of an approved proposal.
PostHandleMsgCheckpoint(m) ==
    /\ m \in pipe[2]
    /\ m.type = "checkpoint"
    /\ Continues(m)
    /\ buffer[m.root] = None
    /\ buffer' = [buffer EXCEPT ![m.root] =
                      [start |-> m.start, end |-> m.end, proposer |-> m.proposer,
                       timeStamp |-> time]]
    /\ approved' = [approved EXCEPT ![m.root] =
                      @ \cup {[start |-> m.start, end |-> m.end,
                               proposer |-> m.proposer]}]
    /\ Executed(m)
    /\ UNCHANGED <<time, proposer, ackCount, checkpoints, lastNoAck, l1Count, l1>>

\* The buffered checkpoint takes the end and the proposer of the root chain if
\* it was longer.
Adjusted(b, m) ==
    IF b.end > m.end THEN [b EXCEPT !.end = m.end, !.proposer = m.proposer] ELSE b

\* Mutant: the start is compared on delivery only.
PostHandleMsgCheckpointAck_AnyStart(m) ==
    /\ m \in pipe[2]
    /\ m.type = "ack"
    /\ OnRootChain(m)
    /\ buffer[m.root] # None
    /\ ackCount[m.root] < MaxNumber
    /\ checkpoints' = [checkpoints EXCEPT ![m.root][m.number] =
                          Adjusted(buffer[m.root], m)]
    /\ ackCount' = [ackCount EXCEPT ![m.root] = @ + 1]
    /\ buffer' = [buffer EXCEPT ![m.root] = None]
    /\ IF m.root = Stake THEN proposer' \in Proposer ELSE UNCHANGED proposer
    /\ Executed(m)
    /\ UNCHANGED <<time, lastNoAck, approved, l1Count, l1>>

\* PostHandleMsgCheckpointAck of an approved acknowledgement.
PostHandleMsgCheckpointAck(m) ==
    /\ m \in pipe[2]
    /\ m.type = "ack"
    /\ OnRootChain(m)
    /\ buffer[m.root] # None
    /\ m.start = buffer[m.root].start
    /\ ackCount[m.root] < MaxNumber
    /\ checkpoints' = [checkpoints EXCEPT ![m.root][m.number] =
                          Adjusted(buffer[m.root], m)]
    /\ ackCount' = [ackCount EXCEPT ![m.root] = @ + 1]
    /\ buffer' = [buffer EXCEPT ![m.root] = None]
    /\ IF m.root = Stake THEN proposer' \in Proposer ELSE UNCHANGED proposer
    /\ Executed(m)
    /\ UNCHANGED <<time, lastNoAck, approved, l1Count, l1>>

\* The validators' votes did not reach a quorum of Yes, or the post handler
\* returned an error: runTx drops its writes.
SideTxDropped(m) ==
    /\ m \in pipe[2]
    /\ Executed(m)
    /\ UNCHANGED <<heimdallVars, approved, l1Count, l1>>

-----------------------------------------------------------------------------
(* The environment.                                                        *)

\* The next block.  The application's EndBlocker rotates the proposer when the
\* validator set changes.
NextBlock(dt) ==
    /\ pipe[2] = {}
    /\ time + dt <= MaxTime
    /\ time' = time + dt
    /\ proposer' \in Proposer
    /\ pipe' = [k \in 0 .. 2 |-> IF k = 0 THEN {} ELSE pipe[k - 1]]
    /\ UNCHANGED <<ackCount, checkpoints, buffer, lastNoAck, approved, l1Count, l1>>

\* External: the root chain contract takes a signed checkpoint that continues
\* its last one, however long ago it was signed.
RootChainNext(r) ==
    IF l1Count[r] = 0 THEN Activation[r] ELSE l1[r][l1Count[r]].end + 1

SubmitHeaderBlock(r, h) ==
    /\ l1Count[r] < MaxNumber
    /\ h \in approved[r]
    /\ h.start = RootChainNext(r)
    /\ l1Count' = [l1Count EXCEPT ![r] = @ + 1]
    /\ l1' = [l1 EXCEPT ![r][l1Count[r] + 1] = h]
    /\ UNCHANGED <<heimdallVars, pipe, approved>>

-----------------------------------------------------------------------------

\* What is sent: proposals of a chosen length, and acknowledgements of signed
\* headers under any number.
Proposals == {m \in CheckpointMsg : m.end - m.start + 1 \in Lengths}

Acks ==
    UNION {{[type |-> "ack", root |-> r, number |-> n, start |-> h.start,
             end |-> h.end, proposer |-> h.proposer] :
               n \in Numbers, h \in approved[r]} : r \in RootChain}

Next ==
    \/ \E m \in Proposals : HandleMsgCheckpoint(m)
    \/ \E m \in Acks : HandleMsgCheckpointAck(m)
    \/ HandleMsgCheckpointNoAck
    \/ \E m \in pipe[2] : PostHandleMsgCheckpoint(m)
    \/ \E m \in pipe[2] : PostHandleMsgCheckpointAck(m)
    \/ \E m \in pipe[2] : SideTxDropped(m)
    \/ \E dt \in TimeSteps : NextBlock(dt)
    \/ \E r \in RootChain : \E h \in approved[r] : SubmitHeaderBlock(r, h)

Spec == Init /\ [][Next]_vars

\* The block goes on: one of its side transactions is executed, or it ends.
BlockStep ==
    \/ \E m \in pipe[2] : PostHandleMsgCheckpoint(m) \/ PostHandleMsgCheckpointAck(m)
                             \/ SideTxDropped(m)
    \/ NextBlock(0)

\* createAndSendCheckpointToHeimdall: the proposal of the bridge starts after
\* the root chain's last header, wherever the store is.
BridgeProposes(r) ==
    \E m \in Proposals :
        m.root = r /\ m.start = RootChainNext(r) /\ HandleMsgCheckpoint(m)

\* When the store lags behind that header the bridge only acknowledges the
\* header again (resubmitCheckpointAck), unless nothing is stored yet.
BridgeResubmitsAck(r) ==
    /\ BufferFree(r)
    /\ HasLastCheckpoint(r)
    /\ LastCheckpoint(r).end + 1 < RootChainNext(r)
    /\ \E m \in Acks : /\ m.root = r
                       /\ m.number = l1Count[r]
                       /\ OnRootChain(m)
                       /\ HandleMsgCheckpointAck(m)

\* Consensus produces blocks; on every new child block the bridge of the
\* proposer looks at a root chain whose buffer is free or timed out, again and
\* again; an honest quorum votes for an acknowledgement that is resubmitted for
\* ever.  Nothing is assumed of one proposal or of one acknowledgement.
FairSpec ==
    /\ Spec
    /\ WF_vars(BlockStep)
    /\ \A r \in RootChain :
        /\ SF_vars(BridgeProposes(r))
        /\ SF_vars(BridgeResubmitsAck(r))
        /\ SF_vars(\E m \in pipe[2] : m.root = r /\ PostHandleMsgCheckpointAck(m))

-----------------------------------------------------------------------------
(* Properties.                                                             *)

\* The store holds exactly the checkpoints 1 .. ackCount, the first starts at
\* the activation height and each one where its predecessor ended: although
\* AddCheckpoint takes its number from the message and the ack count counts on
\* its own, no acknowledgement leaves a hole or overwrites a checkpoint.
StoreGapless ==
    \A r \in RootChain, n \in Numbers :
        /\ checkpoints[r][n] # None <=> n <= ackCount[r]
        /\ n <= ackCount[r] =>
              checkpoints[r][n].start =
                  IF n = 1 THEN Activation[r] ELSE checkpoints[r][n - 1].end + 1

\* Every stored checkpoint stands for the root chain's header of its number,
\* and never claims more blocks than that header; all but the last are equal.
AckedOnRootChain ==
    \A r \in RootChain, n \in Numbers :
        n <= ackCount[r] =>
            /\ n <= l1Count[r]
            /\ checkpoints[r][n].start = l1[r][n].start
            /\ checkpoints[r][n].end <= l1[r][n].end
            /\ n < ackCount[r] => checkpoints[r][n].end = l1[r][n].end

\* Old signed checkpoints that reach the root chain late never take it more
\* than one header ahead of the acknowledged ones.
RootChainAtMostOneAhead ==
    \A r \in RootChain : ackCount[r] <= l1Count[r] /\ l1Count[r] <= ackCount[r] + 1

\* The buffered checkpoint continues the last acknowledged one, whatever was
\* proposed, acknowledged or flushed in the blocks its votes took.
BufferExtendsTip ==
    \A r \in RootChain : buffer[r] # None => buffer[r].start = NextStart(r)

\* A buffered checkpoint is given up only when it is acknowledged or has timed
\* out, and never replaced in place.
BufferKept ==
    [][\A r \in RootChain :
          buffer[r] # None /\ buffer'[r] # buffer[r] =>
              /\ buffer'[r] = None
              /\ Expired(buffer[r].timeStamp) \/ ackCount'[r] = ackCount[r] + 1]_vars

\* The range a stored checkpoint covers, if it is there.
BlockRange(c) == IF c = None THEN None ELSE [start |-> c.start, end |-> c.end]

\* What the store says was finalised, in order.
History ==
    [r \in RootChain |->
        [n \in 1 .. ackCount[r] |->
            BlockRange(checkpoints[r][n])]]

Ledger == INSTANCE CheckpointLedger WITH ledger <- History

\* The checkpoint store implements the append-only ledger: proposals, buffers,
\* expiries and the order of acknowledgements never show in it.
ImplementsLedger == Ledger!Spec

\* The store took a shorter checkpoint than the root chain (see
\* AckAdjustedToRootChain): no later proposal continues both.
Diverged(r) ==
    \E n \in Numbers : n <= ackCount[r] /\ checkpoints[r][n].end # l1[r][n].end

\* The first header waits for its acknowledgement, which is not resubmitted.
FirstAckMissing(r) == ackCount[r] = 0 /\ l1Count[r] > 0

\* A checkpoint that timed out does not stay in the buffer for good, which would
\* stop its root chain: if the root chain took it, however late, it is
\* acknowledged, although no bridge proposes its range any more; if not, the
\* next proposal replaces it.  Left out are a store that has diverged and the
\* first header.
ExpiredBufferLeaves ==
    \A r \in RootChain :
        []<>(\/ buffer[r] = None \/ ~Expired(buffer[r].timeStamp)
             \/ Diverged(r) \/ FirstAckMissing(r))

\* "adjust checkpoint data if latest checkpoint is already submitted"
\* (checkpoint/side_handler.go): the checkpoint stored on acknowledgement is the
\* one submitted to the root chain.
AckAdjustedToRootChain ==
    \A r \in RootChain, n \in Numbers :
        n <= ackCount[r] => checkpoints[r][n].end = l1[r][n].end
=============================================================================
