--------------------------------- MODULE Clerk ---------------------------------
(***************************************************************************)
(* The clerk module (clerk/): state-sync events of several root chains are *)
(* recorded in the order they are approved, under local IDs that the child *)
(* chain counts through.  The child chain asks for the records from an ID  *)
(* on that are older than a time; every one of its nodes asks a different  *)
(* heimdall node at a different moment and must get the same answer.       *)
(*                                                                         *)
(* A handler runs when its transaction is delivered, its post handler two  *)
(* blocks later; pipe[k] holds the side transactions delivered k blocks    *)
(* ago and pipe[2] runs before anything is delivered (module SideChannel). *)
(* A query reads committed state: its steps happen between blocks.         *)
(*                                                                         *)
(* A message carries an event and the validators say Yes only to what its  *)
(* root chain confirmed, so a message is the root chain and ID of its      *)
(* event; the sequence (block number, log index and chain) names the same  *)
(* event.  Contract, data and transaction hash are left out.               *)
(***************************************************************************)
EXTENDS Integers, FiniteSets, Sequences

CONSTANTS
    RootChain,   \* the root chains with a StateSender
    Limit,       \* the most records of an answer (50)
    Second,      \* a second, in the units of block times
    TimeSteps,   \* by how much the time advances from block to block
    None,        \* nothing under a key of the store
    MaxID,       \* bound: events of a root chain
    MaxRecords,  \* bound: records
    MaxTime,     \* bound: the clock stops there
    MaxTxs       \* bound: side transactions per block

Event == [root: RootChain, id: 1 .. MaxID]

ASSUME BoundAssumption ==
    /\ Limit \in Nat \ {0} /\ Second \in Nat \ {0} /\ MaxID \in Nat
    /\ MaxRecords \in Nat /\ MaxTime \in Nat /\ MaxTxs \in Nat

\* Tendermint's block time never goes back.
ASSUME TimeAssumption == TimeSteps \subseteq Nat

Time    == 0 .. MaxTime
LocalID == 1 .. MaxRecords
Record  == [event: Event, time: Time]

ASSUME NoneAssumption == None \notin Record \cup LocalID

\* to-time is given in seconds.
ToTime == {t \in Time : t % Second = 0}

\* tillTimeRangeQuery, between two of its requests to the node.
Query == [step: {"range", "list", "answered", "notFound"},
          from: LocalID, to: Time, page: SUBSET LocalID, next: 1 .. MaxRecords + 1]

VARIABLES
    emitted,    \* the StateSender contracts: number of events
    time,       \* ctx.BlockTime()
    inBlock,    \* a block is executed
    records,    \* StateRecordPrefixKey + local ID -> record
    latestID,   \* LatestMsgIDPrefixKey
    localID,    \* RootIdToHeimdallIDPrefixKey + root chain and ID -> local ID
    sequences,  \* RecordSequencePrefixKey + sequence
    pipe,       \* side transactions, by the blocks since their delivery
    query       \* one query of a child chain node

storeVars == <<records, latestID, localID, sequences>>
vars == <<emitted, time, inBlock, records, latestID, localID, sequences, pipe, query>>

TypeOK ==
    /\ emitted \in [RootChain -> 0 .. MaxID]
    /\ time \in Time
    /\ inBlock \in BOOLEAN
    /\ records \in [LocalID -> Record \cup {None}]
    /\ latestID \in 0 .. MaxRecords
    /\ localID \in [Event -> LocalID \cup {None}]
    /\ sequences \subseteq Event
    /\ pipe \in [0 .. 2 -> SUBSET Event]
    /\ query \in Query \cup {None}

Init ==
    /\ emitted = [r \in RootChain |-> 0]
    /\ time = 0
    /\ inBlock = FALSE
    /\ records = [i \in LocalID |-> None]
    /\ latestID = 0
    /\ localID = [e \in Event |-> None]
    /\ sequences = {}
    /\ pipe = [k \in 0 .. 2 |-> {}]
    /\ query = None

-----------------------------------------------------------------------------
(* Recording.                                                              *)

\* External: StateSender.syncState numbers the events of its chain.
SyncState(r) ==
    /\ emitted[r] < MaxID
    /\ emitted' = [emitted EXCEPT ![r] = @ + 1]
    /\ UNCHANGED <<time, inBlock, storeVars, pipe, query>>

Recorded(i) == i \in LocalID /\ records[i] # None

HasRootChainEventRecord(e) == localID[e] # None /\ records[localID[e]] # None

\* handleMsgEventRecord: a block delivers after its side transactions ran.
HandleMsgEventRecord(e) ==
    /\ inBlock /\ pipe[2] = {}
    /\ ~ HasRootChainEventRecord(e)
    /\ e \notin sequences
    /\ Cardinality(pipe[0]) < MaxTxs
    /\ pipe' = [pipe EXCEPT ![0] = @ \cup {e}]
    /\ UNCHANGED <<emitted, time, inBlock, storeVars, query>>

\* SetEventRecord: each key must be free.  The keys by time hold nothing that
\* the record does not.
SetEventRecord(e) ==
    /\ localID[e] = None
    /\ latestID < MaxRecords
    /\ records[latestID + 1] = None
    /\ localID' = [localID EXCEPT ![e] = latestID + 1]
    /\ records' = [records EXCEPT ![latestID + 1] = [event |-> e, time |-> time]]
    /\ latestID' = latestID + 1

Executed(e) == pipe' = [pipe EXCEPT ![2] = @ \ {e}]

\* PostHandleMsgEventRecord of an approved event.
PostHandleMsgEventRecord(e) ==
    /\ e \in pipe[2]
    /\ ~ HasRootChainEventRecord(e)
    /\ SetEventRecord(e)
    /\ sequences' = sequences \cup {e}
    /\ Executed(e)
    /\ UNCHANGED <<emitted, time, inBlock, query>>

\* No quorum of Yes, or the post handler returned an error: runTx drops its
\* writes.
SideTxDropped(e) ==
    /\ e \in pipe[2]
    /\ Executed(e)
    /\ UNCHANGED <<emitted, time, inBlock, storeVars, query>>

BeginBlock(dt) ==
    /\ ~ inBlock
    /\ inBlock' = TRUE
    /\ time' = IF time + dt < MaxTime THEN time + dt ELSE MaxTime
    /\ pipe' = [k \in 0 .. 2 |-> IF k = 0 THEN {} ELSE pipe[k - 1]]
    /\ UNCHANGED <<emitted, storeVars, query>>

Commit ==
    /\ inBlock /\ pipe[2] = {}
    /\ inBlock' = FALSE
    /\ UNCHANGED <<emitted, time, storeVars, pipe, query>>

-----------------------------------------------------------------------------
(* Reading: tillTimeRangeQuery(from, to) makes several requests, and blocks *)
(* are committed between them.  One query is followed; it changes nothing   *)
(* that another one sees.                                                   *)

\* The record of the first ID, without which the answer is empty.
QueryFrom(from, to) ==
    /\ ~ inBlock
    /\ query = None
    /\ query' = [step |-> IF Recorded(from) THEN "range" ELSE "notFound",
                 from |-> from, to |-> to, page |-> {}, next |-> from]
    /\ UNCHANGED <<emitted, time, inBlock, storeVars, pipe>>

\* The records of a page: the first ones from a time on, in the order of their
\* time stamps; those of one block come in the order of the decimal digits of
\* their IDs, which is any order.
InRange(low, high) ==
    {i \in LocalID : Recorded(i) /\ low <= records[i].time /\ records[i].time < high}

IsPage(page, range) ==
    /\ page \subseteq range
    /\ Cardinality(page) = IF Cardinality(range) < Limit THEN Cardinality(range) ELSE Limit
    /\ \A i \in page, j \in range \ page : records[i].time <= records[j].time

\* A time stamp in whole seconds.
Unix(t) == (t \div Second) * Second

\* Mutant: the latest block may be older than to-time.
QueryRange_Early ==
    /\ ~ inBlock
    /\ query # None /\ query.step = "range"
    /\ LET range == InRange(Unix(records[query.from].time), query.to) IN
       \E page \in SUBSET range :
           /\ IsPage(page, range)
           /\ query' = [query EXCEPT !.step = "list", !.page = page]
    /\ UNCHANGED <<emitted, time, inBlock, storeVars, pipe>>

\* GetEventRecordListWithTime, from the second of the first record on: refused
\* until the latest block is after to-time.
QueryRange ==
    /\ ~ inBlock
    /\ query # None /\ query.step = "range"
    /\ IF time <= query.to
       THEN query' = None
       ELSE LET range == InRange(Unix(records[query.from].time), query.to) IN
            \E page \in SUBSET range :
                /\ IsPage(page, range)
                /\ query' = [query EXCEPT !.step = "list", !.page = page]
    /\ UNCHANGED <<emitted, time, inBlock, storeVars, pipe>>

\* An ID on the page needs no request, any other one is read on its own.
GoesOn ==
    /\ query.next - query.from < Limit
    /\ query.next \in query.page
        \/ (Recorded(query.next) /\ records[query.next].time < query.to)

QueryNext ==
    /\ ~ inBlock
    /\ query # None /\ query.step = "list"
    /\ query' = IF GoesOn THEN [query EXCEPT !.next = @ + 1]
                          ELSE [query EXCEPT !.step = "answered"]
    /\ UNCHANGED <<emitted, time, inBlock, storeVars, pipe>>

-----------------------------------------------------------------------------

\* What the bridges send.
EventMsgs == UNION {[root: {r}, id: 1 .. emitted[r]] : r \in RootChain}

Next ==
    \/ \E r \in RootChain : SyncState(r)
    \/ \E e \in EventMsgs : HandleMsgEventRecord(e)
    \/ \E e \in pipe[2] : PostHandleMsgEventRecord(e)
    \/ \E e \in pipe[2] : SideTxDropped(e)
    \/ \E dt \in TimeSteps : BeginBlock(dt)
    \/ Commit
    \/ \E from \in LocalID, to \in ToTime : QueryFrom(from, to)
    \/ QueryRange
    \/ QueryNext

Spec == Init /\ [][Next]_vars

-----------------------------------------------------------------------------
(* Properties.                                                             *)

\* The local IDs 1 .. latestID are all taken, and every event that was approved
\* has exactly one of them, although copies of its message wait for their votes
\* at the same time and only the record is looked for when they are executed.
NumberedOnce ==
    /\ \A i \in LocalID : records[i] # None <=> i <= latestID
    /\ \A e \in Event : localID[e] \in {None} \cup 1 .. latestID
    /\ \A e \in Event, i \in 1 .. latestID : records[i].event = e <=> localID[e] = i
    /\ sequences = {e \in Event : localID[e] # None}

\* What (from, next - 1) is worth as an answer now: all the records older than
\* to-time, as many as an answer holds.
IsAnswer(from, to, next) ==
    /\ next - from <= Limit
    /\ \A i \in from .. next - 1 : Recorded(i) /\ records[i].time < to
    /\ next - from < Limit => ~ Recorded(next) \/ records[next].time >= to

\* An answer stays right: whatever is recorded later, and whatever was recorded
\* between the requests it is made of, asking again gives the same records.  All
\* nodes of the child chain apply the same events.  The empty answer for an ID
\* that does not exist yet is not among them: it is given whatever the time.
AnswersFinal ==
    query # None /\ query.step = "answered" =>
        IsAnswer(query.from, query.to, query.next)

Log == INSTANCE EventLog WITH log <- [i \in 1 .. latestID |-> records[i].event]

\* Side transactions, keys and IDs of root chains never show: what the child
\* chain can read is an append-only list of distinct events.
ImplementsEventLog == Log!Spec
===============================================================================
