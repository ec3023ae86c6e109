------------------------------ MODULE ClerkProofs ------------------------------
(***************************************************************************)
(* The clerk module numbers every event once, its answers stay right, and  *)
(* it implements the abstract event log, for every value of the constants. *)
(* An export and import rearranges the log and loses local IDs or makes    *)
(* them wrong: what keeps an event from being recorded twice is then its   *)
(* sequence.                                                               *)
(***************************************************************************)
EXTENDS ClerkGenesis, SequenceTheorems, FiniteSetTheorems, TLAPS

\* What a query in progress has established: its first record is there, what it
\* collected is older than to-time, and the latest block is not.
QueryInv ==
    query # None =>
        /\ query.step = "range" => Recorded(query.from) /\ query.next = query.from
        /\ query.step \in {"list", "answered"} =>
              /\ query.to < time
              /\ query.from <= query.next /\ query.next - query.from <= Limit
              /\ \A i \in query.page : Recorded(i) /\ records[i].time < query.to
              /\ \A i \in query.from .. query.next - 1 :
                    Recorded(i) /\ records[i].time < query.to

\* The records are those of the sequences, each under one ID, from one on.
ListInv ==
    /\ \A i \in LocalID : (records[i] # None) <=> (i <= latestID)
    /\ \A e \in Event : localID[e] \in {None} \cup 1 .. latestID
    /\ \A i \in 1 .. latestID : records[i].event \in sequences
    /\ \A e \in sequences : \E i \in 1 .. latestID : records[i].event = e
    /\ \A i, j \in 1 .. latestID : records[i].event = records[j].event => i = j

\* An event that waits for its votes is found if it has been recorded: the import
\* loses its local ID, but also the side transactions.
PipeInv ==
    \A k \in 0 .. 2 : \A e \in pipe[k] : e \in sequences => localID[e] # None

IInv == TypeOK /\ ListInv /\ PipeInv /\ QueryInv /\ AnswersFinal

-----------------------------------------------------------------------------

\* Nothing is recorded in the initial state.
LEMMA InitInv == Init => IInv
<1> SUFFICES ASSUME Init PROVE IInv
  OBVIOUS
<1> USE BoundAssumption DEF Init
<1>1. TypeOK
  <2>1. time \in Time /\ latestID \in 0 .. MaxRecords
    BY DEF Time
  <2>2. emitted \in [RootChain -> 0 .. MaxID]
    OBVIOUS
  <2>3. records \in [LocalID -> Record \cup {None}] /\ localID \in [Event -> LocalID \cup {None}]
    OBVIOUS
  <2>4. pipe \in [0 .. 2 -> SUBSET Event]
    OBVIOUS
  <2> QED
    BY <2>1, <2>2, <2>3, <2>4 DEF TypeOK
<1>2. ListInv /\ PipeInv
  BY NoneAssumption DEF ListInv, PipeInv, LocalID
<1>3. QueryInv /\ AnswersFinal
  BY DEF QueryInv, AnswersFinal
<1> QED
  BY <1>1, <1>2, <1>3 DEF IInv

\* A step that leaves the store and the query alone, and does not turn the clock
\* back, keeps all but the types.
LEMMA Untouched ==
    ASSUME IInv, UNCHANGED <<storeVars, query>>, time' \in Nat, time <= time'
    PROVE  ListInv' /\ QueryInv' /\ AnswersFinal'
<1> USE DEF IInv, storeVars
<1>1. ListInv'
  BY DEF ListInv
<1>2. QueryInv'
  <2>1. query # None => query.to \in Nat
    BY BoundAssumption DEF TypeOK, Query, Time
  <2>2. time \in Nat
    BY BoundAssumption DEF TypeOK, Time
  <2> QED
    BY <2>1, <2>2 DEF QueryInv, Recorded
<1>3. AnswersFinal'
  BY DEF AnswersFinal, IsAnswer, Recorded
<1> QED
  BY <1>1, <1>2, <1>3

\* Recording an event takes the next local ID and nothing else.
LEMMA RecordedStep ==
    ASSUME IInv, NEW e \in pipe[2], PostHandleMsgEventRecord(e)
    PROVE  IInv'
<1> DEFINE new == latestID + 1
<1> DEFINE rec == [event |-> e, time |-> time]
<1>0. /\ e \in Event /\ localID[e] = None /\ latestID < MaxRecords /\ records[new] = None
      /\ localID' = [localID EXCEPT ![e] = new]
      /\ records' = [records EXCEPT ![new] = rec]
      /\ latestID' = new /\ sequences' = sequences \cup {e}
      /\ pipe' = [pipe EXCEPT ![2] = @ \ {e}]
      /\ UNCHANGED <<emitted, time, inBlock, query>>
  BY DEF PostHandleMsgEventRecord, SetEventRecord, Executed, IInv, TypeOK
<1>1. new \in LocalID /\ latestID \in Nat /\ rec \in Record /\ time \in Nat
  BY <1>0, BoundAssumption DEF IInv, TypeOK, LocalID, Record, Time
<1>2. TypeOK'
  <2>1. records' \in [LocalID -> Record \cup {None}]
    BY <1>0, <1>1 DEF IInv, TypeOK
  <2>2. localID' \in [Event -> LocalID \cup {None}]
    BY <1>0, <1>1 DEF IInv, TypeOK
  <2>3. latestID' \in 0 .. MaxRecords /\ sequences' \subseteq Event
    BY <1>0, <1>1, BoundAssumption DEF IInv, TypeOK, LocalID
  <2>4. pipe' \in [0 .. 2 -> SUBSET Event]
    BY <1>0 DEF IInv, TypeOK
  <2> QED
    BY <1>0, <2>1, <2>2, <2>3, <2>4 DEF IInv, TypeOK
<1>n. \A i \in 1 .. latestID : i \in LocalID /\ records'[i] = records[i]
  BY <1>0, <1>1, BoundAssumption DEF IInv, TypeOK, LocalID
<1>e. records'[new] = rec /\ rec.event = e
  BY <1>0, <1>1 DEF IInv, TypeOK
<1>f. e \notin sequences
  BY <1>0 DEF IInv, PipeInv
<1>3. ListInv'
  <2>1. ASSUME NEW i \in LocalID
        PROVE  (records'[i] # None) <=> (i <= latestID')
    <3>1. (records[i] # None) <=> (i <= latestID)
      BY DEF IInv, ListInv
    <3>2. CASE i = new
      BY <1>0, <1>1, <3>2, NoneAssumption DEF IInv, TypeOK
    <3>3. CASE i # new
      BY <1>0, <1>1, <3>1, <3>3 DEF IInv, TypeOK, LocalID
    <3> QED
      BY <3>2, <3>3
  <2>2. \A f \in Event : localID'[f] = IF f = e THEN new ELSE localID[f]
    BY <1>0 DEF IInv, TypeOK
  <2>3. \A f \in Event : localID'[f] \in {None} \cup 1 .. latestID'
    BY <1>0, <1>1, <2>2 DEF IInv, ListInv
  <2>4. ASSUME NEW i \in 1 .. latestID'
        PROVE  (i \in 1 .. latestID /\ records'[i].event = records[i].event)
                 \/ (i = new /\ records'[i].event = e)
    BY <1>0, <1>1, <1>n, <1>e
  <2>5. ASSUME NEW i \in 1 .. latestID PROVE i \in 1 .. latestID' /\ records'[i].event = records[i].event
    BY <1>0, <1>1, <1>n
  <2>6. \A i \in 1 .. latestID' : records'[i].event \in sequences'
    BY <1>0, <2>4 DEF IInv, ListInv
  <2>7. ASSUME NEW f \in sequences' PROVE \E i \in 1 .. latestID' : records'[i].event = f
    <3>1. CASE f = e
      <4>1. new \in 1 .. latestID'
        BY <1>0, <1>1
      <4> QED BY <3>1, <4>1, <1>e
    <3>2. CASE f # e
      <4>1. PICK i \in 1 .. latestID : records[i].event = f
        BY <1>0, <3>2 DEF IInv, ListInv
      <4> QED BY <4>1, <2>5
    <3> QED
      BY <3>1, <3>2
  <2>8. ASSUME NEW i \in 1 .. latestID', NEW j \in 1 .. latestID',
               records'[i].event = records'[j].event
        PROVE  i = j
    BY <1>f, <2>4, <2>8 DEF IInv, ListInv
  <2> QED
    BY <2>1, <2>3, <2>6, <2>7, <2>8 DEF ListInv
<1>p. PipeInv'
  <2>1. \A f \in Event : localID'[f] = IF f = e THEN new ELSE localID[f]
    BY <1>0 DEF IInv, TypeOK
  <2>2. ASSUME NEW k \in 0 .. 2, NEW f \in pipe'[k], f \in sequences'
        PROVE  localID'[f] # None
    <3>1. f \in pipe[k] /\ f \in Event
      BY <1>0 DEF IInv, TypeOK
    <3>2. CASE f = e
      BY <1>1, <2>1, <3>1, <3>2, NoneAssumption
    <3>3. CASE f # e
      BY <1>0, <2>1, <2>2, <3>1, <3>3 DEF IInv, PipeInv
    <3> QED
      BY <3>2, <3>3
  <2> QED
    BY <2>2 DEF PipeInv
<1>4. \A i : Recorded(i) => Recorded(i)' /\ records'[i] = records[i]
  BY <1>0, <1>1, NoneAssumption DEF Recorded, IInv, TypeOK
<1>5. QueryInv'
  BY <1>0, <1>4 DEF IInv, QueryInv
<1>6. AnswersFinal'
  <2> SUFFICES ASSUME query # None, query.step = "answered"
               PROVE  IsAnswer(query.from, query.to, query.next)'
    BY <1>0 DEF AnswersFinal
  <2>1. IsAnswer(query.from, query.to, query.next) /\ query.to < time
    BY DEF IInv, AnswersFinal, QueryInv
  <2>2. query.to \in Nat /\ query.next \in Nat
    BY BoundAssumption DEF IInv, TypeOK, Query, Time
  <2>3. ASSUME query.next - query.from < Limit
        PROVE  ~ Recorded(query.next)' \/ records'[query.next].time >= query.to
    <3>1. CASE query.next = new
      BY <1>0, <1>1, <2>1, <2>2, <3>1 DEF IInv, TypeOK
    <3>2. CASE query.next # new
      BY <1>0, <1>1, <2>1, <2>3, <3>2 DEF IsAnswer, Recorded, IInv, TypeOK
    <3> QED
      BY <3>1, <3>2
  <2> QED
    BY <1>0, <1>4, <2>1, <2>3 DEF IsAnswer
<1> QED
  BY <1>2, <1>3, <1>p, <1>5, <1>6 DEF IInv

\* The order of the export leaves out no record and has none twice.
LEMMA ExportedOrder ==
    ASSUME latestID \in Nat, NEW order \in Exported
    PROVE  /\ order \in [1 .. latestID -> 1 .. latestID]
           /\ \A i, j \in 1 .. latestID : order[i] = order[j] => i = j
           /\ \A k \in 1 .. latestID : \E i \in 1 .. latestID : order[i] = k
<1> DEFINE IDs == 1 .. latestID
<1>1. /\ order \in [IDs -> IDs]
      /\ \A i, j \in IDs : i < j => order[i] # order[j]
  BY DEF Exported, KeyBefore
<1>2. ASSUME NEW i \in IDs, NEW j \in IDs, order[i] = order[j] PROVE i = j
  <2>1. ~ (i < j) /\ ~ (j < i)
    BY <1>1, <1>2
  <2> QED
    BY <2>1
<1>3. order \in Injection(IDs, IDs)
  BY <1>1, <1>2 DEF Injection, IsInjective
<1>4. IsFiniteSet(IDs)
  BY FS_Interval
<1> HIDE DEF IDs
<1>5. order \in Surjection(IDs, IDs)
  BY <1>3, <1>4, FS_Injection
<1>6. \A k \in IDs : \E i \in IDs : order[i] = k
  BY <1>5 DEF Surjection
<1> QED
  BY <1>1, <1>2, <1>6 DEF IDs

\* An import keeps the records of the sequences, each under one new ID.
LEMMA ImportStep ==
    ASSUME IInv, ExportImport
    PROVE  IInv'
<1> DEFINE IDs == 1 .. latestID
<1>1. PICK order \in Exported :
          /\ records' = [i \in LocalID |-> IF i <= latestID THEN records[order[i]] ELSE None]
          /\ \A e \in Event : localID'[e] \in {None} \cup IDs
  <2>1. PICK order \in Exported :
            /\ records' = [i \in LocalID |->
                              IF i <= latestID THEN records[order[i]] ELSE None]
            /\ localID' = [e \in Event |->
                  LET imported == {i \in IDs :
                                      order[i] = e.id /\ records[e.id].event.root = e.root}
                  IN  IF imported = {} THEN None ELSE CHOOSE i \in imported : TRUE]
    BY Zenon DEF ExportImport
  <2> QED
    BY <2>1
<1>2. /\ DOMAIN localID' = Event /\ localID' = [e \in Event |-> localID'[e]]
      /\ pipe' = [k \in 0 .. 2 |-> {}] /\ query' = None
      /\ UNCHANGED <<emitted, time, inBlock, latestID, sequences>>
  BY DEF ExportImport
<1>3. /\ latestID \in Nat /\ latestID <= MaxRecords /\ IDs \subseteq LocalID
      /\ \A i \in LocalID : i <= latestID <=> i \in IDs
  BY BoundAssumption DEF IInv, TypeOK, LocalID
<1>4. /\ \A i \in IDs : order[i] \in IDs
      /\ \A i, j \in IDs : order[i] = order[j] => i = j
      /\ \A k \in IDs : \E i \in IDs : order[i] = k
  BY <1>3, ExportedOrder
<1>5. \A i \in IDs : records[i] \in Record /\ records[i] # None
  BY <1>3 DEF IInv, TypeOK, ListInv
<1> HIDE DEF IDs
<1>6. /\ \A i \in IDs : records'[i] = records[order[i]]
      /\ \A i \in LocalID \ IDs : records'[i] = None
  BY <1>1, <1>3
<1>7. TypeOK'
  <2>1. records' \in [LocalID -> Record \cup {None}]
    BY <1>1, <1>3, <1>4, <1>5
  <2>2. localID' \in [Event -> LocalID \cup {None}]
    BY <1>1, <1>2, <1>3
  <2>3. pipe' \in [0 .. 2 -> SUBSET Event]
    BY <1>2
  <2> QED
    BY <1>2, <2>1, <2>2, <2>3 DEF IInv, TypeOK
<1>8. ListInv'
  <2>1. \A i \in LocalID : (records'[i] # None) <=> (i <= latestID')
    BY <1>2, <1>3, <1>4, <1>5, <1>6
  <2>2. \A i \in IDs : records'[i].event \in sequences'
    BY <1>2, <1>4, <1>6 DEF IInv, ListInv, IDs
  <2>3. ASSUME NEW e \in sequences' PROVE \E i \in IDs : records'[i].event = e
    <3>1. PICK k \in IDs : records[k].event = e
      BY <1>2 DEF IInv, ListInv, IDs
    <3> QED
      BY <1>4, <1>6, <3>1
  <2>4. ASSUME NEW i \in IDs, NEW j \in IDs, records'[i].event = records'[j].event
        PROVE  i = j
    <3>1. \A k, l \in IDs : records[k].event = records[l].event => k = l
      BY Zenon DEF IInv, ListInv, IDs
    <3>2. order[i] \in IDs /\ order[j] \in IDs
      BY <1>4
    <3>3. records[order[i]].event = records[order[j]].event
      BY <1>6, <2>4
    <3>4. order[i] = order[j]
      BY <3>1, <3>2, <3>3
    <3> QED
      BY <1>4, <3>4
  <2> QED
    BY <1>1, <1>2, <2>1, <2>2, <2>3, <2>4 DEF ListInv, IDs
<1>9. PipeInv' /\ QueryInv' /\ AnswersFinal'
  BY <1>2 DEF PipeInv, QueryInv, AnswersFinal
<1> QED
  BY <1>7, <1>8, <1>9 DEF IInv

\* What the import does to the log.
LEMMA ImportKeepsEvents ==
    ASSUME IInv, ExportImport
    PROVE  Len(log') = Len(log) /\ Events(log') = Events(log)
<1> DEFINE IDs == 1 .. latestID
<1>1. PICK order \in Exported :
          records' = [i \in LocalID |-> IF i <= latestID THEN records[order[i]] ELSE None]
  BY Zenon DEF ExportImport
<1>2. /\ latestID' = latestID /\ latestID \in Nat /\ latestID <= MaxRecords
      /\ IDs \subseteq LocalID
  BY BoundAssumption DEF ExportImport, IInv, TypeOK, LocalID
<1>3. /\ \A i \in IDs : order[i] \in IDs
      /\ \A k \in IDs : \E i \in IDs : order[i] = k
  BY <1>2, ExportedOrder
<1>4. \A i \in IDs : records'[i] = records[order[i]]
  BY <1>1, <1>2
<1>5. /\ log = [i \in IDs |-> records[i].event]
      /\ log' = [i \in IDs |-> records'[i].event]
  BY <1>2 DEF log
<1>6. Len(log) = latestID /\ Len(log') = latestID
  BY <1>2, <1>5
<1> HIDE DEF IDs
<1>7. /\ Events(log) = {records[i].event : i \in IDs}
      /\ Events(log)' = {records'[i].event : i \in IDs}
  BY <1>5 DEF Events
<1>8. {records'[i].event : i \in IDs} = {records[i].event : i \in IDs}
  BY <1>3, <1>4
<1>9. Events(log') = Events(log)'
  BY DEF Events
<1> QED
  BY <1>6, <1>7, <1>8, <1>9

\* Every step of the module keeps the invariant.
LEMMA NextInv == IInv /\ [GenesisNext]_vars => IInv'
<1> SUFFICES ASSUME IInv, [GenesisNext]_vars PROVE IInv'
  OBVIOUS
<1> USE DEF IInv
<1>t. time \in Nat /\ MaxTime \in Nat
  BY BoundAssumption DEF TypeOK, Time
<1>1. ASSUME NEW r \in RootChain, SyncState(r) PROVE IInv'
  <2>1. TypeOK'
    BY <1>1, BoundAssumption DEF SyncState, TypeOK, storeVars
  <2>2. PipeInv'
    BY <1>1 DEF SyncState, PipeInv, storeVars
  <2> QED
    BY <1>1, <1>t, <2>1, <2>2, Untouched DEF SyncState
<1>2. ASSUME NEW e \in EventMsgs, HandleMsgEventRecord(e) PROVE IInv'
  <2>1. e \in Event
    BY BoundAssumption DEF EventMsgs, Event, TypeOK
  <2>2. TypeOK'
    BY <1>2, <2>1 DEF HandleMsgEventRecord, TypeOK, storeVars
  <2>3. PipeInv'
    BY <1>2 DEF HandleMsgEventRecord, PipeInv, TypeOK, storeVars
  <2> QED
    BY <1>2, <1>t, <2>2, <2>3, Untouched DEF HandleMsgEventRecord
<1>3. ASSUME NEW e \in pipe[2], PostHandleMsgEventRecord(e) PROVE IInv'
  BY <1>3, RecordedStep
<1>4. ASSUME NEW e \in pipe[2], SideTxDropped(e) PROVE IInv'
  <2>1. TypeOK'
    BY <1>4 DEF SideTxDropped, Executed, TypeOK, storeVars
  <2>2. PipeInv'
    BY <1>4 DEF SideTxDropped, Executed, PipeInv, TypeOK, storeVars
  <2> QED
    BY <1>4, <1>t, <2>1, <2>2, Untouched DEF SideTxDropped
<1>5. ASSUME NEW dt \in TimeSteps, BeginBlock(dt) PROVE IInv'
  <2>1. dt \in Nat /\ time' \in Time /\ time <= time'
    BY <1>5, <1>t, TimeAssumption DEF BeginBlock, TypeOK, Time
  <2>2. pipe' \in [0 .. 2 -> SUBSET Event]
    BY <1>5 DEF BeginBlock, TypeOK
  <2>3. TypeOK'
    BY <1>5, <2>1, <2>2 DEF BeginBlock, TypeOK, storeVars
  <2>4. PipeInv'
    BY <1>5 DEF BeginBlock, PipeInv, TypeOK, storeVars
  <2> QED
    BY <1>5, <1>t, <2>1, <2>3, <2>4, Untouched DEF BeginBlock, Time
<1>6. ASSUME Commit PROVE IInv'
  <2>1. TypeOK'
    BY <1>6 DEF Commit, TypeOK, storeVars
  <2>2. PipeInv'
    BY <1>6 DEF Commit, PipeInv, storeVars
  <2> QED
    BY <1>6, <1>t, <2>1, <2>2, Untouched DEF Commit
<1>7. ASSUME NEW from \in LocalID, NEW to \in ToTime, QueryFrom(from, to) PROVE IInv'
  <2>1. query' \in Query
    BY <1>7, BoundAssumption DEF QueryFrom, Query, ToTime, LocalID
  <2>2. TypeOK' /\ ListInv' /\ PipeInv'
    BY <1>7, <2>1 DEF QueryFrom, TypeOK, ListInv, PipeInv, storeVars
  <2>3. QueryInv' /\ AnswersFinal'
    BY <1>7 DEF QueryFrom, QueryInv, AnswersFinal, Recorded, storeVars
  <2> QED
    BY <2>2, <2>3
<1>8. ASSUME QueryRange PROVE IInv'
  <2>1. query \in Query /\ query.step = "range" /\ Recorded(query.from)
        /\ query.next = query.from
        /\ UNCHANGED <<emitted, time, inBlock, storeVars, pipe>>
    BY <1>8 DEF QueryRange, TypeOK, QueryInv
  <2>2. CASE query' = None
    BY <2>1, <2>2 DEF TypeOK, ListInv, PipeInv, QueryInv, AnswersFinal, storeVars
  <2>3. CASE query' # None
    <3>1. PICK page :
              /\ query.to < time
              /\ page \subseteq InRange(Unix(records[query.from].time), query.to)
              /\ query' = [query EXCEPT !.step = "list", !.page = page]
      <4>1. query.to \in Nat
        BY <2>1, BoundAssumption DEF Query, Time
      <4>2. ~ (time <= query.to)
        BY <1>8, <2>3 DEF QueryRange
      <4>3. \E page \in SUBSET InRange(Unix(records[query.from].time), query.to) :
                query' = [query EXCEPT !.step = "list", !.page = page]
        BY <1>8, <4>2, Zenon DEF QueryRange
      <4>4. query.to < time
        BY <1>t, <4>1, <4>2
      <4> QED
        BY <4>3, <4>4, Zenon
    <3>2. \A i \in page : i \in LocalID /\ Recorded(i) /\ records[i].time < query.to
      BY <3>1 DEF InRange
    <3>3. query' \in Query /\ query'.step = "list" /\ query'.page = page
          /\ query'.from = query.from /\ query'.to = query.to /\ query'.next = query.next
      BY <2>1, <3>1, <3>2 DEF Query
    <3>4. TypeOK' /\ ListInv' /\ PipeInv'
      BY <2>1, <3>3 DEF TypeOK, ListInv, PipeInv, storeVars
    <3>5. query.from \in Nat /\ query.from .. query.next - 1 = {}
      BY <2>1 DEF Query, LocalID
    <3>6. QueryInv'
      BY <2>1, <3>1, <3>2, <3>3, <3>5, BoundAssumption DEF QueryInv, Recorded, storeVars
    <3>7. AnswersFinal'
      BY <3>3 DEF AnswersFinal
    <3> QED
      BY <3>4, <3>6, <3>7
  <2> QED
    BY <2>2, <2>3
<1>9. ASSUME QueryNext PROVE IInv'
  <2>1. query \in Query /\ query.step = "list"
        /\ UNCHANGED <<emitted, time, inBlock, storeVars, pipe>>
    BY <1>9 DEF QueryNext, TypeOK
  <2>2. /\ query.to < time
        /\ query.from <= query.next /\ query.next - query.from <= Limit
        /\ \A i \in query.page : Recorded(i) /\ records[i].time < query.to
        /\ \A i \in query.from .. query.next - 1 :
               Recorded(i) /\ records[i].time < query.to
    BY <2>1, NoneAssumption, <1>9 DEF QueryInv, QueryNext
  <2>3. query.next \in Nat /\ query.from \in Nat /\ query.to \in Nat
    BY <2>1, BoundAssumption DEF Query, LocalID, Time
  <2>4. CASE GoesOn
    <3>1. query' = [query EXCEPT !.next = @ + 1] /\ Recorded(query.next)
          /\ records[query.next].time < query.to /\ query.next - query.from < Limit
      BY <1>9, <2>2, <2>4 DEF QueryNext, GoesOn
    <3>2. query' \in Query /\ query'.step = "list" /\ query'.page = query.page
          /\ query'.from = query.from /\ query'.to = query.to
          /\ query'.next = query.next + 1
      BY <2>1, <2>3, <3>1, BoundAssumption DEF Query, Recorded, LocalID
    <3>3. \A i \in query.from .. query'.next - 1 :
              Recorded(i) /\ records[i].time < query.to
      <4>1. ASSUME NEW i \in query.from .. query'.next - 1
            PROVE  i \in query.from .. query.next - 1 \/ i = query.next
        BY <2>3, <3>2
      <4> QED
        BY <4>1, <2>2, <3>1
    <3>4. TypeOK' /\ ListInv' /\ PipeInv'
      BY <2>1, <3>2 DEF TypeOK, ListInv, PipeInv, storeVars
    <3>5. QueryInv'
      BY <2>1, <2>2, <2>3, <3>1, <3>2, <3>3, BoundAssumption
         DEF QueryInv, Recorded, storeVars
    <3> QED
      BY <3>2, <3>4, <3>5 DEF AnswersFinal
  <2>5. CASE ~ GoesOn
    <3>1. query' = [query EXCEPT !.step = "answered"]
      BY <1>9, <2>5 DEF QueryNext
    <3>2. query' \in Query /\ query'.step = "answered" /\ query'.page = query.page
          /\ query'.from = query.from /\ query'.to = query.to
          /\ query'.next = query.next
      BY <2>1, <3>1 DEF Query
    <3>3. TypeOK' /\ ListInv' /\ PipeInv'
      BY <2>1, <3>2 DEF TypeOK, ListInv, PipeInv, storeVars
    <3>4. QueryInv'
      BY <2>1, <2>2, <2>3, <3>2, BoundAssumption DEF QueryInv, Recorded, storeVars
    <3>5. query.next - query.from < Limit =>
              ~ Recorded(query.next) \/ records[query.next].time >= query.to
      <4>1. Recorded(query.next) => records[query.next].time \in Nat
        BY BoundAssumption DEF Recorded, TypeOK, Record, Time
      <4> QED
        BY <2>3, <2>5, <4>1 DEF GoesOn
    <3>6. IsAnswer(query.from, query.to, query.next)
      BY <2>2, <3>5 DEF IsAnswer
    <3>7. AnswersFinal'
      BY <2>1, <3>2, <3>6 DEF AnswersFinal, IsAnswer, Recorded, storeVars
    <3> QED
      BY <3>3, <3>4, <3>7
  <2> QED
    BY <2>4, <2>5
<1>10. CASE UNCHANGED vars
  <2>1. TypeOK'
    BY <1>10 DEF vars, storeVars, TypeOK
  <2>2. UNCHANGED <<storeVars, query>> /\ time' = time
    BY <1>10 DEF vars, storeVars
  <2>3. time' \in Nat /\ time <= time'
    BY <1>t, <2>2
  <2>4. PipeInv'
    BY <1>10 DEF vars, storeVars, PipeInv
  <2> QED
    BY <2>1, <2>2, <2>3, <2>4, Untouched
<1>11. ASSUME ExportImport PROVE IInv'
  BY <1>11, ImportStep
<1> QED
  BY <1>1, <1>2, <1>3, <1>4, <1>5, <1>6, <1>7, <1>8, <1>9, <1>10, <1>11
     DEF GenesisNext, Next

\* The invariant holds in every reachable state, with export and import too.
LEMMA GenesisInv == GenesisSpec => []IInv
<1> QED
  BY InitInv, NextInv, PTL DEF GenesisSpec

\* A chain without export and import is one of those.
LEMMA WithoutGenesis == Spec => GenesisSpec
<1>1. [Next]_vars => [GenesisNext]_vars
  BY DEF GenesisNext
<1> QED
  BY <1>1, PTL DEF Spec, GenesisSpec

-----------------------------------------------------------------------------
(* Theorems.                                                               *)

\* Every variable of the clerk module keeps its type.
THEOREM TypeCorrect == GenesisSpec => []TypeOK
<1> QED
  BY GenesisInv, PTL DEF IInv

\* An answer of tillTimeRangeQuery is never out of date, whatever is committed
\* while it is collected and afterwards.
THEOREM FinalAnswers == Spec => []AnswersFinal
<1> QED
  BY WithoutGenesis, GenesisInv, PTL DEF IInv

\* Nor is one of a chain that started from an exported genesis, whose records
\* are no longer in the order of their times.  What was answered before the
\* import is another matter: the new chain may have other records under the IDs.
THEOREM FinalOnEveryChain == GenesisSpec => []AnswersFinal
<1> QED
  BY GenesisInv, PTL DEF IInv

\* Only the recording of an event changes the store.
LEMMA StoreStep ==
    [Next]_vars => (\E e \in pipe[2] : PostHandleMsgEventRecord(e)) \/ UNCHANGED storeVars
<1> SUFFICES ASSUME [Next]_vars
             PROVE  (\E e \in pipe[2] : PostHandleMsgEventRecord(e)) \/ UNCHANGED storeVars
  OBVIOUS
<1>1. CASE UNCHANGED vars
  BY <1>1 DEF vars, storeVars
<1>2. ASSUME QueryRange \/ QueryNext PROVE UNCHANGED storeVars
  BY <1>2, Zenon DEF QueryRange, QueryNext
<1>3. ASSUME NEW from \in LocalID, NEW to \in ToTime, QueryFrom(from, to)
      PROVE  UNCHANGED storeVars
  BY <1>3 DEF QueryFrom
<1> QED
  BY <1>1, <1>2, <1>3
     DEF Next, SyncState, HandleMsgEventRecord, SideTxDropped, BeginBlock, Commit

\* Who has a record has its local ID, as long as nothing is imported.
LEMMA NumberedStep == IInv /\ NumberedOnce /\ [Next]_vars => NumberedOnce'
<1> SUFFICES ASSUME IInv, NumberedOnce, [Next]_vars PROVE NumberedOnce'
  OBVIOUS
<1>1. ASSUME NEW e \in pipe[2], PostHandleMsgEventRecord(e) PROVE NumberedOnce'
  <2> DEFINE new == latestID + 1
             rec == [event |-> e, time |-> time]
  <2>1. /\ e \in Event /\ localID[e] = None /\ latestID < MaxRecords /\ records[new] = None
        /\ localID' = [localID EXCEPT ![e] = new]
        /\ records' = [records EXCEPT ![new] = rec]
        /\ latestID' = new /\ sequences' = sequences \cup {e}
    BY <1>1 DEF PostHandleMsgEventRecord, SetEventRecord, IInv, TypeOK
  <2>2. new \in LocalID /\ latestID \in Nat /\ None \notin LocalID
    BY <2>1, BoundAssumption, NoneAssumption DEF IInv, TypeOK, LocalID
  <2>3. \A i \in LocalID : (records'[i] # None) <=> (i <= latestID')
    BY <1>1, RecordedStep DEF IInv, ListInv
  <2>4. \A f \in Event : localID'[f] = IF f = e THEN new ELSE localID[f]
    BY <2>1 DEF IInv, TypeOK
  <2>5. \A f \in Event : localID'[f] \in {None} \cup 1 .. latestID'
    BY <1>1, RecordedStep DEF IInv, ListInv
  <2>6. ASSUME NEW f \in Event, NEW i \in 1 .. latestID'
        PROVE  (records'[i].event = f) <=> (localID'[f] = i)
    <3>1. i \in LocalID /\ (i # new => i \in 1 .. latestID)
      BY <2>1, <2>2, BoundAssumption DEF LocalID
    <3>2. \A j \in 1 .. latestID : (records[j].event = f) <=> (localID[f] = j)
      BY DEF NumberedOnce
    <3>3. localID[f] # new
      BY <2>2 DEF NumberedOnce
    <3>4. CASE i = new
      BY <2>1, <2>2, <3>1, <3>3, <3>4 DEF IInv, TypeOK
    <3>5. CASE i # new /\ f = e
      BY <2>1, <2>2, <3>1, <3>2, <3>5 DEF IInv, TypeOK
    <3>6. CASE i # new /\ f # e
      BY <2>1, <2>2, <3>1, <3>2, <3>6 DEF IInv, TypeOK
    <3> QED
      BY <3>4, <3>5, <3>6
  <2>7. sequences' = {f \in Event : localID'[f] # None}
    BY <2>1, <2>2, <2>4 DEF NumberedOnce
  <2> QED
    BY <2>3, <2>5, <2>6, <2>7 DEF NumberedOnce
<1>2. ASSUME UNCHANGED storeVars PROVE NumberedOnce'
  BY <1>2 DEF storeVars, NumberedOnce
<1> QED
  BY <1>1, <1>2, StoreStep

\* Local IDs have no gap and no event has two: PostHandleMsgEventRecord may look
\* for the record alone.
THEOREM Numbering == Spec => []NumberedOnce
<1>1. Init => NumberedOnce
  BY NoneAssumption, BoundAssumption DEF Init, NumberedOnce, LocalID
<1> QED
  BY <1>1, NumberedStep, WithoutGenesis, GenesisInv, PTL DEF Spec

\* The abstract log starts empty.
LEMMA LogInit == Init => Log!Init
<1> SUFFICES ASSUME Init PROVE [i \in 1 .. latestID |-> records[i].event] = <<>>
  BY DEF Log!Init
<1> QED
  BY DEF Init

\* Every step appends an event that is not in the log, or leaves it alone.
LEMMA LogStep ==
    IInv /\ [Next]_vars => [Log!Next]_log
<1> SUFFICES ASSUME IInv, [Next]_vars PROVE Log!Next \/ log' = log
  OBVIOUS
<1> USE DEF log
<1>1. ASSUME NEW e \in pipe[2], PostHandleMsgEventRecord(e) PROVE Log!Next
  <2>1. /\ e \in Event /\ localID[e] = None /\ latestID \in Nat
        /\ latestID + 1 \in LocalID /\ latestID' = latestID + 1
        /\ records' = [records EXCEPT ![latestID + 1] = [event |-> e, time |-> time]]
        /\ records \in [LocalID -> Record \cup {None}]
    BY <1>1, BoundAssumption
       DEF PostHandleMsgEventRecord, SetEventRecord, IInv, TypeOK, LocalID
  <2>2. ASSUME NEW i \in 1 .. latestID
        PROVE  i \in LocalID /\ records[i] \in Record
    <3>1. i \in LocalID /\ i <= latestID
      BY <2>1, BoundAssumption DEF LocalID
    <3>2. records[i] # None
      BY <3>1 DEF IInv, ListInv
    <3> QED
      BY <2>1, <3>1, <3>2
  <2>3. log \in Seq(Event) /\ Len(log) = latestID /\ DOMAIN log = 1 .. latestID
    BY <2>1, <2>2 DEF Record
  <2>4. \A i \in DOMAIN log : log[i] # e
    <3>1. ASSUME NEW i \in 1 .. latestID PROVE records[i].event # e
      <4>1. e \notin sequences
        BY <2>1 DEF IInv, PipeInv
      <4> QED
        BY <4>1 DEF IInv, ListInv
    <3> QED
      BY <2>3, <3>1
  <2>5. log' = Append(log, e)
    <3>1. log' = [i \in 1 .. latestID + 1 |-> records'[i].event]
      BY <2>1
    <3>2. \A i \in 1 .. latestID : records'[i] = records[i]
      BY <2>1, <2>2
    <3>3. records'[latestID + 1].event = e
      BY <2>1
    <3>4. Append(log, e) = [i \in 1 .. latestID + 1 |-> IF i <= latestID THEN log[i] ELSE e]
      BY <2>1, <2>3, AppendProperties
    <3> QED
      BY <2>1, <3>1, <3>2, <3>3, <3>4
  <2>6. Log!Record(e)
    BY <2>4, <2>5 DEF Log!Record
  <2> QED
    BY <2>1, <2>6 DEF Log!Next
<1>2. ASSUME UNCHANGED storeVars PROVE log' = log
  BY <1>2 DEF storeVars
<1> QED
  BY <1>1, <1>2, StoreStep

\* The clerk module implements the abstract event log.
THEOREM LogRefined == Spec => ImplementsEventLog
<1>1. Spec => Init /\ []IInv /\ [][Next]_vars
  BY WithoutGenesis, GenesisInv, PTL DEF Spec
<1> QED
  BY <1>1, LogInit, LogStep, PTL DEF ImplementsEventLog, Log!Spec, log

\* Exports and imports rearrange the log, but lose no event and record none
\* twice, although they lose local IDs and take some for those of other events.
THEOREM LogSurvivesImport == GenesisSpec => LogKept
<1>1. IInv /\ [GenesisNext]_vars =>
          [\/ Log!Next
           \/ ExportImport /\ Len(log') = Len(log) /\ Events(log') = Events(log)]_log
  BY LogStep, ImportKeepsEvents DEF GenesisNext
<1> QED
  BY <1>1, GenesisInv, PTL DEF GenesisSpec, LogKept
===============================================================================
