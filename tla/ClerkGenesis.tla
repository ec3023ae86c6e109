----------------------------- MODULE ClerkGenesis -----------------------------
(***************************************************************************)
(* Clerk with the export of its state into a genesis file and the import   *)
(* into a new chain (clerk/genesis.go).                                    *)
(***************************************************************************)
EXTENDS Clerk

CONSTANT Base   \* of the digits in the keys of the records (10)

ASSUME BaseAssumption == Base \in Nat \ {0, 1}

-----------------------------------------------------------------------------
(* The order of the keys: a local ID is written out in digits, without      *)
(* leading zeros, so that 10 comes before 2.                                *)

Digits(i) == CHOOSE d \in 1 .. i : Base ^ (d - 1) <= i /\ i < Base ^ d

\* As if the digits were those of a fraction; 1 comes before 10.
KeyBefore(i, j) ==
    LET padded(n) == n * Base ^ (MaxRecords - Digits(n)) IN
    /\ i # j
    /\ padded(i) < padded(j) \/ (padded(i) = padded(j) /\ i < j)

\* GetAllEventRecords: the local IDs as the iterator meets them.
Exported ==
    {order \in [1 .. latestID -> 1 .. latestID] :
        \A i, j \in 1 .. latestID : i < j => KeyBefore(order[i], order[j])}

\* Mutant: the sequences are not imported.
ExportImport_NoSequences ==
    /\ ~ inBlock
    /\ \E order \in Exported :
          /\ records' = [i \in LocalID |-> IF i <= latestID THEN records[order[i]] ELSE None]
          /\ localID' = [e \in Event |->
                LET imported == {i \in 1 .. latestID :
                                    order[i] = e.id /\ records[e.id].event.root = e.root}
                IN  IF imported = {} THEN None ELSE CHOOSE i \in imported : TRUE]
    /\ pipe' = [k \in 0 .. 2 |-> {}]
    /\ query' = None
    /\ sequences' = {}
    /\ UNCHANGED <<emitted, time, inBlock, latestID>>

\* ExportGenesis writes the records with their local IDs; InitGenesis sets them
\* one by one, each under the next local ID, and takes the ID in the record for
\* that of its root chain.  Side transactions that wait for votes are never
\* tallied on the new chain.
ExportImport ==
    /\ ~ inBlock
    /\ \E order \in Exported :
          /\ records' = [i \in LocalID |-> IF i <= latestID THEN records[order[i]] ELSE None]
          /\ localID' = [e \in Event |->
                LET imported == {i \in 1 .. latestID :
                                    order[i] = e.id /\ records[e.id].event.root = e.root}
                IN  IF imported = {} THEN None ELSE CHOOSE i \in imported : TRUE]
    /\ pipe' = [k \in 0 .. 2 |-> {}]
    /\ query' = None
    /\ UNCHANGED <<emitted, time, inBlock, latestID, sequences>>

GenesisNext == Next \/ ExportImport

GenesisSpec == Init /\ [][GenesisNext]_vars

-----------------------------------------------------------------------------
(* Properties.                                                             *)

\* What the child chain may read, in the order of its IDs.
log == [i \in 1 .. latestID |-> records[i].event]

Events(l) == {l[i] : i \in DOMAIN l}

\* On one chain the log is append-only and without repetitions.  An import loses
\* no event and records none twice, although it loses local IDs and takes some
\* for those of other events; the order of the events is not kept.
LogKept ==
    [][\/ Log!Next
       \/ ExportImport /\ Len(log') = Len(log) /\ Events(log') = Events(log)]_log

\* "check if msg have been processed" (HasRootChainEventRecord in
\* clerk/keeper.go): the event of a root chain counts as recorded only if its
\* local record is that event.
ProcessedIsRecorded ==
    \A e \in Event :
        HasRootChainEventRecord(e) => records[localID[e]].event = e
===============================================================================
