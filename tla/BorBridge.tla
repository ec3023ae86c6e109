----------------------------- MODULE BorBridge -----------------------------
(* The span processor of a bridge and the broadcaster through which all the
   processors of the bridge send transactions of one account, together with the
   spans of module Bor.

   The broadcaster guesses the sequence of the account: it adds one for each
   transaction that passed CheckTx, and reads the committed sequence when one
   did not. The node has checked the transactions in its mempool, so that
   CheckTx wants the committed sequence plus their number. As sequences are
   only compared with one another, the guess is kept relative to the committed
   one. A block holds one transaction of the account, or none. *)
EXTENDS Bor, FiniteSets

CONSTANTS
  Other,        \* a message of another processor, or of the same key elsewhere
  Kinds,        \* kinds of events that happen a few times
  Limit,        \* bound: how often each kind happens
  MaxDrafts,    \* bound: goroutines of the span processor
  MaxMempool    \* bound: transactions of the account that wait for a block

ASSUME BridgeAssumption ==
  /\ Other \notin MsgProposeSpan
  /\ Kinds = {"message", "param", "fault"}
  /\ Limit \in [Kinds -> Nat]
  /\ MaxDrafts \in Nat /\ MaxMempool \in Nat

VARIABLES
  drafts,      \* the spans the goroutines propose; seed 0 until it is fetched
  mempool,     \* transactions of the account that passed CheckTx
  lastSeqNo,   \* the sequence the broadcaster uses next, from the committed one
  resync,      \* the broadcaster holds its lock and is to read the account
  left         \* how often each kind may still happen

broadcasterVars == <<drafts, mempool, lastSeqNo, resync, left>>
bridgeVars == <<borVars, broadcasterVars>>

BroadcasterTypeOK ==
  /\ drafts \subseteq MsgProposeSpan
  /\ lastSeqNo \in Int
  /\ mempool \in Seq(MsgProposeSpan \cup {Other})
  /\ resync \in BOOLEAN
  /\ left \in [Kinds -> Nat]

BridgeTypeOK == BorTypeOK /\ BroadcasterTypeOK

-----------------------------------------------------------------------------
BridgeInit ==
  /\ BorInit
  /\ drafts = {}
  /\ mempool = <<>>
  /\ lastSeqNo = 0
  /\ resync = FALSE
  /\ left = Limit

(* One of the bounded events. *)
Uses(kind) ==
  /\ left[kind] > 0
  /\ left' = [left EXCEPT ![kind] = @ - 1]

(* What CheckTx wants, from the committed sequence too. *)
CheckSequence == Len(mempool)

(* The poll reads the last span and what the next one would be. *)
CheckAndPropose ==
  /\ last < MaxSpans
  /\ Cardinality(drafts) < MaxDrafts
  /\ drafts' = drafts \cup {[id |-> last + 1, start |-> LastSpan.end + 1,
                             end |-> LastSpan.end + duration, seed |-> 0]}
  /\ UNCHANGED <<borVars, mempool, lastSeqNo, resync, left>>

(* The goroutine looks whether the span it follows is in turn, and fetches the
   seed; the last span may be another by then. *)
Propose(d) ==
  /\ d.seed = 0
  /\ drafts' = (drafts \ {d}) \cup
       (IF InTurn(spans[d.id - 1]) THEN {[d EXCEPT !.seed = lastEthBlock + 1]} ELSE {})
  /\ UNCHANGED <<borVars, mempool, lastSeqNo, resync, left>>

(* CheckTx lets the transaction in and the broadcaster learns of it. *)
BroadcastAccepted(m) ==
  /\ lastSeqNo = CheckSequence
  /\ mempool' = Append(mempool, m)
  /\ lastSeqNo' = lastSeqNo + 1
  /\ UNCHANGED <<resync>>

(* CheckTx refuses the sequence: the message is lost, the account is read. *)
BroadcastRefused ==
  /\ lastSeqNo # CheckSequence
  /\ resync' = TRUE
  /\ UNCHANGED <<lastSeqNo, mempool>>

(* The call fails, whether or not the transaction got in. *)
BroadcastFails(m) ==
  /\ Uses("fault")
  /\ \/ lastSeqNo = CheckSequence /\ mempool' = Append(mempool, m)
     \/ UNCHANGED mempool
  /\ resync' = TRUE
  /\ UNCHANGED lastSeqNo

BroadcastToHeimdall(m) ==
  /\ ~resync
  /\ Len(mempool) < MaxMempool
  /\ BroadcastAccepted(m) \/ BroadcastRefused

(* The goroutine of the draft d sends its message and ends. *)
BroadcastSpan(d) ==
  /\ d.seed # 0
  /\ drafts' = drafts \ {d}
  /\ BroadcastToHeimdall(d)
  /\ UNCHANGED <<borVars, left>>

BroadcastSpanFails(d) ==
  /\ d.seed # 0
  /\ ~resync /\ Len(mempool) < MaxMempool
  /\ drafts' = drafts \ {d}
  /\ BroadcastFails(d)
  /\ UNCHANGED borVars

(* Another processor of the bridge handles an event. *)
BroadcastOther ==
  /\ Uses("message")
  /\ BroadcastToHeimdall(Other)
  /\ UNCHANGED <<borVars, drafts>>

(* The same key signs a transaction without the broadcaster. *)
CliTx ==
  /\ Uses("message")
  /\ Len(mempool) < MaxMempool
  /\ mempool' = Append(mempool, Other)
  /\ UNCHANGED <<borVars, drafts, lastSeqNo, resync>>

(* Mutant: the sequence is not read. *)
FetchedSequence_Kept == lastSeqNo

FetchedSequence == 0

(* After a failure the broadcaster reads the account, still locked. *)
FetchAccount ==
  /\ resync
  /\ lastSeqNo' = FetchedSequence
  /\ resync' = FALSE
  /\ UNCHANGED <<borVars, drafts, mempool, left>>

(* It cannot, and keeps the sequence it has. *)
FetchAccountFails ==
  /\ resync
  /\ Uses("fault")
  /\ resync' = FALSE
  /\ UNCHANGED <<borVars, drafts, mempool, lastSeqNo>>

(* A block delivers the first transaction of the account; its sequence is spent
   even when the message fails, so that the guess is one less ahead. *)
Commit ==
  /\ mempool # <<>>
  /\ IF Head(mempool) = Other THEN UNCHANGED borVars
     ELSE HandleMsgProposeSpan(Head(mempool))
  /\ mempool' = Tail(mempool)
  /\ lastSeqNo' = lastSeqNo - 1
  /\ UNCHANGED <<drafts, resync, left>>

(* The node restarts: the transactions it had not passed on are lost. *)
NodeRestart ==
  /\ Uses("fault")
  /\ \E kept \in 0..(Len(mempool) - 1) : mempool' = SubSeq(mempool, 1, kept)
  /\ UNCHANGED <<borVars, drafts, lastSeqNo, resync>>

BridgeRestart ==
  /\ Uses("fault")
  /\ drafts' = {}
  /\ lastSeqNo' = 0
  /\ resync' = FALSE
  /\ UNCHANGED <<borVars, mempool>>

(* Another validator proposes a span, right but for its seed. *)
ForeignSpan(seed) ==
  /\ Uses("message")
  /\ last < MaxSpans
  /\ HandleMsgProposeSpan([id |-> last + 1, start |-> LastSpan.end + 1,
                           end |-> LastSpan.end + duration, seed |-> seed])
  /\ UNCHANGED <<drafts, mempool, lastSeqNo, resync>>

(* The validators vote what they find; too few of them answer. *)
Voted == \E i \in DOMAIN pipe : Vote(i, SideHandleMsgSpan(pipe[i].msg)) /\ UNCHANGED broadcasterVars

VoteFails ==
  /\ Uses("fault")
  /\ \E i \in DOMAIN pipe : Vote(i, FALSE)
  /\ UNCHANGED <<drafts, mempool, lastSeqNo, resync>>

Executed == PostHandleMsgEventSpan /\ UNCHANGED broadcasterVars

ChildBlock == BorBlock /\ UNCHANGED broadcasterVars

ParamChange ==
  /\ Uses("param")
  /\ \E d \in Durations : SetDuration(d)
  /\ UNCHANGED <<drafts, mempool, lastSeqNo, resync>>

BridgeNext ==
  \/ CheckAndPropose
  \/ \E d \in drafts : Propose(d) \/ BroadcastSpan(d) \/ BroadcastSpanFails(d)
  \/ BroadcastOther
  \/ CliTx
  \/ FetchAccount
  \/ FetchAccountFails
  \/ Commit
  \/ NodeRestart
  \/ BridgeRestart
  \/ \E seed \in {lastEthBlock + 1, lastEthBlock + 2} : ForeignSpan(seed)
  \/ Voted
  \/ VoteFails
  \/ Executed
  \/ ChildBlock
  \/ ParamChange

BridgeSpec == BridgeInit /\ [][BridgeNext]_bridgeVars

(* The ticker, the goroutines and the lock of the broadcaster make progress; so
   do the blocks of both chains and the votes. *)
BridgeFairSpec ==
  /\ BridgeSpec
  /\ WF_bridgeVars(CheckAndPropose)
  /\ WF_bridgeVars(\E d \in drafts : Propose(d))
  /\ WF_bridgeVars(\E d \in drafts : BroadcastSpan(d))
  /\ WF_bridgeVars(FetchAccount)
  /\ WF_bridgeVars(Commit)
  /\ WF_bridgeVars(Voted)
  /\ WF_bridgeVars(Executed)
  /\ WF_bridgeVars(ChildBlock)

-----------------------------------------------------------------------------
(* The child chain does not come to rest: whenever it has used up its spans,
   another is given out, although the broadcaster loses the message whenever
   its guess of the sequence is wrong
   (bridge/setu/broadcaster/broadcaster.go:87-111, bridge/setu/processor/span.go). *)
BorRunsOn ==
  head = LastSpan.end ~> (head < LastSpan.end \/ last = MaxSpans)
=============================================================================
