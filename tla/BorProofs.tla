----------------------------- MODULE BorProofs -----------------------------
(* What is proved of the child chain's part of the system. First modules Bor and
   BorBridge: the spans, for any messages, any durations and any order of votes
   and post handlers. Then modules ValidatorSet and Producers, the validators
   that the producers of spans are chosen from: the set, its powers, its
   priorities and its newcomers, for every set of signers, genesis, maximum of the
   power and number of epochs, then the choice and the shuffle, for every range of
   random numbers and every hash. *)
EXTENDS BorBridge, Producers, InductionTheorems, FunctionTheorems, TLAPS

(* A waiting span is one of those stored, or follows the last one; in this case
   an approval means that its seed is the next and its predecessor in use. *)
Follows(entry, sp, n, hd) ==
  /\ entry.msg.id \in 1..(n + 1)
  /\ entry.msg.id = n + 1 =>
       /\ entry.msg.start = sp[n].end + 1
       /\ entry.msg.start <= entry.msg.end
       /\ entry.vote = "Yes" => entry.msg.seed = n + 1 /\ sp[n].start <= hd

PipeFollows == \A i \in DOMAIN pipe : Follows(pipe[i], spans, last, head)

BorInv == BorTypeOK /\ SpansInOrder /\ PipeFollows /\ OneSpanAhead

Entry == [msg : MsgProposeSpan, vote : Votes]

-----------------------------------------------------------------------------
(* The invariant of the spans holds at the start and is kept by every step. *)

LEMMA InitBorInv == BorInit => BorInv
<1> SUFFICES ASSUME BorInit PROVE BorInv
  OBVIOUS
<1> USE BorAssumption DEF BorInit
<1>1. DOMAIN spans = {0} /\ spans[0] = [start |-> 0, end |-> FirstEnd, seed |-> 0]
  OBVIOUS
<1>2. BorTypeOK
  BY <1>1 DEF BorTypeOK, Span
<1>3. SpansInOrder /\ PipeFollows /\ OneSpanAhead
  BY <1>1 DEF SpansInOrder, PipeFollows, OneSpanAhead
<1> QED BY <1>2, <1>3 DEF BorInv

LEMMA HandleMsgKeepsInv ==
  ASSUME BorInv, NEW m \in MsgProposeSpan, HandleMsgProposeSpan(m)
  PROVE  BorInv'
<1>1. UNCHANGED <<spans, last, lastEthBlock, duration, head>>
  BY DEF HandleMsgProposeSpan
<1>2. CASE Continues(m)
  <2> DEFINE entry == [msg |-> m, vote |-> "None"]
  <2>1. pipe' = Append(pipe, entry) /\ pipe \in Seq(Entry) /\ entry \in Entry
    BY <1>2 DEF HandleMsgProposeSpan, BorInv, BorTypeOK, Entry, Votes
  <2>2. Follows(entry, spans, last, head)
    <3>1. last \in Nat
      BY DEF BorInv, BorTypeOK
    <3> QED BY <1>2, <3>1 DEF Follows, Continues, LastSpan
  <2> HIDE DEF entry
  <2>3. \A i \in DOMAIN pipe' : pipe'[i] = entry \/ (i \in DOMAIN pipe /\ pipe'[i] = pipe[i])
    BY <2>1
  <2>4. PipeFollows'
    BY <1>1, <2>2, <2>3 DEF BorInv, PipeFollows
  <2>5. pipe' \in Seq(Entry)
    BY <2>1
  <2>6. BorTypeOK'
    BY <1>1, <2>5 DEF BorInv, BorTypeOK, Entry
  <2> QED BY <1>1, <2>4, <2>6 DEF BorInv, SpansInOrder, OneSpanAhead
<1>3. CASE ~Continues(m)
  BY <1>1, <1>3 DEF HandleMsgProposeSpan, BorInv, BorTypeOK, SpansInOrder, PipeFollows,
                    OneSpanAhead
<1> QED BY <1>2, <1>3

LEMMA VoteKeepsInv ==
  ASSUME BorInv, NEW i \in DOMAIN pipe, NEW approved \in BOOLEAN, Vote(i, approved)
  PROVE  BorInv'
<1> DEFINE entry == [msg |-> pipe[i].msg, vote |-> IF approved THEN "Yes" ELSE "No"]
<1>1. UNCHANGED <<spans, last, lastEthBlock, duration, head>>
  BY DEF Vote
<1>2. pipe \in Seq(Entry) /\ last \in Nat /\ lastEthBlock = last
  BY DEF BorInv, BorTypeOK, Entry, SpansInOrder
<1>3. entry \in Entry
  <2>1. pipe[i] \in Entry
    BY <1>2
  <2>2. pipe[i].msg \in MsgProposeSpan
    BY <2>1 DEF Entry
  <2> QED BY <2>2 DEF Entry, Votes
<1>4. Follows(entry, spans, last, head)
  <2>1. Follows(pipe[i], spans, last, head)
    BY DEF BorInv, PipeFollows
  <2>2. approved => pipe[i].msg.seed = last + 1 /\ spans[last].start <= head
    BY <1>2 DEF Vote, SideHandleMsgSpan, InTurn, LastSpan
  <2> QED BY <2>1, <2>2 DEF Follows
<1>5. pipe' = [pipe EXCEPT ![i] = entry]
  BY DEF Vote
<1> HIDE DEF entry
<1>6. pipe' \in Seq(Entry) /\ DOMAIN pipe' = DOMAIN pipe
      /\ \A j \in DOMAIN pipe : pipe'[j] = IF j = i THEN entry ELSE pipe[j]
  BY <1>2, <1>3, <1>5
<1>7. PipeFollows'
  BY <1>1, <1>4, <1>6 DEF BorInv, PipeFollows
<1>8. BorTypeOK'
  BY <1>1, <1>6 DEF BorInv, BorTypeOK, Entry
<1> QED BY <1>1, <1>7, <1>8 DEF BorInv, SpansInOrder, OneSpanAhead

LEMMA PostKeepsInv ==
  ASSUME BorInv, PostHandleMsgEventSpan
  PROVE  BorInv'
<1> DEFINE entry == Head(pipe)
<1>1. /\ pipe # <<>> /\ pipe' = Tail(pipe) /\ pipe \in Seq(Entry)
      /\ UNCHANGED <<duration, head>>
  BY DEF PostHandleMsgEventSpan, BorInv, BorTypeOK, Entry
<1>2. entry \in Entry /\ Follows(entry, spans, last, head) /\ pipe' \in Seq(Entry)
  BY <1>1 DEF BorInv, PipeFollows
<1>3. \A j \in DOMAIN pipe' : j + 1 \in DOMAIN pipe /\ pipe'[j] = pipe[j + 1]
  BY <1>1
<1>4. last \in Nat /\ DOMAIN spans = 0..last /\ lastEthBlock = last
  BY DEF BorInv, BorTypeOK, SpansInOrder
<1>5. CASE entry.vote = "Yes" /\ ~HasSpan(entry.msg.id)
  <2> DEFINE span == [start |-> entry.msg.start, end |-> entry.msg.end, seed |-> entry.msg.seed]
  <2>1. FreezeSet(entry.msg)
    BY <1>5 DEF PostHandleMsgEventSpan
  <2>2. entry.msg.id = last + 1
    BY <1>2, <1>4, <1>5 DEF HasSpan, Follows
  <2>3. last' = last + 1 /\ lastEthBlock' = last + 1
    BY <1>4, <2>1, <2>2 DEF FreezeSet
  <2>4. spans' = [id \in DOMAIN spans \cup {last + 1} |->
                    IF id = last + 1 THEN span ELSE spans[id]]
    BY <2>1, <2>2 DEF FreezeSet
  <2>5. DOMAIN spans' = 0..(last + 1)
    BY <1>4, <2>4
  <2>6. spans'[last + 1] = span /\ \A id \in 0..last : spans'[id] = spans[id]
    BY <1>4, <2>4
  <2>7. span \in Span
    BY <1>2 DEF Span, Entry, MsgProposeSpan
  <2>8. /\ span.start = spans[last].end + 1 /\ span.start <= span.end
        /\ span.seed = last + 1 /\ spans[last].start <= head
    BY <1>2, <1>5, <2>2 DEF Follows
  <2> HIDE DEF span, entry
  <2>9. BorTypeOK'
    <3>1. \A id \in DOMAIN spans' : spans'[id] \in Span
      BY <1>4, <2>5, <2>6, <2>7 DEF BorInv, BorTypeOK
    <3>2. DOMAIN spans' \subseteq Nat /\ last' \in Nat /\ lastEthBlock' \in Nat
      BY <1>4, <2>3, <2>5
    <3> QED BY <1>1, <1>2, <3>1, <3>2 DEF BorInv, BorTypeOK, Entry
  <2>10. SpansInOrder'
    <3> SUFFICES ASSUME NEW id \in 1..(last + 1)
                 PROVE  /\ spans'[id].start = spans'[id - 1].end + 1
                        /\ spans'[id].start <= spans'[id].end
                        /\ spans'[id].seed = id
      BY <2>3, <2>5 DEF SpansInOrder
    <3>1. CASE id = last + 1
      <4>1. id - 1 = last /\ last \in 0..last
        BY <1>4, <3>1
      <4> QED BY <2>6, <2>8, <3>1, <4>1
    <3>2. CASE id # last + 1
      <4>1. id \in 1..last /\ id \in 0..last /\ id - 1 \in 0..last
        BY <1>4, <3>2
      <4> QED BY <2>6, <4>1 DEF BorInv, SpansInOrder
    <3> QED BY <3>1, <3>2
  <2>11. PipeFollows'
    <3> SUFFICES ASSUME NEW j \in DOMAIN pipe' PROVE Follows(pipe'[j], spans', last', head')
      BY DEF PipeFollows
    <3>1. Follows(pipe[j + 1], spans, last, head) /\ pipe'[j] = pipe[j + 1]
      BY <1>3 DEF BorInv, PipeFollows
    <3>2. pipe'[j].msg.id \in 1..(last + 1)
      BY <3>1 DEF Follows
    <3> QED BY <1>4, <2>3, <3>2 DEF Follows
  <2>12. OneSpanAhead'
    <3>1. last' - 1 = last /\ last \in 0..last
      BY <1>4, <2>3
    <3> QED BY <1>1, <2>6, <2>8, <3>1 DEF OneSpanAhead
  <2> QED BY <2>9, <2>10, <2>11, <2>12 DEF BorInv
<1>6. CASE ~(entry.vote = "Yes" /\ ~HasSpan(entry.msg.id))
  <2>1. UNCHANGED <<spans, last, lastEthBlock>>
    BY <1>6 DEF PostHandleMsgEventSpan
  <2>2. PipeFollows'
    <3> SUFFICES ASSUME NEW j \in DOMAIN pipe' PROVE Follows(pipe'[j], spans', last', head')
      BY DEF PipeFollows
    <3>1. Follows(pipe[j + 1], spans, last, head) /\ pipe'[j] = pipe[j + 1]
      BY <1>3 DEF BorInv, PipeFollows
    <3> QED BY <1>1, <2>1, <3>1
  <2>3. BorTypeOK'
    BY <1>1, <1>2, <2>1 DEF BorInv, BorTypeOK, Entry
  <2> QED BY <1>1, <2>1, <2>2, <2>3 DEF BorInv, SpansInOrder, OneSpanAhead
<1> QED BY <1>5, <1>6

LEMMA BorBlockKeepsInv ==
  ASSUME BorInv, BorBlock
  PROVE  BorInv'
<1>1. UNCHANGED <<spans, last, lastEthBlock, duration, pipe>>
  BY DEF BorBlock
<1>2. head \in Nat /\ head' = head + 1 /\ last \in Nat /\ DOMAIN spans = 0..last
  BY DEF BorBlock, BorInv, BorTypeOK, SpansInOrder
<1>3. BorTypeOK' /\ SpansInOrder'
  BY <1>1, <1>2 DEF BorInv, BorTypeOK, SpansInOrder
<1>4. spans[last].start \in Nat /\ (last > 0 => spans[last - 1].start \in Nat)
  <2>1. last \in DOMAIN spans /\ (last > 0 => last - 1 \in DOMAIN spans)
    BY <1>2
  <2> QED BY <2>1 DEF BorInv, BorTypeOK, Span
<1>5. PipeFollows'
  BY <1>1, <1>2, <1>4 DEF BorInv, PipeFollows, Follows
<1>6. OneSpanAhead'
  BY <1>1, <1>2, <1>4 DEF BorInv, OneSpanAhead
<1> QED BY <1>3, <1>5, <1>6 DEF BorInv

LEMMA BorInvStep == BorInv /\ [BorNext]_borVars => BorInv'
<1> SUFFICES ASSUME BorInv, [BorNext]_borVars PROVE BorInv'
  OBVIOUS
<1>1. ASSUME NEW d \in Durations, SetDuration(d) PROVE BorInv'
  BY <1>1 DEF SetDuration, BorInv, BorTypeOK, SpansInOrder, PipeFollows, OneSpanAhead
<1>2. CASE UNCHANGED borVars
  BY <1>2 DEF borVars, BorInv, BorTypeOK, SpansInOrder, PipeFollows, OneSpanAhead
<1> QED
  BY <1>1, <1>2, HandleMsgKeepsInv, VoteKeepsInv, PostKeepsInv, BorBlockKeepsInv DEF BorNext

(* The span module alone, whatever is proposed: spans tile the child blocks and
   use one seed after the other (bor/side_handler.go:100-146). *)
THEOREM BorSpansInOrder == BorSpec => []SpansInOrder
<1>1. BorInv => SpansInOrder
  BY DEF BorInv
<1> QED BY InitBorInv, BorInvStep, <1>1, PTL DEF BorSpec

(* No span is given out before the child chain is in the one before it
   (bor/side_handler.go:81-94). *)
THEOREM BorOneSpanAhead == BorSpec => []OneSpanAhead
<1>1. BorInv => OneSpanAhead
  BY DEF BorInv
<1> QED BY InitBorInv, BorInvStep, <1>1, PTL DEF BorSpec

-----------------------------------------------------------------------------
(* What the bridge does to the spans is what module Bor allows. *)
LEMMA BridgeStep == BorInv /\ BroadcasterTypeOK /\ [BridgeNext]_bridgeVars => [BorNext]_borVars
<1> SUFFICES ASSUME BorInv, BroadcasterTypeOK, [BridgeNext]_bridgeVars PROVE [BorNext]_borVars
  OBVIOUS
<1>1. CASE Commit
  <2>1. CASE Head(mempool) = Other
    BY <1>1, <2>1 DEF Commit
  <2>2. CASE Head(mempool) # Other
    <3>1. Head(mempool) \in MsgProposeSpan
      BY <1>1, <2>2 DEF Commit, BroadcasterTypeOK
    <3> QED BY <1>1, <2>2, <3>1 DEF Commit, BorNext
  <2> QED BY <2>1, <2>2
<1>2. ASSUME NEW seed \in {lastEthBlock + 1, lastEthBlock + 2}, ForeignSpan(seed)
      PROVE  BorNext
  <2> DEFINE m == [id |-> last + 1, start |-> LastSpan.end + 1,
                   end |-> LastSpan.end + duration, seed |-> seed]
  <2>1. m \in MsgProposeSpan
    <3>1. last \in Nat /\ last \in DOMAIN spans /\ lastEthBlock \in Nat /\ duration \in Nat
      BY BorAssumption DEF BorInv, BorTypeOK, SpansInOrder
    <3>2. LastSpan.end \in Nat
      BY <3>1 DEF BorInv, BorTypeOK, Span, LastSpan
    <3> QED BY <3>1, <3>2 DEF MsgProposeSpan
  <2> QED BY <1>2, <2>1 DEF ForeignSpan, BorNext
<1>3. CASE Voted \/ VoteFails
  <2>1. PICK i \in DOMAIN pipe, approved \in BOOLEAN : Vote(i, approved)
    <3>1. \A i : SideHandleMsgSpan(pipe[i].msg) \in BOOLEAN
      BY DEF SideHandleMsgSpan
    <3> QED BY <1>3, <3>1 DEF Voted, VoteFails
  <2> QED BY <2>1 DEF BorNext
<1>4. CASE Executed \/ ChildBlock \/ ParamChange
  BY <1>4 DEF Executed, ChildBlock, ParamChange, BorNext
<1>5. ASSUME NEW d \in drafts, Propose(d) \/ BroadcastSpan(d) \/ BroadcastSpanFails(d)
      PROVE  UNCHANGED borVars
  BY <1>5 DEF Propose, BroadcastSpan, BroadcastSpanFails
<1>6. CASE \/ CheckAndPropose \/ BroadcastOther \/ CliTx \/ FetchAccount \/ FetchAccountFails
           \/ NodeRestart \/ BridgeRestart
  BY <1>6 DEF CheckAndPropose, BroadcastOther, CliTx, FetchAccount, FetchAccountFails,
              NodeRestart, BridgeRestart
<1>7. CASE UNCHANGED bridgeVars
  BY <1>7 DEF bridgeVars
<1> QED BY <1>1, <1>2, <1>3, <1>4, <1>5, <1>6, <1>7 DEF BridgeNext

(* A draft, or a message of another processor, fits into the mempool. *)
LEMMA MempoolAppend ==
  ASSUME BroadcasterTypeOK, NEW m \in MsgProposeSpan \cup {Other}
  PROVE  Append(mempool, m) \in Seq(MsgProposeSpan \cup {Other})
BY DEF BroadcasterTypeOK

(* Sending a message keeps the types of the mempool and the broadcaster. *)
LEMMA BroadcastTypes ==
  ASSUME BroadcasterTypeOK, NEW m \in MsgProposeSpan \cup {Other}
  PROVE  /\ BroadcastToHeimdall(m) =>
              /\ mempool' \in Seq(MsgProposeSpan \cup {Other})
              /\ lastSeqNo' \in Int /\ resync' \in BOOLEAN
         /\ BroadcastFails(m) =>
              /\ mempool' \in Seq(MsgProposeSpan \cup {Other})
              /\ lastSeqNo' \in Int /\ resync' \in BOOLEAN
              /\ Uses("fault")
<1>1. Append(mempool, m) \in Seq(MsgProposeSpan \cup {Other})
  BY MempoolAppend
<1>2. /\ mempool \in Seq(MsgProposeSpan \cup {Other})
      /\ lastSeqNo \in Int /\ resync \in BOOLEAN
  BY DEF BroadcasterTypeOK
<1>3. lastSeqNo + 1 \in Int
  BY <1>2
<1>4. ASSUME BroadcastAccepted(m)
      PROVE  /\ mempool' \in Seq(MsgProposeSpan \cup {Other})
             /\ lastSeqNo' \in Int /\ resync' \in BOOLEAN
  BY <1>1, <1>2, <1>3, <1>4, Zenon DEF BroadcastAccepted
<1>5. ASSUME BroadcastRefused
      PROVE  /\ mempool' \in Seq(MsgProposeSpan \cup {Other})
             /\ lastSeqNo' \in Int /\ resync' \in BOOLEAN
  BY <1>2, <1>5, Zenon DEF BroadcastRefused
<1>6. ASSUME BroadcastFails(m)
      PROVE  /\ mempool' \in Seq(MsgProposeSpan \cup {Other})
             /\ lastSeqNo' \in Int /\ resync' \in BOOLEAN
             /\ Uses("fault")
  BY <1>1, <1>2, <1>6, Zenon DEF BroadcastFails
<1> QED BY <1>4, <1>5, <1>6 DEF BroadcastToHeimdall

LEMMA BridgeTypeStep == BorInv /\ BroadcasterTypeOK /\ [BridgeNext]_bridgeVars => BroadcasterTypeOK'
<1> SUFFICES ASSUME BorInv, BroadcasterTypeOK, [BridgeNext]_bridgeVars PROVE BroadcasterTypeOK'
  OBVIOUS
<1> USE DEF BroadcasterTypeOK
<1>1. /\ last \in Nat /\ last \in DOMAIN spans /\ lastEthBlock \in Nat /\ duration \in Nat
      /\ LastSpan.end \in Nat
  <2>1. last \in Nat /\ last \in DOMAIN spans /\ lastEthBlock \in Nat /\ duration \in Nat
    BY BorAssumption DEF BorInv, BorTypeOK, SpansInOrder
  <2> QED BY <2>1 DEF BorInv, BorTypeOK, Span, LastSpan
<1>2. ASSUME NEW kind \in Kinds, Uses(kind) PROVE left' \in [Kinds -> Nat]
  BY <1>2 DEF Uses
<1>3. "message" \in Kinds /\ "param" \in Kinds /\ "fault" \in Kinds
  BY BridgeAssumption
<1>4. CASE CheckAndPropose
  <2>1. [id |-> last + 1, start |-> LastSpan.end + 1, end |-> LastSpan.end + duration,
         seed |-> 0] \in MsgProposeSpan
    BY <1>1 DEF MsgProposeSpan
  <2> QED BY <1>4, <2>1 DEF CheckAndPropose
<1>5. ASSUME NEW d \in drafts, Propose(d) PROVE BroadcasterTypeOK'
  <2>1. [d EXCEPT !.seed = lastEthBlock + 1] \in MsgProposeSpan
    BY <1>1 DEF MsgProposeSpan
  <2> QED BY <1>5, <2>1 DEF Propose
<1>6. ASSUME NEW d \in drafts, BroadcastSpan(d) PROVE BroadcasterTypeOK'
  BY <1>6, BroadcastTypes DEF BroadcastSpan
<1>7. ASSUME NEW d \in drafts, BroadcastSpanFails(d) PROVE BroadcasterTypeOK'
  BY <1>2, <1>3, <1>7, BroadcastTypes DEF BroadcastSpanFails
<1>8. CASE BroadcastOther
  BY <1>2, <1>3, <1>8, BroadcastTypes DEF BroadcastOther
<1>9. CASE CliTx
  BY <1>2, <1>3, <1>9 DEF CliTx
<1>10. CASE FetchAccount
  <2>1. resync' \in BOOLEAN /\ UNCHANGED <<drafts, mempool, left>> /\ lastSeqNo' = 0
    BY <1>10, Zenon DEF FetchAccount, FetchedSequence
  <2>2. 0 \in Int
    OBVIOUS
  <2> QED BY <2>1, <2>2, Zenon
<1>16. CASE FetchAccountFails
  BY <1>2, <1>3, <1>16 DEF FetchAccountFails
<1>17. CASE BridgeRestart
  <2>1. resync' \in BOOLEAN /\ UNCHANGED mempool /\ lastSeqNo' = 0 /\ drafts' = {}
    BY <1>17, Zenon DEF BridgeRestart
  <2>2. 0 \in Int /\ {} \subseteq MsgProposeSpan
    OBVIOUS
  <2>3. left' \in [Kinds -> Nat]
    BY <1>2, <1>3, <1>17 DEF BridgeRestart
  <2> QED BY <2>1, <2>2, <2>3, Zenon
<1>11. CASE Commit
  BY <1>11 DEF Commit
<1>12. CASE NodeRestart
  <2>1. PICK kept \in 0..(Len(mempool) - 1) : mempool' = SubSeq(mempool, 1, kept)
    BY <1>12 DEF NodeRestart
  <2>2. mempool' \in Seq(MsgProposeSpan \cup {Other})
    BY <2>1
  <2> QED BY <1>2, <1>3, <1>12, <2>2 DEF NodeRestart
<1>13. ASSUME NEW seed, ForeignSpan(seed) PROVE BroadcasterTypeOK'
  BY <1>2, <1>3, <1>13 DEF ForeignSpan
<1>14. CASE VoteFails \/ ParamChange
  BY <1>2, <1>3, <1>14 DEF VoteFails, ParamChange
<1>15. CASE Voted \/ Executed \/ ChildBlock \/ UNCHANGED bridgeVars
  BY <1>15 DEF Voted, Executed, ChildBlock, bridgeVars, broadcasterVars
<1> QED BY <1>4, <1>5, <1>6, <1>7, <1>8, <1>9, <1>10, <1>11, <1>12, <1>13, <1>14, <1>15,
           <1>16, <1>17 DEF BridgeNext

LEMMA BridgeInitInv == BridgeInit => BorInv /\ BroadcasterTypeOK
<1> SUFFICES ASSUME BridgeInit PROVE BorInv /\ BroadcasterTypeOK
  OBVIOUS
<1>1. BorInv
  BY InitBorInv DEF BridgeInit
<1>2. mempool = <<>> /\ <<>> \in Seq(MsgProposeSpan \cup {Other})
  BY DEF BridgeInit
<1>3. resync \in BOOLEAN /\ drafts = {} /\ lastSeqNo = 0 /\ left = Limit
  BY Zenon DEF BridgeInit
<1>4. 0 \in Int /\ {} \subseteq MsgProposeSpan
  OBVIOUS
<1>5. BroadcasterTypeOK
  BY <1>2, <1>3, <1>4, BridgeAssumption, Zenon DEF BroadcasterTypeOK
<1> QED BY <1>1, <1>5

LEMMA BridgeInvStep ==
  BorInv /\ BroadcasterTypeOK /\ [BridgeNext]_bridgeVars => BorInv' /\ BroadcasterTypeOK'
BY BridgeStep, BorInvStep, BridgeTypeStep

(* All variables of the spans and of the bridge keep their types. *)
THEOREM TypeCorrect == BridgeSpec => []BridgeTypeOK
<1>1. BorInv /\ BroadcasterTypeOK => BridgeTypeOK
  BY DEF BorInv, BridgeTypeOK
<1> QED BY BridgeInitInv, BridgeInvStep, <1>1, PTL DEF BridgeSpec

(* The bridge with its drafts, its mempool and its guesses of the sequence does
   to the spans nothing that the span module does not allow
   (bridge/setu/processor/span.go:83-118). *)
THEOREM ImplementsBor == BridgeSpec => BorSpec
<1>1. BridgeInit => BorInit
  BY DEF BridgeInit
<1> QED BY BridgeInitInv, BridgeInvStep, BridgeStep, <1>1, PTL DEF BridgeSpec, BorSpec

(* With the bridge too the spans are in order and at most one ahead of the
   child chain. *)
THEOREM BridgeSpansOK == BridgeSpec => [](SpansInOrder /\ OneSpanAhead)
<1>1. BorInv => SpansInOrder /\ OneSpanAhead
  BY DEF BorInv
<1> QED BY BridgeInitInv, BridgeInvStep, <1>1, PTL DEF BridgeSpec

-----------------------------------------------------------------------------
(* The validator set. It is the current validators' after each block whose
   updates were accepted, and Tendermint has the same; a rotation centres the
   priorities and brings them together whatever they were, so that only the
   types have to be carried from one step to the next. *)

\* A validator set of the model, whatever its priorities.
IsValidatorSet(vals) ==
    /\ vals = [power |-> vals.power, priority |-> vals.priority,
               proposer |-> vals.proposer]
    /\ vals.power \in [DOMAIN vals.power -> Nat \ {0}]

WellFormed(vals) ==
    /\ IsValidatorSet(vals)
    /\ Members(vals) \subseteq Signer
    /\ Members(vals) # {}
    /\ vals.priority \in [Members(vals) -> Int]

Balanced(vals) ==
    /\ SumFunction(vals.priority) \in 0 .. Cardinality(Members(vals)) - 1
    /\ Spread(vals) <= (PriorityWindowSizeFactor + 1) * TotalVotingPower(vals)

\* A record of the staking store.
RecordsInv ==
    /\ DOMAIN validators \subseteq Signer
    /\ validators \in [DOMAIN validators -> Record]
    /\ bound \subseteq DOMAIN validators
    /\ \A s \in DOMAIN validators \ bound : validators[s].power = 0
    /\ ackCount \in 0 .. MaxAckCount
    /\ inBlock \in BOOLEAN /\ refused \in BOOLEAN

\* A set as the store keeps it between blocks: members have a record, so that
\* none can be missed when updates are made, and updates were never too many.
MembersInv ==
    /\ WellFormed(set)
    /\ Balanced(set)
    /\ Members(set) \subseteq DOMAIN validators
    /\ set.proposer \in Members(set)
    /\ TotalVotingPower(set) <= MaxTotalVotingPower

IInv ==
    /\ RecordsInv
    /\ MembersInv
    /\ ConsensusAgrees
    /\ SetIsCurrent

\* A rotation keeps the members and their power.
LEMMA RotationKeepsPower ==
    ASSUME NEW vals, IsValidatorSet(vals)
    PROVE  /\ IsValidatorSet(IncrementProposerPriority(vals))
           /\ IncrementProposerPriority(vals).power = vals.power
<1>1. ASSUME NEW p, NEW m
      PROVE  IsValidatorSet([power |-> vals.power, priority |-> p, proposer |-> m])
  BY DEF IsValidatorSet
<1> QED
  BY <1>1 DEF IncrementProposerPriority

\* An update gives the set the powers that Applied computes.
LEMMA UpdateAppliesChanges ==
    ASSUME NEW vals, IsValidatorSet(vals),
           NEW changes, changes \in [DOMAIN changes -> Nat]
    PROVE  /\ IsValidatorSet(UpdateWithChangeSet(vals, changes))
           /\ UpdateWithChangeSet(vals, changes).power
                = Applied(vals.power, changes)
<1> DEFINE power == Applied(vals.power, changes)
<1>1. power \in [DOMAIN power -> Nat \ {0}]
  BY DEF Applied, Updates, Removals, IsValidatorSet
<1>2. ASSUME NEW p
      PROVE  IsValidatorSet([power |-> power, priority |-> p,
                             proposer |-> vals.proposer])
  BY <1>1 DEF IsValidatorSet
<1>3. ASSUME NEW v, IsValidatorSet(v)
      PROVE  /\ IsValidatorSet(RescalePriorities(v))
             /\ RescalePriorities(v).power = v.power
  BY <1>3 DEF RescalePriorities, IsValidatorSet
<1>4. ASSUME NEW v, IsValidatorSet(v)
      PROVE  /\ IsValidatorSet(ShiftByAvgProposerPriority(v))
             /\ ShiftByAvgProposerPriority(v).power = v.power
  BY <1>4 DEF ShiftByAvgProposerPriority, IsValidatorSet
<1> HIDE DEF power
<1> QED
  BY <1>2, <1>3, <1>4 DEF UpdateWithChangeSet, power

LEMMA MaxOfInts ==
  ASSUME NEW S, IsFiniteSet(S), S \subseteq Int, S # {}
  PROVE  Max(S) \in S /\ \A y \in S : Max(S) >= y
<1> DEFINE R == {p \in Int \X Int : p[1] >= p[2]}
<1>1. \A x, y \in S : <<x, y>> \in R <=> x >= y
  OBVIOUS
<1>2. \A x, y \in S : <<x, y>> \in R \/ <<y, x>> \in R
  <2>1. \A x, y \in Int : x >= y \/ y >= x
    OBVIOUS
  <2> QED BY <1>1, <2>1
<1>3. \A x, y, z \in S : <<x, y>> \in R /\ <<y, z>> \in R => <<x, z>> \in R
  BY <1>1
<1> HIDE DEF R
<1>4. \E x \in S : \A y \in S : <<x, y>> \in R
  BY <1>2, <1>3, FiniteFirst
<1>5. \E x \in S : \A y \in S : x >= y
  BY <1>1, <1>4
<1> QED BY <1>5 DEF Max

LEMMA MinOfInts ==
  ASSUME NEW S, IsFiniteSet(S), S \subseteq Int, S # {}
  PROVE  Min(S) \in S /\ \A y \in S : Min(S) <= y
<1> DEFINE R == {p \in Int \X Int : p[1] <= p[2]}
<1>1. \A x, y \in S : <<x, y>> \in R <=> x <= y
  OBVIOUS
<1>2. \A x, y \in S : <<x, y>> \in R \/ <<y, x>> \in R
  <2>1. \A x, y \in Int : x >= y \/ y >= x
    OBVIOUS
  <2> QED BY <1>1, <2>1
<1>3. \A x, y, z \in S : <<x, y>> \in R /\ <<y, z>> \in R => <<x, z>> \in R
  BY <1>1
<1> HIDE DEF R
<1>4. \E x \in S : \A y \in S : <<x, y>> \in R
  BY <1>2, <1>3, FiniteFirst
<1>5. \E x \in S : \A y \in S : x <= y
  BY <1>1, <1>4
<1> QED BY <1>5 DEF Min

LEMMA SumIsLibrary ==
  ASSUME NEW f
  PROVE  SumFunction(f) = SumFunctionOnSet(f, DOMAIN f)
BY DEF SumFunction

LEMMA RangeFinite ==
  ASSUME NEW f, IsFiniteSet(DOMAIN f), DOMAIN f # {}, \A s \in DOMAIN f : f[s] \in Int
  PROVE  /\ Max(Range(f)) \in Int /\ Min(Range(f)) \in Int
         /\ \E s \in DOMAIN f : f[s] = Max(Range(f))
         /\ \E s \in DOMAIN f : f[s] = Min(Range(f))
         /\ \A s \in DOMAIN f : Min(Range(f)) <= f[s] /\ f[s] <= Max(Range(f))
<1>1. Range(f) = {f[s] : s \in DOMAIN f}
  BY DEF Range
<1>2. IsFiniteSet({f[s] : s \in DOMAIN f})
  <2> DEFINE g == [s \in DOMAIN f |-> f[s]]
  <2>1. g \in Surjection(DOMAIN f, {f[s] : s \in DOMAIN f})
    BY DEF Surjection
  <2> QED BY <2>1, FS_Surjection
<1>3. IsFiniteSet(Range(f)) /\ Range(f) \subseteq Int /\ Range(f) # {}
  BY <1>1, <1>2
<1>4. /\ Max(Range(f)) \in Range(f) /\ \A y \in Range(f) : Max(Range(f)) >= y
      /\ Min(Range(f)) \in Range(f) /\ \A y \in Range(f) : Min(Range(f)) <= y
  BY <1>3, MaxOfInts, MinOfInts
<1> QED BY <1>1, <1>3, <1>4

LEMMA Multiples ==
  ASSUME NEW r \in Nat, r > 0, NEW x \in Int, NEW y \in Int, r * x < r * y
  PROVE  x < y
<1> SUFFICES ASSUME x >= y PROVE FALSE
  OBVIOUS
<1>1. x - y >= 0
  OBVIOUS
<1>2. r * (x - y) >= 0
  BY <1>1
<1>3. r * (x - y) = r * x - r * y
  OBVIOUS
<1> QED BY <1>2, <1>3

LEMMA DivRest ==
  ASSUME NEW a \in Int, NEW r \in Nat, r > 0
  PROVE  /\ a \div r \in Int
         /\ r * (a \div r) <= a
         /\ a < r * (a \div r) + r
<1>1. a \div r \in Int /\ a % r \in 0 .. r - 1 /\ a = r * (a \div r) + (a % r)
  OBVIOUS
<1> QED BY <1>1

LEMMA QuotientRest ==
  ASSUME NEW a \in Int, NEW r \in Nat, r > 0
  PROVE  /\ Quotient(a, r) \in Int
         /\ a >= 0 => /\ r * Quotient(a, r) <= a /\ a < r * Quotient(a, r) + r
                      /\ Quotient(a, r) >= 0
         /\ a < 0 => /\ a <= r * Quotient(a, r) /\ r * Quotient(a, r) - r < a
                     /\ Quotient(a, r) <= 0
<1> DEFINE p == a \div r
           n == (-a) \div r
<1>1. p \in Int /\ r * p <= a /\ a < r * p + r
  BY DivRest
<1>2. n \in Int /\ r * n <= -a /\ -a < r * n + r
  BY DivRest
<1>3. Quotient(a, r) = IF a >= 0 THEN p ELSE -n
  BY DEF Quotient
<1> HIDE DEF p, n
<1>4. CASE a >= 0
  <2>1. r * (-1) < r * p
    BY <1>1, <1>4
  <2>2. -1 < p
    BY <1>1, <2>1, Multiples
  <2> QED BY <1>1, <1>3, <1>4, <2>2
<1>5. CASE a < 0
  <2>1. r * (-1) < r * n
    BY <1>2, <1>5
  <2>2. -1 < n
    BY <1>2, <2>1, Multiples
  <2>3. r * (-n) = -(r * n)
    BY <1>2
  <2> QED BY <1>2, <1>3, <1>5, <2>2, <2>3
<1> QED BY <1>4, <1>5

LEMMA QuotientsNear ==
  ASSUME NEW a \in Int, NEW b \in Int, NEW r \in Nat, r > 0, NEW m \in Nat,
         a - b <= r * m
  PROVE  Quotient(a, r) - Quotient(b, r) <= m
<1> DEFINE p == Quotient(a, r)
           q == Quotient(b, r)
<1>1. /\ p \in Int
      /\ a >= 0 => r * p <= a /\ a < r * p + r /\ p >= 0
      /\ a < 0 => a <= r * p /\ r * p - r < a /\ p <= 0
  BY QuotientRest
<1>2. /\ q \in Int
      /\ b >= 0 => r * q <= b /\ b < r * q + r /\ q >= 0
      /\ b < 0 => b <= r * q /\ r * q - r < b /\ q <= 0
  BY QuotientRest
<1> HIDE DEF p, q
<1>3. r * p - r * q < r * m + r => p - q <= m
  <2>1. r * (p - q) = r * p - r * q /\ r * (m + 1) = r * m + r
    BY <1>1, <1>2
  <2>2. r * (p - q) < r * (m + 1) => p - q < m + 1
    BY <1>1, <1>2, Multiples
  <2> QED BY <1>1, <1>2, <2>1, <2>2
<1>4. r * p \in Int /\ r * q \in Int /\ r * m \in Int
  BY <1>1, <1>2
<1>5. CASE a < 0 /\ b >= 0
  BY <1>1, <1>2, <1>5 DEF p, q
<1>6. CASE ~(a < 0 /\ b >= 0)
  <2> DEFINE x == r * p
             y == r * q
             z == r * m
  <2>1. x \in Int /\ y \in Int /\ z \in Int /\ a - b <= z
    BY <1>4
  <2>2. /\ a >= 0 => x <= a /\ a < x + r
        /\ a < 0 => a <= x /\ x - r < a
        /\ b >= 0 => y <= b /\ b < y + r
        /\ b < 0 => b <= y /\ y - r < b
    BY <1>1, <1>2
  <2> HIDE DEF x, y, z
  <2>3. x - y < z + r
    BY <1>6, <2>1, <2>2
  <2> QED BY <1>3, <2>3 DEF p, q, x, y, z
<1> QED BY <1>5, <1>6

LEMMA RatioCovers ==
  ASSUME NEW d \in Nat, NEW m \in Nat, m > 0, d > m
  PROVE  /\ (d + m - 1) \div m \in Nat
         /\ (d + m - 1) \div m > 0
         /\ d <= ((d + m - 1) \div m) * m
<1> DEFINE r == (d + m - 1) \div m
<1>1. r \in Int /\ m * r <= d + m - 1 /\ d + m - 1 < m * r + m
  BY DivRest
<1> HIDE DEF r
<1>2. d <= m * r
  BY <1>1
<1>3. m * 0 < m * r
  BY <1>1, <1>2
<1>4. 0 < r
  BY <1>1, <1>3, Multiples
<1>5. r * m = m * r
  BY <1>1
<1> QED BY <1>1, <1>2, <1>4, <1>5 DEF r

Near(f, n) == \A s, t \in DOMAIN f : f[s] - f[t] <= n

LEMMA SpreadIsNear ==
  ASSUME NEW vals, NEW n \in Int, IsFiniteSet(DOMAIN vals.priority),
         DOMAIN vals.priority # {},
         \A s \in DOMAIN vals.priority : vals.priority[s] \in Int
  PROVE  /\ Spread(vals) \in Nat
         /\ Spread(vals) <= n <=> Near(vals.priority, n)
<1> DEFINE f == vals.priority
<1>1. /\ Max(Range(f)) \in Int /\ Min(Range(f)) \in Int
      /\ \E s \in DOMAIN f : f[s] = Max(Range(f))
      /\ \E s \in DOMAIN f : f[s] = Min(Range(f))
      /\ \A s \in DOMAIN f : Min(Range(f)) <= f[s] /\ f[s] <= Max(Range(f))
  BY RangeFinite
<1>2. Spread(vals) = Max(Range(f)) - Min(Range(f))
  BY DEF Spread
<1>3. \A s \in DOMAIN f : f[s] \in Int
  OBVIOUS
<1> HIDE DEF f
<1>4. Spread(vals) \in Nat
  BY <1>1, <1>2, <1>3
<1>5. ASSUME Spread(vals) <= n PROVE Near(f, n)
  <2> SUFFICES ASSUME NEW s \in DOMAIN f, NEW t \in DOMAIN f PROVE f[s] - f[t] <= n
    BY DEF Near
  <2> QED BY <1>1, <1>2, <1>3, <1>5
<1>6. ASSUME Near(f, n) PROVE Spread(vals) <= n
  BY <1>1, <1>2, <1>6 DEF Near
<1> QED BY <1>4, <1>5, <1>6 DEF f

LEMMA TotalPositive ==
  ASSUME NEW vals, IsValidatorSet(vals), Members(vals) \subseteq Signer,
         Members(vals) # {}
  PROVE  /\ TotalVotingPower(vals) \in Nat
         /\ TotalVotingPower(vals) > 0
         /\ IsFiniteSet(Members(vals))
         /\ \A s \in Members(vals) : vals.power[s] \in Nat /\ vals.power[s] > 0
         /\ \A s \in Members(vals) : vals.power[s] <= TotalVotingPower(vals)
         /\ Cardinality(Members(vals)) \in Nat /\ Cardinality(Members(vals)) > 0
<1> DEFINE S == Members(vals)
           f == vals.power
<1>1. IsFiniteSet(S)
  BY SignerAssumption, FS_Subset
<1>2. \A s \in S : f[s] \in Nat /\ f[s] > 0
  BY DEF IsValidatorSet, Members
<1>3. TotalVotingPower(vals) = SumFunctionOnSet(f, S)
  BY DEF TotalVotingPower, SumFunction, Members
<1> HIDE DEF f, S
<1>4. \A s \in S : SumFunctionOnSet(f, S) = f[s] + SumFunctionOnSet(f, S \ {s})
  BY <1>1, <1>2, SumRemove
<1>5. \A s \in S : SumFunctionOnSet(f, S \ {s}) \in Nat
  <2> TAKE s \in S
  <2>1. IsFiniteSet(S \ {s}) /\ \A x \in S \ {s} : f[x] \in Nat
    BY <1>1, <1>2, FS_Subset
  <2> QED BY <2>1, SumNat
<1>6. S # {}
  BY DEF S
<1>7. Cardinality(S) \in Nat /\ Cardinality(S) # 0
  BY <1>1, <1>6, FS_EmptySet, FS_CardinalityType
<1>8. \A s \in S : /\ SumFunctionOnSet(f, S) \in Nat /\ SumFunctionOnSet(f, S) > 0
                   /\ f[s] <= SumFunctionOnSet(f, S)
  <2> TAKE s \in S
  <2> DEFINE x == SumFunctionOnSet(f, S)
             y == SumFunctionOnSet(f, S \ {s})
             z == f[s]
  <2>1. x = z + y /\ y \in Nat /\ z \in Nat /\ z > 0
    BY <1>2, <1>4, <1>5
  <2> HIDE DEF x, y, z
  <2>2. x \in Nat /\ x > 0 /\ z <= x
    BY <2>1
  <2> QED BY <2>2 DEF x, z
<1> QED BY <1>1, <1>2, <1>3, <1>6, <1>7, <1>8 DEF f, S

\* Priorities too far apart are brought together.
LEMMA RescaleNear ==
  ASSUME NEW vals, WellFormed(vals)
  PROVE  LET scaled == RescalePriorities(vals)
         IN  /\ WellFormed(scaled)
             /\ scaled.power = vals.power /\ scaled.proposer = vals.proposer
             /\ Near(scaled.priority, 2 * TotalVotingPower(vals))
<1> DEFINE S == Members(vals)
           p == vals.priority
           m == 2 * TotalVotingPower(vals)
           r == (Spread(vals) + m - 1) \div m
           q == [s \in S |-> Quotient(p[s], r)]
           scaled == RescalePriorities(vals)
<1>1. TotalVotingPower(vals) \in Nat /\ TotalVotingPower(vals) > 0 /\ IsFiniteSet(S)
  BY TotalPositive DEF WellFormed
<1>2. m \in Nat /\ m > 0
  BY <1>1
<1>3. DOMAIN p = S /\ S # {} /\ \A s \in S : p[s] \in Int
  BY DEF WellFormed
<1>4. scaled = IF Spread(vals) > m THEN [vals EXCEPT !.priority = q] ELSE vals
  BY DEF RescalePriorities, PriorityWindowSizeFactor
<1>5. vals = [power |-> vals.power, priority |-> p, proposer |-> vals.proposer]
  BY DEF WellFormed, IsValidatorSet
<1> HIDE DEF S, p, m, scaled, r, q
<1>6. Spread(vals) \in Nat
  BY <1>1, <1>3, SpreadIsNear DEF p
<1>7. CASE ~(Spread(vals) > m)
  <2>1. Near(p, m)
    BY <1>1, <1>2, <1>3, <1>6, <1>7, SpreadIsNear DEF p
  <2> QED BY <1>4, <1>7, <2>1 DEF p, m, scaled
<1>8. CASE Spread(vals) > m
  <2>1. r \in Nat /\ r > 0 /\ Spread(vals) <= r * m
    BY <1>2, <1>6, <1>8, RatioCovers DEF r
  <2>2. r * m \in Int
    BY <1>2, <2>1
  <2>3. Near(p, r * m)
    BY <1>1, <1>3, <2>1, <2>2, SpreadIsNear DEF p
  <2>4. q \in [S -> Int]
    <3>1. \A s \in S : Quotient(p[s], r) \in Int
      BY <1>3, <2>1, QuotientRest
    <3> QED BY <3>1 DEF q
  <2>5. Near(q, m)
    <3> SUFFICES ASSUME NEW s \in S, NEW t \in S PROVE q[s] - q[t] <= m
      BY <2>4 DEF Near
    <3>1. p[s] - p[t] <= r * m
      BY <1>3, <2>3 DEF Near
    <3>2. Quotient(p[s], r) - Quotient(p[t], r) <= m
      BY <1>2, <1>3, <2>1, <3>1, QuotientsNear
    <3> QED BY <3>2 DEF q
  <2>6. scaled = [power |-> vals.power, priority |-> q, proposer |-> vals.proposer]
    BY <1>4, <1>5, <1>8
  <2>7. WellFormed(scaled)
    BY <2>4, <2>6 DEF WellFormed, IsValidatorSet, Members, S
  <2> QED BY <2>5, <2>6, <2>7 DEF m, scaled
<1> QED BY <1>7, <1>8

\* The sum of what is shifted.
LEMMA SumShifted ==
  ASSUME NEW f, NEW S, IsFiniteSet(S), \A s \in S : f[s] \in Int, NEW c \in Int,
         NEW g, \A s \in S : g[s] = f[s] - c
  PROVE  /\ SumFunctionOnSet(f, S) \in Int /\ Cardinality(S) \in Nat
         /\ SumFunctionOnSet(g, S) = SumFunctionOnSet(f, S) - Cardinality(S) * c
<1> DEFINE Good == {t \in SUBSET S :
               SumFunctionOnSet(g, t) = SumFunctionOnSet(f, t) - Cardinality(t) * c}
<1>1. {} \in Good
  <2>1. Cardinality({}) = 0
    BY FS_EmptySet
  <2>2. SumFunctionOnSet(g, {}) = 0 /\ SumFunctionOnSet(f, {}) = 0
    BY SumEmpty
  <2> QED BY <2>1, <2>2
<1>2. \A t \in Good : \A x \in S \ t : t \cup {x} \in Good
  <2> SUFFICES ASSUME NEW t \in Good, NEW x \in S \ t PROVE t \cup {x} \in Good
    OBVIOUS
  <2>1. IsFiniteSet(t) /\ Cardinality(t) \in Nat
    BY FS_Subset, FS_CardinalityType
  <2>2. Cardinality(t \cup {x}) = Cardinality(t) + 1
    BY <2>1, FS_AddElement
  <2>3. f[x] \in Int /\ g[x] = f[x] - c /\ \A y \in t : f[y] \in Int /\ g[y] \in Int
    OBVIOUS
  <2>4. SumFunctionOnSet(f, t \cup {x}) = f[x] + SumFunctionOnSet(f, t)
    BY <2>1, <2>3, SumInsert
  <2>5. SumFunctionOnSet(g, t \cup {x}) = g[x] + SumFunctionOnSet(g, t)
    <3>1. g[x] \in Int
      BY <2>3
    <3> QED BY <2>1, <2>3, <3>1, SumInsert
  <2>6. SumFunctionOnSet(f, t) \in Int
    BY <2>1, <2>3, SumInt
  <2>7. SumFunctionOnSet(g, t) = SumFunctionOnSet(f, t) - Cardinality(t) * c
    OBVIOUS
  <2> HIDE DEF Good
  <2>8. SumFunctionOnSet(g, t \cup {x})
          = SumFunctionOnSet(f, t \cup {x}) - Cardinality(t \cup {x}) * c
    <3>1. (Cardinality(t) + 1) * c = Cardinality(t) * c + c
      BY <2>1
    <3>2. Cardinality(t) * c \in Int
      BY <2>1
    <3> QED BY <2>2, <2>3, <2>4, <2>5, <2>6, <2>7, <3>1, <3>2
  <2> QED BY <2>8 DEF Good
<1>3. Good \in SUBSET (SUBSET S)
  OBVIOUS
<1> HIDE DEF Good
<1>4. S \in Good
  BY <1>1, <1>2, <1>3, FiniteInduction
<1> QED BY <1>4, SumInt, FS_CardinalityType DEF Good

\* Shifting by the average leaves a sum that is smaller than the number of
\* members, and the distances as they were.
LEMMA ShiftCentres ==
  ASSUME NEW vals, WellFormed(vals), NEW n, Near(vals.priority, n)
  PROVE  LET shifted == ShiftByAvgProposerPriority(vals)
         IN  /\ WellFormed(shifted)
             /\ shifted.power = vals.power /\ shifted.proposer = vals.proposer
             /\ Near(shifted.priority, n)
             /\ SumFunctionOnSet(shifted.priority, Members(vals))
                  \in 0 .. Cardinality(Members(vals)) - 1
<1> DEFINE S == Members(vals)
           p == vals.priority
           k == Cardinality(S)
           sum == SumFunctionOnSet(p, S)
           avg == sum \div k
           q == [s \in S |-> p[s] - avg]
           shifted == ShiftByAvgProposerPriority(vals)
<1>1. IsFiniteSet(S) /\ k \in Nat /\ k > 0
  BY TotalPositive DEF WellFormed
<1>2. DOMAIN p = S /\ \A s \in S : p[s] \in Int
  BY DEF WellFormed
<1>3. shifted = [vals EXCEPT !.priority = q]
  BY <1>2 DEF ShiftByAvgProposerPriority, SumFunction
<1>4. vals = [power |-> vals.power, priority |-> p, proposer |-> vals.proposer]
  BY DEF WellFormed, IsValidatorSet
<1>5. Near(p, n)
  OBVIOUS
<1> HIDE DEF S, p, shifted, q, avg, k, sum
<1>6. sum \in Int
  BY <1>1, <1>2, SumInt DEF sum
<1>7. avg \in Int /\ k * avg <= sum /\ sum < k * avg + k
  BY <1>1, <1>6, DivRest DEF avg
<1>8. q \in [S -> Int]
  BY <1>2, <1>7 DEF q
<1>9. shifted = [power |-> vals.power, priority |-> q, proposer |-> vals.proposer]
  BY <1>3, <1>4
<1>10. Near(q, n)
  <2> SUFFICES ASSUME NEW s \in S, NEW t \in S PROVE q[s] - q[t] <= n
    BY <1>8 DEF Near
  <2>1. p[s] - p[t] <= n
    BY <1>2, <1>5 DEF Near
  <2>2. q[s] - q[t] = p[s] - p[t]
    BY <1>2, <1>7 DEF q
  <2> QED BY <2>1, <2>2
<1>11. SumFunctionOnSet(q, S) = sum - k * avg
  <2>1. \A s \in S : q[s] = p[s] - avg
    BY DEF q
  <2> QED BY <1>1, <1>2, <1>7, <2>1, SumShifted DEF sum, k
<1>12. SumFunctionOnSet(q, S) \in 0 .. k - 1
  BY <1>1, <1>6, <1>7, <1>11
<1>13. WellFormed(shifted)
  BY <1>8, <1>9 DEF WellFormed, IsValidatorSet, Members, S
<1> QED BY <1>9, <1>10, <1>12, <1>13 DEF S, k, shifted

\* The member with the highest priority, the lowest address of them.
LEMMA MostPriority ==
  ASSUME NEW f, IsFiniteSet(DOMAIN f), DOMAIN f # {}, DOMAIN f \subseteq Nat,
         \A s \in DOMAIN f : f[s] \in Int
  PROVE  /\ ValWithMostPriority(f) \in DOMAIN f
         /\ \A t \in DOMAIN f : f[t] <= f[ValWithMostPriority(f)]
<1> DEFINE Before(s, t) == f[t] < f[s] \/ (f[t] = f[s] /\ s <= t)
           R == {p \in (DOMAIN f) \X (DOMAIN f) : Before(p[1], p[2])}
<1>1. \A s, t \in DOMAIN f : <<s, t>> \in R <=> Before(s, t)
  OBVIOUS
<1>2. \A s, t \in DOMAIN f : f[s] \in Int /\ f[t] \in Int /\ s \in Int /\ t \in Int
  OBVIOUS
<1>3. \A s, t \in DOMAIN f : Before(s, t) \/ Before(t, s)
  <2> TAKE s, t \in DOMAIN f
  <2>1. f[s] \in Int /\ f[t] \in Int /\ s \in Int /\ t \in Int
    BY <1>2
  <2> DEFINE x == f[s]
             y == f[t]
  <2>2. x \in Int /\ y \in Int
    BY <2>1
  <2> HIDE DEF x, y
  <2>3. (y < x \/ (y = x /\ s <= t)) \/ (x < y \/ (x = y /\ t <= s))
    BY <2>1, <2>2
  <2> QED BY <2>3 DEF x, y
<1>4. \A s, t, u \in DOMAIN f : Before(s, t) /\ Before(t, u) => Before(s, u)
  BY <1>2
<1> HIDE DEF R
<1>5. \A s, t \in DOMAIN f : <<s, t>> \in R \/ <<t, s>> \in R
  BY <1>1, <1>3
<1>6. \A s, t, u \in DOMAIN f : <<s, t>> \in R /\ <<t, u>> \in R => <<s, u>> \in R
  BY <1>1, <1>4
<1>7. \E s \in DOMAIN f : \A t \in DOMAIN f : <<s, t>> \in R
  BY <1>5, <1>6, FiniteFirst
<1>8. \E s \in DOMAIN f : \A t \in DOMAIN f : f[t] < f[s] \/ (f[t] = f[s] /\ s <= t)
  BY <1>1, <1>7
<1>9. /\ ValWithMostPriority(f) \in DOMAIN f
      /\ \A t \in DOMAIN f : \/ f[t] < f[ValWithMostPriority(f)]
                             \/ f[t] = f[ValWithMostPriority(f)]
  BY <1>8 DEF ValWithMostPriority
<1> QED BY <1>2, <1>9

LEMMA RotationBalances ==
  ASSUME NEW vals, WellFormed(vals)
  PROVE  /\ WellFormed(IncrementProposerPriority(vals))
         /\ Balanced(IncrementProposerPriority(vals))
         /\ IncrementProposerPriority(vals).proposer
              \in Members(IncrementProposerPriority(vals))
<1> DEFINE S == Members(vals)
           power == vals.power
           total == TotalVotingPower(vals)
           shifted == ShiftByAvgProposerPriority(RescalePriorities(vals))
           p == shifted.priority
           raised == [s \in S |-> p[s] + power[s]]
           most == ValWithMostPriority(raised)
           final == [raised EXCEPT ![most] = @ - total]
           rotated == IncrementProposerPriority(vals)
<1>1. /\ total \in Nat /\ total > 0 /\ IsFiniteSet(S) /\ S # {} /\ S \subseteq Signer
      /\ \A s \in S : power[s] \in Nat /\ power[s] > 0 /\ power[s] <= total
      /\ DOMAIN power = S
      /\ total = SumFunctionOnSet(power, S)
  BY TotalPositive DEF WellFormed, TotalVotingPower, SumFunction, Members
<1>2. /\ WellFormed(RescalePriorities(vals))
      /\ RescalePriorities(vals).power = power
      /\ Near(RescalePriorities(vals).priority, 2 * total)
  BY RescaleNear
<1>3. /\ WellFormed(shifted) /\ shifted.power = power
      /\ Near(p, 2 * total)
      /\ SumFunctionOnSet(p, S) \in 0 .. Cardinality(S) - 1
  BY <1>2, ShiftCentres DEF Members
<1>4. p \in [S -> Int]
  BY <1>3 DEF WellFormed, Members
<1>5. rotated = [power |-> power, priority |-> final, proposer |-> most]
  BY DEF IncrementProposerPriority
<1> HIDE DEF S, power, total, shifted, p, raised, most, final, rotated
<1>6. raised \in [S -> Int] /\ \A s \in S : raised[s] = p[s] + power[s]
  BY <1>1, <1>4 DEF raised
<1>7. most \in S /\ \A s \in S : raised[s] <= raised[most]
  <2>1. DOMAIN raised = S /\ S \subseteq Nat /\ \A s \in S : raised[s] \in Int
    BY <1>1, <1>6, SignerAssumption
  <2> QED BY <1>1, <2>1, MostPriority DEF most
<1>8. final \in [S -> Int]
  BY <1>1, <1>6, <1>7 DEF final
<1>9. \A s \in S : final[s] = IF s = most THEN raised[s] - total ELSE raised[s]
  BY <1>6, <1>7 DEF final
<1>10. WellFormed(rotated) /\ Members(rotated) = S /\ TotalVotingPower(rotated) = total
  <2>1. IsValidatorSet(rotated)
    BY <1>5 DEF WellFormed, IsValidatorSet, power
  <2> QED BY <1>1, <1>5, <1>8, <2>1 DEF WellFormed, Members, total, power, TotalVotingPower
<1>11. SumFunctionOnSet(final, S) = SumFunctionOnSet(p, S)
  <2>1. SumFunctionOnSet(raised, S) = SumFunctionOnSet(p, S) + SumFunctionOnSet(power, S)
    BY <1>1, <1>4, <1>6, SumPointwise
  <2>2. SumFunctionOnSet(final, S)
          = SumFunctionOnSet(raised, S) + final[most] - raised[most]
    <3>1. \A s \in S : raised[s] \in Int
      BY <1>6
    <3>2. final[most] \in Int /\ \A s \in S \ {most} : final[s] = raised[s]
      BY <1>7, <1>8, <1>9
    <3> QED BY <1>1, <1>7, <3>1, <3>2, SumChange
  <2>3. final[most] = raised[most] - total /\ raised[most] \in Int
    BY <1>6, <1>7, <1>9
  <2>4. SumFunctionOnSet(p, S) \in Int
    BY <1>3
  <2> QED BY <1>1, <2>1, <2>2, <2>3, <2>4
<1>12. Near(final, 3 * total)
  <2> SUFFICES ASSUME NEW s \in S, NEW t \in S PROVE final[s] - final[t] <= 3 * total
    BY <1>8 DEF Near
  <2>1. p[s] - p[t] <= 2 * total /\ p[most] - p[t] <= 2 * total
    BY <1>3, <1>4, <1>7 DEF Near
  <2>2. /\ p[s] \in Int /\ p[t] \in Int /\ p[most] \in Int
        /\ power[s] \in Nat /\ power[t] \in Nat /\ power[most] \in Nat
        /\ power[s] <= total /\ power[most] <= total
    BY <1>1, <1>4, <1>7
  <2>3. /\ raised[s] = p[s] + power[s] /\ raised[t] = p[t] + power[t]
        /\ raised[most] = p[most] + power[most]
        /\ raised[s] <= raised[most]
    BY <1>6, <1>7
  <2>4. CASE s = most /\ t = most
    BY <1>1, <1>9, <2>2, <2>3, <2>4
  <2>5. CASE s = most /\ t # most
    <3>1. final[s] = raised[most] - total /\ final[t] = raised[t]
      BY <1>9, <2>5
    <3> QED BY <1>1, <2>1, <2>2, <2>3, <3>1
  <2>6. CASE s # most /\ t = most
    <3>1. final[s] = raised[s] /\ final[t] = raised[most] - total
      BY <1>9, <2>6
    <3> QED BY <1>1, <2>2, <2>3, <3>1
  <2>7. CASE s # most /\ t # most
    <3>1. final[s] = raised[s] /\ final[t] = raised[t]
      BY <1>9, <2>7
    <3> QED BY <1>1, <2>1, <2>2, <2>3, <3>1
  <2> QED BY <2>4, <2>5, <2>6, <2>7
<1>13. rotated.priority = final
  BY <1>5
<1>14. Spread(rotated) <= 3 * total
  <2>1. 3 * total \in Int /\ DOMAIN final = S /\ \A s \in S : final[s] \in Int
    BY <1>1, <1>8
  <2> QED BY <1>1, <1>12, <1>13, <2>1, SpreadIsNear
<1>15. SumFunction(rotated.priority) = SumFunctionOnSet(final, S)
  BY <1>8, <1>13 DEF SumFunction
<1>16. Balanced(rotated)
  BY <1>3, <1>10, <1>11, <1>14, <1>15 DEF Balanced, PriorityWindowSizeFactor
<1>17. rotated.proposer \in Members(rotated)
  BY <1>5, <1>7, <1>10
<1> QED BY <1>10, <1>16, <1>17 DEF rotated

\* Updates without error leave somebody in the set.
LEMMA SomebodyStays ==
  ASSUME NEW vals, IsValidatorSet(vals), Members(vals) # {},
         NEW changes, changes \in [DOMAIN changes -> Nat],
         ~ UpdateError(vals, changes)
  PROVE  (Members(vals) \cup Updates(changes)) \ Removals(changes) # {}
<1>1. CASE Updates(changes) \subseteq Members(vals)
  <2>1. Removals(changes) # Members(vals) /\ Removals(changes) \subseteq Members(vals)
    BY <1>1 DEF UpdateError
  <2> QED BY <2>1
<1>2. CASE ~ (Updates(changes) \subseteq Members(vals))
  <2>1. PICK s \in Updates(changes) : TRUE
    BY <1>2
  <2>2. s \notin Removals(changes)
    BY <2>1 DEF Updates, Removals
  <2> QED BY <2>1, <2>2
<1> QED BY <1>1, <1>2

\* The set that an update makes before its priorities are scaled and shifted.
Unscaled(vals, changes) ==
    LET total == UpdatedTotal(vals, changes, Updates(changes))
        power == Applied(vals.power, changes)
    IN  [power    |-> power,
         priority |-> [s \in DOMAIN power |-> IF s \in Members(vals) THEN vals.priority[s]
                                                                    ELSE NewPriority(total)],
         proposer |-> vals.proposer]

\* An update: newcomers get a priority, the members keep theirs, then all are
\* brought together and centred.
LEMMA UpdateWellFormed ==
  ASSUME NEW vals, IsValidatorSet(vals), Members(vals) \subseteq Signer,
         vals.priority \in [Members(vals) -> Int],
         NEW changes, changes \in [DOMAIN changes -> Nat], DOMAIN changes \subseteq Signer,
         (Members(vals) \cup Updates(changes)) \ Removals(changes) # {}
  PROVE  /\ WellFormed(Unscaled(vals, changes))
         /\ UpdateWithChangeSet(vals, changes)
              = ShiftByAvgProposerPriority(RescalePriorities(Unscaled(vals, changes)))
         /\ WellFormed(UpdateWithChangeSet(vals, changes))
<1> DEFINE U == Updates(changes)
           delta == [s \in U |-> IF s \in Members(vals) THEN changes[s] - vals.power[s]
                                                        ELSE changes[s]]
           total == UpdatedTotal(vals, changes, U)
           power == Applied(vals.power, changes)
           priority == [s \in DOMAIN power |-> IF s \in Members(vals) THEN vals.priority[s]
                                                                      ELSE NewPriority(total)]
           new == [power |-> power, priority |-> priority, proposer |-> vals.proposer]
<1>1. U \subseteq Signer /\ U \subseteq DOMAIN changes
  BY DEF Updates
<1>2. IsFiniteSet(U) /\ IsFiniteSet(Members(vals))
  BY <1>1, SignerAssumption, FS_Subset
<1>3. \A s \in Members(vals) : vals.power[s] \in Nat \ {0}
  BY DEF IsValidatorSet, Members
<1>4. total \in Int
  <2>1. \A s \in U : delta[s] \in Int
    BY <1>1, <1>3
  <2>2. SumFunctionOnSet(delta, U) \in Int
    <3> HIDE DEF delta, U
    <3> QED BY <1>2, <2>1, SumInt
  <2>3. SumFunctionOnSet(vals.power, Members(vals)) \in Int
    <3>1. \A s \in Members(vals) : vals.power[s] \in Int
      BY <1>3
    <3> QED BY <1>2, <3>1, SumInt
  <2>4. SumFunction(delta) = SumFunctionOnSet(delta, U)
    BY DEF SumFunction
  <2>5. TotalVotingPower(vals) = SumFunctionOnSet(vals.power, Members(vals))
    BY DEF TotalVotingPower, SumFunction, Members
  <2>6. total = TotalVotingPower(vals) + SumFunction(delta)
    BY DEF UpdatedTotal
  <2> HIDE DEF total, delta
  <2> QED BY <2>2, <2>3, <2>4, <2>5, <2>6
<1> HIDE DEF total
<1>5. NewPriority(total) \in Int
  BY <1>4, DivRest DEF NewPriority
<1>6. DOMAIN power = (Members(vals) \cup U) \ Removals(changes)
  BY DEF Applied, Members
<1>7. power \in [DOMAIN power -> Nat \ {0}]
  BY DEF Applied, Updates, Removals, IsValidatorSet
<1>8. DOMAIN power \subseteq Signer /\ DOMAIN power # {}
  BY <1>1, <1>6
<1> HIDE DEF power, U
<1>9. priority \in [DOMAIN power -> Int]
  BY <1>5
<1> HIDE DEF priority
<1>10. WellFormed(new)
  BY <1>7, <1>8, <1>9 DEF WellFormed, IsValidatorSet, Members
<1> HIDE DEF new
<1>11. WellFormed(RescalePriorities(new))
       /\ Near(RescalePriorities(new).priority, 2 * TotalVotingPower(new))
  BY <1>10, RescaleNear
<1>12. WellFormed(ShiftByAvgProposerPriority(RescalePriorities(new)))
  BY <1>11, ShiftCentres
<1>13. UpdateWithChangeSet(vals, changes)
         = ShiftByAvgProposerPriority(RescalePriorities(new))
  BY DEF UpdateWithChangeSet, new, priority, power, total, U
<1>14. Unscaled(vals, changes) = new
  BY DEF Unscaled, new, priority, power, total, U
<1> QED BY <1>10, <1>12, <1>13, <1>14
\* What verifyUpdates adds up is not less than the total after the updates: what
\* is removed makes no room for what comes.
LEMMA TotalIsCovered ==
  ASSUME NEW vals, IsValidatorSet(vals), Members(vals) \subseteq Signer,
         NEW changes, changes \in [DOMAIN changes -> Nat], DOMAIN changes \subseteq Signer
  PROVE  /\ SumFunction(Applied(vals.power, changes)) \in Int
         /\ UpdatedTotal(vals, changes, Updates(changes)) \in Int
         /\ Updates(changes) = {} =>
              UpdatedTotal(vals, changes, Updates(changes)) = TotalVotingPower(vals)
         /\ SumFunction(Applied(vals.power, changes))
              <= UpdatedTotal(vals, changes, Updates(changes))
<1> DEFINE A == Members(vals)
           old == vals.power
           U == Updates(changes)
           R == Removals(changes)
           K == A \ (U \cup R)
           new == Applied(old, changes)
           delta == [s \in U |-> IF s \in A THEN changes[s] - old[s] ELSE changes[s]]
           before == [s \in U |-> IF s \in A THEN old[s] ELSE 0]
<1>1. /\ U \subseteq DOMAIN changes /\ U \cap R = {}
      /\ IsFiniteSet(A) /\ IsFiniteSet(U) /\ IsFiniteSet(K)
      /\ IsFiniteSet(A \cap U) /\ IsFiniteSet(A \cap R) /\ IsFiniteSet(U \ A)
  <2>1. U \subseteq DOMAIN changes /\ U \cap R = {}
    BY DEF Updates, Removals
  <2> QED BY <2>1, SignerAssumption, FS_Subset
<1>2. DOMAIN old = A /\ \A s \in A : old[s] \in Nat
  BY DEF IsValidatorSet, Members
<1>3. \A s \in U : changes[s] \in Nat
  BY <1>1
<1>4. /\ DOMAIN new = K \cup U /\ K \cap U = {}
      /\ \A s \in K : new[s] = old[s]
      /\ \A s \in U : new[s] = changes[s]
  <2>1. DOMAIN new = (A \cup U) \ R
    BY <1>2 DEF Applied
  <2>2. (A \cup U) \ R = K \cup U
    BY <1>1
  <2>3. \A s \in K : s \notin DOMAIN changes
    BY DEF Updates, Removals
  <2>4. \A s \in DOMAIN new : new[s] = IF s \in DOMAIN changes THEN changes[s] ELSE old[s]
    BY DEF Applied
  <2> QED BY <1>1, <2>1, <2>2, <2>3, <2>4
<1>5. \A s \in U : /\ delta[s] \in Int /\ before[s] \in Int
                   /\ changes[s] = delta[s] + before[s]
  BY <1>2, <1>3
<1>6. /\ \A s \in U \cap A : before[s] = old[s]
      /\ \A s \in U \ A : before[s] = 0
  OBVIOUS
<1> HIDE DEF new, delta, before, K, U, R, A, old
<1>7. SumFunctionOnSet(new, K \cup U)
        = SumFunctionOnSet(old, K) + SumFunctionOnSet(changes, U)
  <2>1. \A s \in K \cup U : new[s] \in Int
    BY <1>2, <1>3, <1>4 DEF K
  <2>2. SumFunctionOnSet(new, K \cup U) = SumFunctionOnSet(new, K) + SumFunctionOnSet(new, U)
    BY <1>1, <1>4, <2>1, SumDisjoint
  <2>3. SumFunctionOnSet(new, K) = SumFunctionOnSet(old, K)
    <3>1. \A s \in K : old[s] \in Int /\ new[s] = old[s]
      BY <1>2, <1>4 DEF K
    <3> QED BY <1>1, <3>1, SumSame
  <2>4. SumFunctionOnSet(new, U) = SumFunctionOnSet(changes, U)
    <3>1. \A s \in U : changes[s] \in Int /\ new[s] = changes[s]
      BY <1>3, <1>4
    <3> QED BY <1>1, <3>1, SumSame
  <2> QED BY <2>2, <2>3, <2>4
<1>8. SumFunctionOnSet(changes, U)
        = SumFunctionOnSet(delta, U) + SumFunctionOnSet(before, U)
  BY <1>1, <1>5, SumPointwise
<1>9. SumFunctionOnSet(before, U) = SumFunctionOnSet(old, A \cap U)
  <2>1. /\ (A \cap U) \cup (U \ A) = U /\ (A \cap U) \cap (U \ A) = {}
    OBVIOUS
  <2>2. \A s \in (A \cap U) \cup (U \ A) : before[s] \in Int
    BY <1>5
  <2>3. SumFunctionOnSet(before, (A \cap U) \cup (U \ A))
          = SumFunctionOnSet(before, A \cap U) + SumFunctionOnSet(before, U \ A)
    BY <1>1, <2>1, <2>2, SumDisjoint
  <2>4. SumFunctionOnSet(before, U \ A) = 0
    BY <1>1, <1>6, SumZero
  <2>5. SumFunctionOnSet(before, A \cap U) = SumFunctionOnSet(old, A \cap U)
    <3>1. \A s \in A \cap U : old[s] \in Int /\ before[s] = old[s]
      BY <1>2, <1>6
    <3> QED BY <1>1, <3>1, SumSame
  <2>6. SumFunctionOnSet(old, A \cap U) \in Int
    BY <1>1, <1>2, SumInt
  <2>7. SumFunctionOnSet(before, U) = SumFunctionOnSet(before, (A \cap U) \cup (U \ A))
    BY <2>1, Zenon
  <2> QED BY <2>3, <2>4, <2>5, <2>6, <2>7
<1>10. SumFunctionOnSet(old, A) = SumFunctionOnSet(old, K)
         + SumFunctionOnSet(old, A \cap U) + SumFunctionOnSet(old, A \cap R)
  <2>1. A = (K \cup (A \cap U)) \cup (A \cap R)
    BY DEF K
  <2>2. /\ (K \cup (A \cap U)) \cap (A \cap R) = {} /\ K \cap (A \cap U) = {}
        /\ IsFiniteSet(K \cup (A \cap U))
    BY <1>1, FS_Union DEF K
  <2>3. \A s \in (K \cup (A \cap U)) \cup (A \cap R) : old[s] \in Int
    BY <1>2, <2>1
  <2>4. SumFunctionOnSet(old, (K \cup (A \cap U)) \cup (A \cap R))
          = SumFunctionOnSet(old, K \cup (A \cap U)) + SumFunctionOnSet(old, A \cap R)
    BY <1>1, <2>2, <2>3, SumDisjoint
  <2>5. SumFunctionOnSet(old, K \cup (A \cap U))
          = SumFunctionOnSet(old, K) + SumFunctionOnSet(old, A \cap U)
    <3>1. \A s \in K \cup (A \cap U) : old[s] \in Int
      BY <2>3
    <3> QED BY <1>1, <2>2, <3>1, SumDisjoint
  <2>6. SumFunctionOnSet(old, A)
          = SumFunctionOnSet(old, (K \cup (A \cap U)) \cup (A \cap R))
    BY <2>1, Zenon
  <2> QED BY <2>4, <2>5, <2>6
<1>11. /\ SumFunctionOnSet(old, K) \in Int /\ SumFunctionOnSet(old, A \cap U) \in Int
       /\ SumFunctionOnSet(old, A \cap R) \in Nat /\ SumFunctionOnSet(delta, U) \in Int
  <2>1. \A s \in K : old[s] \in Int
    BY <1>2 DEF K
  <2>2. \A s \in A \cap R : old[s] \in Nat
    BY <1>2
  <2>3. \A s \in A \cap U : old[s] \in Int
    BY <1>2
  <2>4. \A s \in U : delta[s] \in Int
    BY <1>5
  <2> QED BY <1>1, <2>1, <2>2, <2>3, <2>4, SumInt, SumNat
<1>12. /\ SumFunction(new) = SumFunctionOnSet(new, K \cup U)
       /\ TotalVotingPower(vals) = SumFunctionOnSet(old, A)
       /\ SumFunction(delta) = SumFunctionOnSet(delta, U)
  BY <1>2, <1>4 DEF SumFunction, TotalVotingPower, delta, old
<1>13. SumFunction(new) <= TotalVotingPower(vals) + SumFunctionOnSet(delta, U)
  BY <1>7, <1>8, <1>9, <1>10, <1>11, <1>12
<1>14. SumFunction(new) \in Int /\ TotalVotingPower(vals) \in Int
  BY <1>7, <1>8, <1>9, <1>10, <1>11, <1>12
<1>15. UpdatedTotal(vals, changes, U) = TotalVotingPower(vals) + SumFunction(delta)
  BY DEF UpdatedTotal, delta, A, old
<1>16. U = {} => SumFunctionOnSet(delta, U) = 0
  BY SumEmpty
<1> QED BY <1>11, <1>12, <1>13, <1>14, <1>15, <1>16 DEF new, old, U

\* Updates without error do not take the total above its maximum.
LEMMA TotalStaysBounded ==
  ASSUME NEW vals, IsValidatorSet(vals), Members(vals) \subseteq Signer,
         TotalVotingPower(vals) <= MaxTotalVotingPower,
         NEW changes, changes \in [DOMAIN changes -> Nat], DOMAIN changes \subseteq Signer,
         ~ UpdateError(vals, changes)
  PROVE  SumFunction(Applied(vals.power, changes)) <= MaxTotalVotingPower
<1> DEFINE U == Updates(changes)
           total == UpdatedTotal(vals, changes, U)
           new == SumFunction(Applied(vals.power, changes))
<1>1. /\ new \in Int /\ total \in Int /\ new <= total
      /\ U = {} => total = TotalVotingPower(vals)
  BY TotalIsCovered
<1>2. IsFiniteSet(U) /\ U \subseteq Int
  <2>1. U \subseteq Signer
    BY DEF Updates
  <2> QED BY <2>1, SignerAssumption, FS_Subset
<1> HIDE DEF U, new
<1>3. CASE U = {}
  BY <1>1, <1>3, BoundAssumption DEF new
<1>4. CASE U # {}
  <2>1. PICK s \in U : \A t \in U : s >= t
    BY <1>2, <1>4, MaxOfInts
  <2>2. {t \in U : t <= s} = U
    BY <1>2, <2>1
  <2>3. ~ (UpdatedTotal(vals, changes, {t \in U : t <= s}) > MaxTotalVotingPower)
    BY <2>1 DEF UpdateError, U
  <2>4. UpdatedTotal(vals, changes, {t \in U : t <= s}) = total
    BY <2>2, Zenon
  <2>5. ~ (total > MaxTotalVotingPower)
    BY <2>3, <2>4, Zenon
  <2> HIDE DEF total
  <2> QED BY <1>1, <2>5, BoundAssumption DEF new
<1> QED BY <1>3, <1>4

\* The updates EndBlocker computes take any set whose members have records to
\* the current validators; and when there are none the set is already that.
LEMMA UpdatesReachCurrent ==
    ASSUME RecordsInv, MembersInv
    PROVE  /\ GetUpdatedValidators \in [DOMAIN GetUpdatedValidators -> Nat]
           /\ Applied(set.power, GetUpdatedValidators)
                = [s \in CurrentValidators |-> validators[s].power]
           /\ DOMAIN GetUpdatedValidators = {} =>
                set.power = [s \in CurrentValidators |-> validators[s].power]
<1> DEFINE changes == GetUpdatedValidators
           current == [s \in CurrentValidators |-> validators[s].power]
<1>1. \A s \in DOMAIN validators : validators[s].power \in Nat
  BY DEF RecordsInv, Record
<1>2. \A s \in CurrentValidators : s \in DOMAIN validators /\ validators[s].power > 0
  BY DEF CurrentValidators, IsCurrentValidator
<1>3. \A s \in DOMAIN changes :
         /\ s \in DOMAIN validators
         /\ changes[s] = IF s \in CurrentValidators THEN validators[s].power ELSE 0
  BY DEF GetUpdatedValidators
<1>4. \A s \in DOMAIN validators \ DOMAIN changes :
         /\ s \in DOMAIN set.power <=> s \in CurrentValidators
         /\ s \in DOMAIN set.power => set.power[s] = validators[s].power
  BY DEF GetUpdatedValidators, Members
<1>5. changes \in [DOMAIN changes -> Nat]
  BY <1>1, <1>3 DEF GetUpdatedValidators
<1>6. Updates(changes) = DOMAIN changes \cap CurrentValidators
  BY <1>1, <1>2, <1>3 DEF Updates
<1>7. Removals(changes) = DOMAIN changes \ CurrentValidators
  BY <1>1, <1>2, <1>3 DEF Removals
<1>8. DOMAIN set.power \subseteq DOMAIN validators
      /\ set.power = [s \in DOMAIN set.power |-> set.power[s]]
  BY DEF MembersInv, WellFormed, Members, IsValidatorSet
<1> HIDE DEF changes
<1>9. (DOMAIN set.power \cup Updates(changes)) \ Removals(changes) = CurrentValidators
  BY <1>2, <1>3, <1>4, <1>6, <1>7, <1>8
<1>10. Applied(set.power, changes) = current
  BY <1>2, <1>3, <1>4, <1>9 DEF Applied
<1>11. DOMAIN changes = {} => set.power = current
  BY <1>2, <1>4, <1>8
<1> QED
  BY <1>5, <1>10, <1>11 DEF changes

-----------------------------------------------------------------------------
(* The invariant of the validator set holds at the start and is kept by every
   step. *)

LEMMA InitIInv == Init => IInv
<1> SUFFICES ASSUME Init PROVE IInv
  OBVIOUS
<1> USE GenesisAssumption
<1> DEFINE none == [power |-> [s \in {} |-> 0], priority |-> [s \in {} |-> 0],
                    proposer |-> 0]
<1>1. IsValidatorSet(none) /\ none.power = [s \in {} |-> 0]
  BY DEF IsValidatorSet
<1>2. GenesisPower \in [DOMAIN GenesisPower -> Nat]
  OBVIOUS
<1>3. Applied([s \in {} |-> 0], GenesisPower) = GenesisPower
  BY DEF Applied, Updates, Removals
<1> HIDE DEF none
<1>4. IsValidatorSet(set) /\ set.power = GenesisPower
  BY <1>1, <1>2, <1>3, UpdateAppliesChanges, RotationKeepsPower
     DEF Init, GenesisSet, none
<1>5. RecordsInv
  <2>1. inBlock \in BOOLEAN /\ refused \in BOOLEAN
    BY Zenon DEF Init
  <2>2. /\ DOMAIN validators \subseteq Signer
        /\ validators \in [DOMAIN validators -> Record]
        /\ bound \subseteq DOMAIN validators
        /\ DOMAIN validators \ bound = {}
        /\ ackCount \in 0 .. MaxAckCount
    BY BoundAssumption DEF Init, Record
  <2>3. \A s \in DOMAIN validators \ bound : validators[s].power = 0
    BY <2>2, Zenon
  <2> QED BY <2>1, <2>2, <2>3, Zenon DEF RecordsInv
<1>6. MembersInv
  <2>1. (Members(none) \cup Updates(GenesisPower)) \ Removals(GenesisPower) # {}
    BY DEF Updates, Removals
  <2>2. /\ Members(none) \subseteq Signer
        /\ none.priority \in [Members(none) -> Int]
    BY DEF none, Members
  <2>3. WellFormed(UpdateWithChangeSet(none, GenesisPower))
    BY <1>1, <1>2, <2>1, <2>2, UpdateWellFormed
  <2>4. WellFormed(set) /\ Balanced(set) /\ set.proposer \in Members(set)
    BY <2>3, RotationBalances DEF Init, GenesisSet, none, WellFormed
  <2>5. TotalVotingPower(set) <= MaxTotalVotingPower
    BY <1>4 DEF TotalVotingPower
  <2> QED BY <1>4, <2>4, <2>5 DEF Init, MembersInv, Members
<1>7. ConsensusAgrees
  BY <1>4 DEF Init, ConsensusAgrees
<1>8. SetIsCurrent
  <2>1. ASSUME NEW s \in DOMAIN GenesisPower
        PROVE  IsCurrentValidator(validators[s])
    BY <1>4 DEF Init, IsCurrentValidator
  <2>2. CurrentValidators = DOMAIN GenesisPower
    BY <2>1 DEF Init, CurrentValidators
  <2> QED
    BY <1>4, <2>2 DEF Init, SetIsCurrent
<1> QED
  BY <1>5, <1>6, <1>7, <1>8 DEF IInv

LEMMA NextIInv == IInv /\ [Next]_vars => IInv'
<1> SUFFICES ASSUME IInv, [Next]_vars PROVE IInv'
  OBVIOUS
<1> USE DEF IInv
<1>1. ASSUME NEW s \in Signer, NEW e \in Epochs, Join(s, e)
      PROVE  IInv'
  <2>1. RecordsInv'
    BY <1>1, BoundAssumption DEF Join, RecordsInv, Record, Epochs
  <2> QED
    BY <1>1, <2>1 DEF Join, MembersInv, ConsensusAgrees, SetIsCurrent
<1>2. ASSUME NEW s \in Signer, NEW e \in Epochs, Exit(s, e)
      PROVE  IInv'
  <2>1. RecordsInv'
    BY <1>2, BoundAssumption DEF Exit, RecordsInv, Record, Epochs
  <2> QED
    BY <1>2, <2>1 DEF Exit, MembersInv, ConsensusAgrees, SetIsCurrent
<1>3. ASSUME NEW s \in Signer, NEW t \in Signer, SignerUpdate(s, t)
      PROVE  IInv'
  <2>1. RecordsInv'
    <3>1. DOMAIN validators' = DOMAIN validators \cup {t}
      BY <1>3 DEF SignerUpdate
    <3>2. ASSUME NEW u \in DOMAIN validators' PROVE validators'[u] \in Record
      <4>1. validators[s] \in Record
        BY <1>3 DEF SignerUpdate, RecordsInv
      <4>2. [validators[s] EXCEPT !.end = ackCount, !.power = 0] \in Record
        <5>1. ackCount \in Epochs \cup {0}
          BY BoundAssumption DEF RecordsInv, Epochs
        <5> QED
          BY <4>1, <5>1 DEF Record
      <4>3. \A w \in DOMAIN validators : validators[w] \in Record
        BY DEF RecordsInv
      <4> QED
        BY <1>3, <3>1, <3>2, <4>1, <4>2, <4>3 DEF SignerUpdate
    <3>3. validators' = [u \in DOMAIN validators' |-> validators'[u]]
      BY <1>3, <3>1 DEF SignerUpdate
    <3>4. ASSUME NEW u \in DOMAIN validators' \ bound' PROVE validators'[u].power = 0
      <4>1. CASE u = s
        <5>1. validators[s] \in Record /\ s # t
          BY <1>3 DEF SignerUpdate, RecordsInv
        <5>2. validators'[s] = [validators[s] EXCEPT !.end = ackCount, !.power = 0]
          BY <1>3, <3>1, <4>1, <5>1 DEF SignerUpdate
        <5>3. [validators[s] EXCEPT !.end = ackCount, !.power = 0].power = 0
          BY <5>1 DEF Record
        <5> QED BY <4>1, <5>2, <5>3
      <4>2. CASE u # s
        <5>1. u \in DOMAIN validators \ bound /\ u # t
          BY <1>3, <3>1, <4>2 DEF SignerUpdate
        <5> QED BY <1>3, <3>1, <4>2, <5>1 DEF SignerUpdate, RecordsInv
      <4> QED BY <4>1, <4>2
    <3> QED
      BY <1>3, <3>1, <3>2, <3>3, <3>4 DEF SignerUpdate, RecordsInv
  <2> QED
    BY <1>3, <2>1 DEF SignerUpdate, MembersInv, ConsensusAgrees, SetIsCurrent
<1>4. ASSUME NEW s \in Signer, NEW jailed \in BOOLEAN, Slash(s, jailed)
      PROVE  IInv'
  <2>1. RecordsInv'
    BY <1>4, BoundAssumption DEF Slash, RecordsInv, Record, Epochs
  <2> QED
    BY <1>4, <2>1 DEF Slash, MembersInv, ConsensusAgrees, SetIsCurrent
<1>5. ASSUME NEW s \in Signer, Unjail(s)
      PROVE  IInv'
  <2>1. RecordsInv'
    BY <1>5 DEF Unjail, RecordsInv, Record, Epochs
  <2> QED
    BY <1>5, <2>1 DEF Unjail, MembersInv, ConsensusAgrees, SetIsCurrent
<1>6. CASE CheckpointAck
  <2>1. /\ WellFormed(set') /\ Balanced(set') /\ set'.power = set.power
        /\ set'.proposer \in Members(set')
    BY <1>6, RotationKeepsPower, RotationBalances DEF CheckpointAck, MembersInv, WellFormed
  <2>2. Members(set') = Members(set) /\ TotalVotingPower(set') = TotalVotingPower(set)
    BY <2>1 DEF Members, TotalVotingPower
  <2> QED
    BY <1>6, <2>1, <2>2, BoundAssumption
       DEF CheckpointAck, RecordsInv, MembersInv, ConsensusAgrees, SetIsCurrent
<1>7. CASE NoAck
  <2>1. /\ WellFormed(set') /\ Balanced(set') /\ set'.power = set.power
        /\ set'.proposer \in Members(set')
    BY <1>7, RotationKeepsPower, RotationBalances DEF NoAck, MembersInv, WellFormed
  <2>2. Members(set') = Members(set) /\ TotalVotingPower(set') = TotalVotingPower(set)
    BY <2>1 DEF Members, TotalVotingPower
  <2> QED
    BY <1>7, <2>1, <2>2 DEF NoAck, RecordsInv, MembersInv, ConsensusAgrees, SetIsCurrent
<1>8. CASE EndBlock
  <2> DEFINE changes == GetUpdatedValidators
             current == [s \in CurrentValidators |-> validators[s].power]
  <2>1. /\ changes \in [DOMAIN changes -> Nat]
        /\ Applied(set.power, changes) = current
        /\ DOMAIN changes = {} => set.power = current
    BY UpdatesReachCurrent
  <2>2. RecordsInv'
    <3>1. UpdateError(set, changes) \in BOOLEAN
      BY DEF UpdateError
    <3> HIDE DEF changes
    <3> QED BY <1>8, <3>1 DEF EndBlock, RecordsInv, changes
  <2>3. UNCHANGED <<validators, ackCount>> /\ CurrentValidators' = CurrentValidators
    BY <1>8 DEF EndBlock, CurrentValidators, IsCurrentValidator
  <2>4. CASE DOMAIN changes = {} \/ UpdateError(set, changes)
    <3>1. UNCHANGED <<set, tendermint>> /\ refused' = UpdateError(set, changes)
      BY <1>8, <2>4 DEF EndBlock
    <3>2. MembersInv' /\ ConsensusAgrees'
      BY <2>3, <3>1 DEF MembersInv, ConsensusAgrees
    <3>3. SetIsCurrent'
      BY <2>1, <2>3, <2>4, <3>1 DEF SetIsCurrent
    <3> QED
      BY <2>2, <3>2, <3>3
  <2>5. CASE ~(DOMAIN changes = {} \/ UpdateError(set, changes))
    <3>1. /\ set' = IncrementProposerPriority(UpdateWithChangeSet(set, changes))
          /\ tendermint' = Applied(tendermint, changes)
      BY <1>8, <2>5 DEF EndBlock
    <3> DEFINE updated == UpdateWithChangeSet(set, changes)
    <3>2. /\ IsValidatorSet(set) /\ Members(set) \subseteq Signer /\ Members(set) # {}
          /\ set.priority \in [Members(set) -> Int]
          /\ TotalVotingPower(set) <= MaxTotalVotingPower
      BY DEF MembersInv, WellFormed
    <3>3. DOMAIN changes \subseteq Signer
      BY DEF GetUpdatedValidators, RecordsInv
    <3> HIDE DEF changes
    <3>4. WellFormed(updated)
      <4>1. (Members(set) \cup Updates(changes)) \ Removals(changes) # {}
        BY <2>1, <2>5, <3>2, SomebodyStays
      <4> QED BY <2>1, <3>2, <3>3, <4>1, UpdateWellFormed
    <3>5. IsValidatorSet(updated) /\ updated.power = current
      BY <2>1, <3>2, UpdateAppliesChanges
    <3> HIDE DEF updated
    <3>6. /\ WellFormed(set') /\ Balanced(set') /\ set'.power = current
          /\ set'.proposer \in Members(set')
      BY <3>1, <3>4, <3>5, RotationKeepsPower, RotationBalances DEF updated, WellFormed
    <3>7. TotalVotingPower(set') <= MaxTotalVotingPower
      <4>1. SumFunction(Applied(set.power, changes)) <= MaxTotalVotingPower
        BY <2>1, <2>5, <3>2, <3>3, TotalStaysBounded
      <4> QED BY <2>1, <3>6, <4>1 DEF TotalVotingPower
    <3>8. MembersInv'
      BY <2>3, <3>6, <3>7 DEF MembersInv, Members, CurrentValidators
    <3>9. ConsensusAgrees' /\ SetIsCurrent'
      BY <2>1, <2>3, <3>1, <3>6 DEF ConsensusAgrees, SetIsCurrent
    <3> QED
      BY <2>2, <3>8, <3>9
  <2> QED
    BY <2>4, <2>5
<1>9. CASE UNCHANGED vars
  BY <1>9 DEF vars, RecordsInv, MembersInv, ConsensusAgrees, SetIsCurrent, CurrentValidators, IsCurrentValidator
<1> QED
  BY <1>1, <1>2, <1>3, <1>4, <1>5, <1>6, <1>7, <1>8, <1>9 DEF Next

LEMMA Invariance == Spec => []IInv
<1> QED
  BY InitIInv, NextIInv, PTL DEF Spec

-----------------------------------------------------------------------------
\* Records, powers, priorities and the proposer keep their types, and no power
\* exceeds the maximum of the total.
THEOREM SetTypeCorrect == Spec => []TypeOK
<1>1. IInv => TypeOK
  <2> SUFFICES ASSUME IInv PROVE TypeOK
    OBVIOUS
  <2>1. RecordsInv /\ WellFormed(set) /\ Members(set) \subseteq DOMAIN validators
        /\ set.proposer \in Signer /\ TotalVotingPower(set) <= MaxTotalVotingPower
        /\ tendermint = set.power
    BY DEF IInv, MembersInv, ConsensusAgrees, WellFormed
  <2>2. ASSUME NEW s \in Members(set)
        PROVE  set.power[s] \in 1 .. MaxTotalVotingPower
    <3>1. /\ set.power[s] \in Nat /\ set.power[s] > 0
          /\ set.power[s] <= TotalVotingPower(set) /\ TotalVotingPower(set) \in Nat
      BY <2>1, TotalPositive DEF WellFormed
    <3> QED BY <2>1, <3>1, BoundAssumption
  <2>3. /\ set = [power |-> set.power, priority |-> set.priority, proposer |-> set.proposer]
        /\ set.power \in [Members(set) -> Nat \ {0}]
        /\ set.priority \in [Members(set) -> Int]
        /\ Members(set) \subseteq Signer
    BY <2>1 DEF WellFormed, IsValidatorSet, Members
  <2>4. set.power \in [Members(set) -> 1 .. MaxTotalVotingPower]
    BY <2>2, <2>3
  <2>5. set \in [power: [Members(set) -> 1 .. MaxTotalVotingPower],
                 priority: [Members(set) -> Int], proposer: Signer]
    <3> DEFINE p == set.power
               q == set.priority
               m == set.proposer
               P == [Members(set) -> 1 .. MaxTotalVotingPower]
               Q == [Members(set) -> Int]
    <3>1. p \in P /\ q \in Q /\ m \in Signer
          /\ set = [power |-> p, priority |-> q, proposer |-> m]
      BY <2>1, <2>3, <2>4
    <3> HIDE DEF p, q, m, P, Q
    <3>2. set \in [power: P, priority: Q, proposer: Signer]
      BY <3>1
    <3> QED BY <3>2 DEF P, Q
  <2>6. /\ DOMAIN tendermint = Members(set)
        /\ tendermint \in [DOMAIN tendermint -> Nat \ {0}]
    BY <2>1, <2>3 DEF Members
  <2> QED BY <2>1, <2>3, <2>5, <2>6 DEF RecordsInv, TypeOK
<1> QED
  BY Invariance, <1>1, PTL

\* After every block whose updates were accepted the members of the set and
\* their powers are those of the current validators in the store.
THEOREM UpToDate == Spec => []SetIsCurrent
<1>1. IInv => SetIsCurrent
  BY DEF IInv
<1> QED
  BY Invariance, <1>1, PTL

\* Tendermint, told only of the changes, always has the powers of the set.
THEOREM Agreement == Spec => []ConsensusAgrees
<1>1. IInv => ConsensusAgrees
  BY DEF IInv
<1> QED
  BY Invariance, <1>1, PTL
\* Every rotation leaves priorities whose sum is less than the number of
\* members and that are close together, whatever joined, left or was slashed.
THEOREM PrioritiesStayBounded == Spec => []PrioritiesBounded
<1>1. IInv => PrioritiesBounded
  BY DEF IInv, MembersInv, Balanced, PrioritiesBounded
<1> QED
  BY Invariance, <1>1, PTL

\* The numbers that the code keeps in 64 bits: the total never reaches the
\* panic of updateTotalVotingPower, and no priority is further from zero than
\* three times the maximum of the total, which is an eighth of MaxInt64.
NoOverflow ==
    /\ TotalVotingPower(set) <= MaxTotalVotingPower
    /\ \A s \in Members(set) :
          set.priority[s] \in -(3 * MaxTotalVotingPower) .. 3 * MaxTotalVotingPower

\* Priorities around zero that are close are small.
LEMMA CentredAreSmall ==
  ASSUME NEW S, IsFiniteSet(S), S # {}, NEW f, DOMAIN f = S, \A s \in S : f[s] \in Int,
         SumFunctionOnSet(f, S) \in 0 .. Cardinality(S) - 1,
         NEW n \in Int, Near(f, n)
  PROVE  \A s \in S : f[s] \in -n .. n
<1>1. \E s \in S : f[s] <= 0
  <2> SUFFICES ASSUME \A s \in S : f[s] > 0 PROVE FALSE
    OBVIOUS
  <2> DEFINE g == [s \in S |-> f[s] - 1]
  <2>1. \A s \in S : g[s] = f[s] - 1 /\ g[s] \in Nat
    OBVIOUS
  <2> HIDE DEF g
  <2>2. SumFunctionOnSet(g, S) = SumFunctionOnSet(f, S) - Cardinality(S) * 1
    BY <2>1, SumShifted
  <2>3. SumFunctionOnSet(g, S) \in Nat /\ Cardinality(S) \in Nat
    BY <2>1, SumNat, FS_CardinalityType
  <2> QED BY <2>2, <2>3
<1>2. \E s \in S : f[s] >= 0
  <2> SUFFICES ASSUME \A s \in S : f[s] < 0 PROVE FALSE
    OBVIOUS
  <2> DEFINE g == [s \in S |-> -f[s]]
             h == [s \in S |-> 0]
             z == [s \in S |-> g[s] - 1]
  <2>1. \A s \in S : /\ g[s] \in Int /\ f[s] \in Int /\ h[s] = f[s] + g[s] /\ h[s] = 0
                     /\ z[s] = g[s] - 1 /\ z[s] \in Nat
    OBVIOUS
  <2> HIDE DEF g, h, z
  <2>2. SumFunctionOnSet(h, S) = SumFunctionOnSet(f, S) + SumFunctionOnSet(g, S)
    BY <2>1, SumPointwise
  <2>3. SumFunctionOnSet(h, S) = 0
    BY <2>1, SumZero
  <2>4. SumFunctionOnSet(z, S) = SumFunctionOnSet(g, S) - Cardinality(S) * 1
    BY <2>1, SumShifted
  <2>5. SumFunctionOnSet(z, S) \in Nat
    BY <2>1, SumNat
  <2>6. Cardinality(S) \in Nat /\ Cardinality(S) # 0 /\ SumFunctionOnSet(g, S) \in Int
    BY <2>1, SumInt, FS_CardinalityType, FS_EmptySet
  <2> QED BY <2>2, <2>3, <2>4, <2>5, <2>6
<1>3. PICK s \in S, t \in S : f[s] <= 0 /\ f[t] >= 0
  BY <1>1, <1>2
<1>4. ASSUME NEW u \in S PROVE f[u] \in -n .. n
  <2>1. f[u] - f[s] <= n /\ f[t] - f[u] <= n
    BY DEF Near
  <2>2. f[u] \in Int /\ f[s] \in Int /\ f[t] \in Int
    OBVIOUS
  <2> QED BY <1>3, <2>1, <2>2
<1> QED BY <1>4

\* Neither the total nor a priority overflows
\* (types/validator-set.go:256-275, "Total voting power should be guarded").
THEOREM NumbersFit == Spec => []NoOverflow
<1>1. IInv => NoOverflow
  <2> SUFFICES ASSUME IInv PROVE NoOverflow
    OBVIOUS
  <2> DEFINE S == Members(set)
             total == TotalVotingPower(set)
             f == set.priority
  <2>1. WellFormed(set) /\ Balanced(set) /\ total <= MaxTotalVotingPower
    BY DEF IInv, MembersInv
  <2>2. total \in Nat /\ IsFiniteSet(S)
    BY <2>1, TotalPositive DEF WellFormed
  <2>3. S # {} /\ DOMAIN f = S /\ \A s \in S : f[s] \in Int
    BY <2>1 DEF WellFormed
  <2>4. SumFunctionOnSet(f, S) \in 0 .. Cardinality(S) - 1
    BY <2>1, <2>3 DEF Balanced, SumFunction
  <2>5. Spread(set) <= 3 * total
    BY <2>1 DEF Balanced, PriorityWindowSizeFactor
  <2> HIDE DEF S, total, f
  <2>6. Near(f, 3 * total)
    BY <2>2, <2>3, <2>5, SpreadIsNear DEF f
  <2>7. 3 * total \in Int
    BY <2>2
  <2>8. \A s \in S : f[s] \in -(3 * total) .. 3 * total
    BY <2>2, <2>3, <2>4, <2>6, <2>7, CentredAreSmall
  <2>9. ASSUME NEW s \in S
        PROVE  f[s] \in -(3 * MaxTotalVotingPower) .. 3 * MaxTotalVotingPower
    BY <2>1, <2>2, <2>3, <2>8, BoundAssumption
  <2> QED BY <2>1, <2>9 DEF NoOverflow, S, total, f
<1> QED
  BY Invariance, <1>1, PTL

-----------------------------------------------------------------------------
(* Newcomers. The scaling of the priorities brings a newcomer closer to the older
   members, and one of great power could then overtake them. It does not as long
   as they stay and keep their power: where the scaling is due to the newcomer
   itself the distance left is almost the total power, and where it is due to the
   older members the newcomer's power is less than a third of the total. *)

LEMMA SumGrows ==
  ASSUME NEW f, NEW g, NEW S, IsFiniteSet(S),
         \A x \in S : f[x] \in Int /\ g[x] \in Int /\ f[x] <= g[x]
  PROVE  SumFunctionOnSet(f, S) <= SumFunctionOnSet(g, S)
<1> DEFINE h == [x \in S |-> g[x] - f[x]]
<1>1. \A x \in S : f[x] \in Int /\ h[x] \in Int /\ g[x] = f[x] + h[x] /\ h[x] \in Nat
  OBVIOUS
<1> HIDE DEF h
<1>2. SumFunctionOnSet(g, S) = SumFunctionOnSet(f, S) + SumFunctionOnSet(h, S)
  BY <1>1, SumPointwise
<1>3. SumFunctionOnSet(h, S) \in Nat /\ SumFunctionOnSet(f, S) \in Int
  BY <1>1, SumNat, SumInt
<1> QED BY <1>2, <1>3

LEMMA PartOfSum ==
  ASSUME NEW f, NEW S, IsFiniteSet(S), \A x \in S : f[x] \in Nat, NEW x \in S
  PROVE  f[x] <= SumFunctionOnSet(f, S)
<1>1. IsFiniteSet(S \ {x}) /\ \A y \in S : f[y] \in Int
  BY FS_RemoveElement
<1>2. SumFunctionOnSet(f, S) = f[x] + SumFunctionOnSet(f, S \ {x})
  BY <1>1, SumRemove
<1>3. SumFunctionOnSet(f, S \ {x}) \in Nat
  BY <1>1, SumNat
<1> QED BY <1>2, <1>3

\* Somebody is not below zero where the sum is not.
LEMMA FirstNotNegative ==
  ASSUME NEW f, NEW S, IsFiniteSet(S), S # {}, \A x \in S : f[x] \in Int,
         NEW m \in S, \A x \in S : f[x] <= f[m], SumFunctionOnSet(f, S) >= 0
  PROVE  f[m] >= 0
<1> DEFINE zero == [x \in S |-> 0]
           high == [x \in S |-> f[m]]
           c == -f[m]
<1>1. IsFiniteSet(S) /\ Cardinality(S) \in Nat /\ Cardinality(S) > 0
  BY FS_CardinalityType, FS_EmptySet
<1>2. f[m] \in Int /\ c \in Int /\ c = -f[m]
  OBVIOUS
<1>3. /\ \A x \in S : zero[x] \in Int
      /\ \A x \in S : zero[x] = 0
      /\ \A x \in S : high[x] \in Int
      /\ \A x \in S : high[x] = zero[x] - c
      /\ \A x \in S : f[x] <= high[x]
  OBVIOUS
<1> HIDE DEF zero, high, c
<1>4. SumFunctionOnSet(high, S) = SumFunctionOnSet(zero, S) - Cardinality(S) * c
  BY <1>1, <1>2, <1>3, SumShifted
<1>5. SumFunctionOnSet(zero, S) = 0
  BY <1>1, <1>3, SumZero
<1>6. SumFunctionOnSet(f, S) <= SumFunctionOnSet(high, S)
  BY <1>1, <1>3, SumGrows
<1>7. SumFunctionOnSet(f, S) \in Int
  BY <1>1, SumInt
<1> DEFINE k == Cardinality(S)
           top == f[m]
<1> HIDE DEF k, top
<1>8. c = -top /\ k * c <= 0 /\ k \in Nat /\ k > 0 /\ top \in Int
  BY <1>1, <1>2, <1>4, <1>5, <1>6, <1>7 DEF k, top
<1>9. top >= 0
  <2> SUFFICES ASSUME top < 0 PROVE FALSE
    BY <1>8
  <2>1. c \in Nat /\ c > 0
    BY <1>8
  <2>2. k * c >= c
    BY <1>8, <2>1
  <2> QED BY <1>8, <2>1, <2>2
<1> QED BY <1>9 DEF top

\* Shifting moves everyone by the same amount.
LEMMA ShiftMoves ==
  ASSUME NEW vals, WellFormed(vals)
  PROVE  \E avg \in Int : \A s \in Members(vals) :
            ShiftByAvgProposerPriority(vals).priority[s] = vals.priority[s] - avg
<1> DEFINE S == Members(vals)
           p == vals.priority
           avg == SumFunction(p) \div Cardinality(S)
           shifted == ShiftByAvgProposerPriority(vals)
<1>1. IsFiniteSet(S) /\ Cardinality(S) \in Nat /\ Cardinality(S) > 0
  BY TotalPositive DEF WellFormed
<1>2. DOMAIN p = S /\ \A s \in S : p[s] \in Int
  BY DEF WellFormed
<1>3. avg \in Int
  <2>1. SumFunction(p) \in Int
    BY <1>1, <1>2, SumInt DEF SumFunction
  <2> QED BY <1>1, <2>1, DivRest
<1>4. vals = [power |-> vals.power, priority |-> p, proposer |-> vals.proposer]
  BY DEF WellFormed, IsValidatorSet
<1>5. shifted = [vals EXCEPT !.priority = [s \in S |-> p[s] - avg]]
  BY DEF ShiftByAvgProposerPriority
<1> HIDE DEF S, p, avg, shifted
<1>6. shifted.priority = [s \in S |-> p[s] - avg]
  BY <1>4, <1>5
<1>7. \A s \in S : shifted.priority[s] = p[s] - avg
  BY <1>6
<1> QED BY <1>3, <1>7 DEF S, p, shifted

\* A rotation of a set whose priorities are close makes the member proposer that
\* is in front when everyone has moved ahead by its power.
LEMMA RotationTakesFirst ==
  ASSUME NEW vals, WellFormed(vals), Near(vals.priority, 2 * TotalVotingPower(vals))
  PROVE  /\ IncrementProposerPriority(vals).proposer \in Members(vals)
         /\ \A s \in Members(vals) :
              vals.priority[s] + vals.power[s]
                <= vals.priority[IncrementProposerPriority(vals).proposer]
                     + vals.power[IncrementProposerPriority(vals).proposer]
<1> DEFINE S == Members(vals)
           p == vals.priority
           power == vals.power
           total == TotalVotingPower(vals)
           shifted == ShiftByAvgProposerPriority(vals)
           raised == [s \in S |-> shifted.priority[s] + power[s]]
           most == ValWithMostPriority(raised)
<1>1. /\ total \in Nat /\ total > 0 /\ IsFiniteSet(S) /\ S # {} /\ S \subseteq Signer
      /\ Cardinality(S) \in Nat /\ Cardinality(S) > 0
      /\ \A s \in S : power[s] \in Nat
  BY TotalPositive DEF WellFormed
<1>2. DOMAIN p = S /\ \A s \in S : p[s] \in Int
  BY DEF WellFormed
<1>3. RescalePriorities(vals) = vals
  <2>1. 2 * total \in Int
    BY <1>1
  <2>2. Spread(vals) \in Nat /\ Spread(vals) <= 2 * total
    BY <1>1, <1>2, <2>1, SpreadIsNear
  <2>3. ~ (Spread(vals) > 2 * total)
    BY <2>1, <2>2
  <2> QED BY <2>3, Zenon DEF RescalePriorities, PriorityWindowSizeFactor
<1>4. PICK avg \in Int : \A s \in S : shifted.priority[s] = p[s] - avg
  BY ShiftMoves
<1>6. IncrementProposerPriority(vals).proposer = most
  BY <1>3 DEF IncrementProposerPriority
<1> HIDE DEF S, p, power, total, shifted
<1>7. raised \in [S -> Int] /\ \A s \in S : raised[s] = p[s] - avg + power[s]
  BY <1>1, <1>2, <1>4
<1> HIDE DEF raised, most
<1>8. most \in S /\ \A s \in S : raised[s] <= raised[most]
  <2>1. DOMAIN raised = S /\ S \subseteq Nat /\ \A s \in S : raised[s] \in Int
    BY <1>1, <1>7, SignerAssumption
  <2> QED BY <1>1, <2>1, MostPriority DEF most
<1>9. \A s \in S : p[s] + power[s] <= p[most] + power[most]
  BY <1>1, <1>2, <1>4, <1>7, <1>8
<1> QED BY <1>6, <1>8, <1>9 DEF S, p, power

\* Two priorities whose distance is almost the spread stay apart by almost the
\* total when the spread is brought below twice the total (w).
LEMMA ScaledApart ==
  ASSUME NEW w \in Nat, w > 0, NEW d \in Nat, d > w, NEW r, r = (d + w - 1) \div w,
         NEW a \in Nat, NEW k \in Nat, k > 0
  PROVE  /\ r \in Nat /\ r >= 2
         /\ (r - 1) * w + 1 <= d
         /\ Quotient(a, r) \in Int /\ Quotient(-k, r) \in Int
         /\ a + k <= r * (Quotient(a, r) - Quotient(-k, r)) + 2 * (r - 1)
<1>1. r \in Nat /\ r > 0 /\ d <= r * w
  BY RatioCovers
<1>2. d + w - 1 \in Int /\ w * r <= d + w - 1
  BY DivRest
<1>3. r * w = w * r /\ w * r \in Int
  BY <1>1
<1>4. r >= 2
  BY <1>1, <1>3
<1>5. (r - 1) * w = r * w - w
  BY <1>1
<1>6. (r - 1) * w + 1 <= d
  BY <1>2, <1>3, <1>5
<1> DEFINE x == Quotient(a, r)
           y == Quotient(-k, r)
<1>7. x \in Int /\ a < r * x + r
  BY <1>1, QuotientRest
<1>8. y \in Int /\ r * y - r < -k
  <2>1. -k \in Int /\ -k < 0
    OBVIOUS
  <2> QED BY <1>1, <2>1, QuotientRest
<1> HIDE DEF x, y
<1>9. r * (x - y) = r * x - r * y /\ r * x \in Int /\ r * y \in Int
  BY <1>1, <1>7, <1>8
<1>10. a + k <= r * (x - y) + 2 * (r - 1)
  BY <1>1, <1>7, <1>8, <1>9
<1> QED BY <1>1, <1>4, <1>6, <1>7, <1>8, <1>10 DEF x, y

\* The newcomer starts at -k, the first of the older members at a.  Their power is
\* pc and pm, the total now and before (w is twice the one now).
LEMMA StaysBehind ==
  ASSUME NEW total \in Nat, NEW old \in Nat, NEW pc \in Nat, NEW pm \in Nat, pm > 0,
         pc + pm <= total, pc + old <= total, NEW d \in Nat, NEW a \in Nat, NEW k \in Nat,
         k >= total, d > 2 * total, d <= a + k \/ d <= 3 * old,
         NEW r, r = (d + 2 * total - 1) \div (2 * total)
  PROVE  Quotient(-k, r) + pc < Quotient(a, r) + pm
<1> DEFINE w == 2 * total
           x == Quotient(a, r)
           y == Quotient(-k, r)
           g == x - y
<1>1. w \in Nat /\ w > 0 /\ w = 2 * total /\ k > 0
  OBVIOUS
<1> HIDE DEF w
<1>2. /\ r \in Nat /\ r >= 2
      /\ (r - 1) * w + 1 <= d
      /\ x \in Int /\ y \in Int
      /\ a + k <= r * (x - y) + 2 * (r - 1)
  BY <1>1, ScaledApart
<1> HIDE DEF x, y
<1>3. g \in Int /\ x = y + g /\ a + k <= r * g + 2 * (r - 1)
  BY <1>2
<1> HIDE DEF g
<1>4. CASE d <= a + k
  <2>1. (r - 1) * w + 1 <= r * g + 2 * (r - 1) /\ (r - 1) * w \in Int /\ r * g \in Int
    BY <1>1, <1>2, <1>3, <1>4
  <2>2. (r - 1) * w = 2 * ((r - 1) * total) /\ (r - 1) * total \in Int
    BY <1>1, <1>2
  <2> DEFINE e == total - 1
  <2>3. e \in Nat /\ (r - 1) * e = (r - 1) * total - (r - 1)
    BY <1>2
  <2> HIDE DEF e
  <2>4. 2 * ((r - 1) * e) + 1 <= r * g
    BY <1>2, <2>1, <2>2, <2>3
  <2>5. (r - 2) * e >= 0 /\ (r - 2) * e = (r - 1) * e - e
    BY <1>2, <2>3
  <2>6. r * e = (r - 1) * e + e /\ (r - 1) * e \in Int
    BY <1>2, <2>3
  <2>7. r * e < r * g
    BY <2>1, <2>3, <2>4, <2>5, <2>6
  <2>8. total - 1 < g
    BY <1>2, <1>3, <2>3, <2>7, Multiples DEF e
  <2> QED BY <1>2, <1>3, <2>8 DEF x, y
<1>5. CASE d <= 3 * old
  <2>1. r = 2
    <3> SUFFICES ASSUME r >= 3 PROVE FALSE
      BY <1>2
    <3>1. (r - 1) * w >= 2 * w
      BY <1>1, <1>2
    <3>2. (r - 1) * w \in Int
      BY <1>1, <1>2
    <3> QED BY <1>1, <1>2, <1>5, <3>1, <3>2
  <2>2. total <= 2 * g + 2
    BY <1>3, <2>1
  <2> QED BY <1>2, <1>3, <1>5, <2>2 DEF x, y
<1> QED BY <1>4, <1>5

\* What the scaling does to each priority.
LEMMA ScaledTo ==
  ASSUME NEW vals, WellFormed(vals)
  PROVE  \A s \in Members(vals) :
           RescalePriorities(vals).priority[s] =
             IF Spread(vals) > 2 * TotalVotingPower(vals)
             THEN Quotient(vals.priority[s],
                           (Spread(vals) + 2 * TotalVotingPower(vals) - 1)
                              \div (2 * TotalVotingPower(vals)))
             ELSE vals.priority[s]
<1> DEFINE S == Members(vals)
           p == vals.priority
           d == Spread(vals)
           w == 2 * TotalVotingPower(vals)
           r == (d + w - 1) \div w
           q == [s \in S |-> Quotient(p[s], r)]
<1>1. RescalePriorities(vals) = IF d > w THEN [vals EXCEPT !.priority = q] ELSE vals
  BY DEF RescalePriorities, PriorityWindowSizeFactor
<1>2. vals = [power |-> vals.power, priority |-> p, proposer |-> vals.proposer]
  BY DEF WellFormed, IsValidatorSet
<1>3. \A s \in S : q[s] = Quotient(p[s], r)
  OBVIOUS
<1> HIDE DEF S, p, d, w, r, q
<1>4. [vals EXCEPT !.priority = q].priority = q
  BY <1>2
<1>5. \A s \in S : RescalePriorities(vals).priority[s] = IF d > w THEN Quotient(p[s], r) ELSE p[s]
  BY <1>1, <1>3, <1>4 DEF p
<1> QED BY <1>5 DEF S, p, d, w, r

\* How far older members and newcomers of an unscaled set can be from each other.
LEMMA NewcomersSpread ==
  ASSUME NEW f, NEW N, DOMAIN f = N, IsFiniteSet(N), \A s \in N : f[s] \in Int,
         NEW S \in SUBSET N, NEW m \in S, \A s \in S : f[s] <= f[m], f[m] >= 0,
         NEW n \in Int, \A s, t \in S : f[s] - f[t] <= n,
         NEW k \in Nat, \A s \in N \ S : f[s] = -k,
         NEW vals, vals.priority = f
  PROVE  Spread(vals) \in Nat /\ (Spread(vals) <= f[m] + k \/ Spread(vals) <= n)
<1>1. N # {} /\ DOMAIN vals.priority = N /\ \A s \in N : vals.priority[s] \in Int
  OBVIOUS
<1>2. Spread(vals) \in Nat
  <2>1. 0 \in Int
    OBVIOUS
  <2> QED BY <1>1, <2>1, SpreadIsNear
<1>3. PICK x \in N, y \in N : Spread(vals) = f[x] - f[y]
  <2>1. /\ \E s \in N : f[s] = Max(Range(f))
        /\ \E s \in N : f[s] = Min(Range(f))
    BY <1>1, RangeFinite
  <2>2. Spread(vals) = Max(Range(f)) - Min(Range(f))
    BY DEF Spread
  <2> QED BY <2>1, <2>2
<1>4. f[x] <= f[m] /\ f[x] \in Int /\ f[y] \in Int /\ f[m] \in Int
  <2>1. CASE x \in S
    BY <2>1
  <2>2. CASE x \notin S
    BY <2>2
  <2> QED BY <2>1, <2>2
<1>5. CASE y \in S
  <2>1. f[m] - f[y] <= n
    BY <1>5
  <2> QED BY <1>2, <1>3, <1>4, <2>1
<1>6. CASE y \notin S
  <2>1. f[y] = -k
    BY <1>6
  <2> QED BY <1>2, <1>3, <1>4, <2>1
<1> QED BY <1>5, <1>6

\* Before scaling, newcomers are behind by at least the total.
LEMMA NewcomersStart ==
  ASSUME NEW vals, WellFormed(vals),
         NEW changes, changes \in [DOMAIN changes -> Nat], DOMAIN changes \subseteq Signer,
         Members(vals) \subseteq DOMAIN Applied(vals.power, changes)
  PROVE  LET before == Unscaled(vals, changes)
         IN  /\ WellFormed(before)
             /\ before.power = Applied(vals.power, changes)
             /\ UpdateWithChangeSet(vals, changes)
                  = ShiftByAvgProposerPriority(RescalePriorities(before))
             /\ \A s \in Members(vals) : before.priority[s] = vals.priority[s]
             /\ \E k \in Nat : /\ k >= TotalVotingPower(before)
                               /\ \A s \in Members(before) \ Members(vals) :
                                     before.priority[s] = -k
<1> DEFINE S == Members(vals)
           power == Applied(vals.power, changes)
           N == DOMAIN power
           total == UpdatedTotal(vals, changes, Updates(changes))
           before == Unscaled(vals, changes)
           k == total + total \div 8
<1>1. /\ IsValidatorSet(vals) /\ S \subseteq Signer /\ S # {}
      /\ vals.priority \in [S -> Int]
  BY DEF WellFormed
<1>2. (S \cup Updates(changes)) \ Removals(changes) # {}
  <2>1. N = (S \cup Updates(changes)) \ Removals(changes)
    BY DEF Applied, Members
  <2> QED BY <1>1, <2>1
<1>3. /\ WellFormed(before)
      /\ UpdateWithChangeSet(vals, changes)
           = ShiftByAvgProposerPriority(RescalePriorities(before))
  BY <1>1, <1>2, UpdateWellFormed
<1>4. /\ before.power = power
      /\ before.priority = [s \in N |-> IF s \in S THEN vals.priority[s]
                                                   ELSE NewPriority(total)]
  BY DEF Unscaled
<1>5. TotalVotingPower(before) = SumFunction(power)
  BY <1>4 DEF TotalVotingPower
<1>6. total \in Int /\ SumFunction(power) <= total
  BY <1>1, TotalIsCovered
<1>7. TotalVotingPower(before) \in Nat
  BY <1>3, TotalPositive DEF WellFormed
<1>8. Members(before) = N /\ S \subseteq N
  BY <1>4 DEF Members
<1> HIDE DEF total, before, power, N
<1>9. k \in Nat /\ k >= TotalVotingPower(before) /\ NewPriority(total) = -k
  <2>1. total \in Nat /\ TotalVotingPower(before) <= total
    BY <1>5, <1>6, <1>7
  <2>2. total \div 8 \in Nat
    BY <2>1
  <2> QED BY <1>7, <2>1, <2>2 DEF NewPriority
<1>10. \A s \in Members(before) \ S : before.priority[s] = -k
  BY <1>4, <1>8, <1>9
<1>11. \A s \in S : before.priority[s] = vals.priority[s]
  BY <1>4, <1>8
<1> QED BY <1>3, <1>4, <1>9, <1>10, <1>11 DEF before, power

\* The total of a set that grew has room for the power of a newcomer next to the
\* total before, and next to any older member.
LEMMA RoomForNewcomer ==
  ASSUME NEW f, NEW g, NEW S, NEW N, IsFiniteSet(N), S \subseteq N,
         \A x \in N : g[x] \in Nat, \A x \in S : f[x] \in Nat /\ f[x] <= g[x],
         NEW c \in N \ S, NEW m \in S
  PROVE  /\ g[c] + SumFunctionOnSet(f, S) <= SumFunctionOnSet(g, N)
         /\ g[c] + g[m] <= SumFunctionOnSet(g, N)
         /\ SumFunctionOnSet(f, S) \in Nat
<1>1. IsFiniteSet(S) /\ IsFiniteSet(N \ S) /\ S \cap (N \ S) = {} /\ S \cup (N \ S) = N
  BY FS_Subset
<1>2. \A x \in S \cup (N \ S) : g[x] \in Int
  OBVIOUS
<1>3. SumFunctionOnSet(g, S \cup (N \ S)) = SumFunctionOnSet(g, S) + SumFunctionOnSet(g, N \ S)
  BY <1>1, <1>2, SumDisjoint
<1>4. SumFunctionOnSet(g, N) = SumFunctionOnSet(g, S \cup (N \ S))
  BY <1>1, Zenon
<1>5. \A x \in S : g[x] \in Nat
  OBVIOUS
<1>6. \A x \in N \ S : g[x] \in Nat
  OBVIOUS
<1>7. g[m] <= SumFunctionOnSet(g, S) /\ SumFunctionOnSet(g, S) \in Nat
  BY <1>1, <1>5, PartOfSum, SumNat
<1>8. g[c] <= SumFunctionOnSet(g, N \ S) /\ SumFunctionOnSet(g, N \ S) \in Nat
  BY <1>1, <1>6, PartOfSum, SumNat
<1>9. SumFunctionOnSet(f, S) <= SumFunctionOnSet(g, S)
  <2>1. \A x \in S : f[x] \in Int /\ g[x] \in Int /\ f[x] <= g[x]
    BY <1>5
  <2> QED BY <1>1, <2>1, SumGrows
<1>10. SumFunctionOnSet(f, S) \in Nat
  <2>1. \A x \in S : f[x] \in Nat
    OBVIOUS
  <2> QED BY <1>1, <2>1, SumNat
<1>11. g[c] \in Nat /\ g[m] \in Nat
  OBVIOUS
<1> QED BY <1>3, <1>4, <1>7, <1>8, <1>9, <1>10, <1>11

LEMMA NewcomerIsNotFirst ==
  ASSUME NEW vals, WellFormed(vals), Balanced(vals),
         NEW changes, changes \in [DOMAIN changes -> Nat], DOMAIN changes \subseteq Signer,
         \A s \in Members(vals) : /\ s \in DOMAIN Applied(vals.power, changes)
                                  /\ vals.power[s] <= Applied(vals.power, changes)[s]
  PROVE  IncrementProposerPriority(UpdateWithChangeSet(vals, changes)).proposer
           \in Members(vals)
<1> DEFINE S == Members(vals)
           before == Unscaled(vals, changes)
           N == Members(before)
           power == before.power
           p == before.priority
           f == vals.priority
           total == TotalVotingPower(before)
           old == TotalVotingPower(vals)
           scaled == RescalePriorities(before)
           new == UpdateWithChangeSet(vals, changes)
           c == IncrementProposerPriority(new).proposer
           m == ValWithMostPriority(f)
           d == Spread(before)
           r == (d + 2 * total - 1) \div (2 * total)
<1>1. /\ WellFormed(before) /\ power = Applied(vals.power, changes)
      /\ new = ShiftByAvgProposerPriority(scaled)
      /\ \A s \in S : p[s] = f[s]
  BY NewcomersStart
<1>2. PICK k \in Nat : k >= total /\ \A s \in N \ S : p[s] = -k
  BY NewcomersStart
<1>3. /\ total \in Nat /\ total > 0 /\ IsFiniteSet(N) /\ N # {}
      /\ \A s \in N : power[s] \in Nat /\ power[s] > 0
      /\ DOMAIN p = N /\ (\A s \in N : p[s] \in Int)
      /\ total = SumFunctionOnSet(power, N)
  BY <1>1, TotalPositive DEF WellFormed, TotalVotingPower, SumFunction, Members
<1>4. /\ old \in Nat /\ IsFiniteSet(S) /\ S # {} /\ S \subseteq Signer
      /\ \A s \in S : vals.power[s] \in Nat
      /\ DOMAIN f = S /\ (\A s \in S : f[s] \in Int)
      /\ old = SumFunctionOnSet(vals.power, S)
  BY TotalPositive DEF WellFormed, TotalVotingPower, SumFunction, Members
<1>5. S \subseteq N /\ \A s \in S : vals.power[s] <= power[s]
  BY <1>1 DEF Members
<1>6. m \in S /\ \A s \in S : f[s] <= f[m]
  <2>1. DOMAIN f \subseteq Nat
    BY <1>4, SignerAssumption
  <2> QED BY <1>4, <2>1, MostPriority
<1>7. f[m] >= 0
  <2>1. SumFunctionOnSet(f, S) >= 0
    BY <1>4 DEF Balanced, SumFunction
  <2> HIDE DEF m, f, S
  <2> QED BY <1>4, <1>6, <2>1, FirstNotNegative
<1>8. \A s, t \in S : f[s] - f[t] <= 3 * old
  <2>1. Spread(vals) <= 3 * old
    BY DEF Balanced, PriorityWindowSizeFactor
  <2>2. 3 * old \in Int
    BY <1>4
  <2>3. Near(f, 3 * old)
    BY <1>4, <2>1, <2>2, SpreadIsNear
  <2> QED BY <1>4, <2>3 DEF Near
<1>9. /\ WellFormed(scaled) /\ Members(scaled) = N /\ scaled.power = power
      /\ TotalVotingPower(scaled) = total
      /\ Near(scaled.priority, 2 * total)
  BY <1>1, RescaleNear DEF Members, TotalVotingPower
<1>10. /\ WellFormed(new) /\ Members(new) = N /\ new.power = power
       /\ TotalVotingPower(new) = total
       /\ Near(new.priority, 2 * total)
  BY <1>1, <1>9, ShiftCentres DEF Members, TotalVotingPower
<1>11. PICK avg \in Int : \A s \in N : new.priority[s] = scaled.priority[s] - avg
  BY <1>1, <1>9, ShiftMoves
<1>12. /\ c \in N
       /\ \A s \in N : new.priority[s] + power[s] <= new.priority[c] + power[c]
  BY <1>10, RotationTakesFirst
<1>13. \A s \in N : scaled.priority[s] = IF d > 2 * total THEN Quotient(p[s], r) ELSE p[s]
  BY <1>1, ScaledTo
<1>14. \A s \in N : scaled.priority[s] \in Int
  BY <1>9 DEF WellFormed
<1> HIDE DEF S, N, before, power, p, f, total, old, scaled, new, c, m, d, r
<1> SUFFICES ASSUME c \notin S PROVE FALSE
  BY DEF c, S, new
<1>15. d \in Nat /\ (d <= f[m] + k \/ d <= 3 * old)
  <2>1. m \in S /\ (\A s \in S : p[s] <= p[m]) /\ p[m] >= 0 /\ p[m] = f[m]
    BY <1>1, <1>6, <1>7
  <2>2. \A s, t \in S : p[s] - p[t] <= 3 * old
    BY <1>1, <1>8
  <2>3. S \in SUBSET N /\ 3 * old \in Int
    BY <1>4, <1>5
  <2>4. Spread(before) \in Nat /\ (Spread(before) <= p[m] + k \/ Spread(before) <= 3 * old)
    BY <1>2, <1>3, <2>1, <2>2, <2>3, NewcomersSpread DEF p
  <2> QED BY <2>1, <2>4 DEF d
<1>16. /\ power[c] + power[m] <= total /\ power[c] + old <= total
       /\ power[c] \in Nat /\ power[m] \in Nat /\ power[m] > 0
  <2>1. c \in N \ S /\ m \in N
    BY <1>5, <1>6, <1>12
  <2>2. \A x \in N : power[x] \in Nat
    BY <1>3
  <2>3. \A x \in S : vals.power[x] \in Nat /\ vals.power[x] <= power[x]
    BY <1>4, <1>5
  <2>4. /\ power[c] + SumFunctionOnSet(vals.power, S) <= SumFunctionOnSet(power, N)
        /\ power[c] + power[m] <= SumFunctionOnSet(power, N)
    BY <1>3, <1>5, <1>6, <2>1, <2>2, <2>3, RoomForNewcomer
  <2> QED BY <1>3, <1>4, <2>1, <2>4
<1>17. scaled.priority[m] + power[m] <= scaled.priority[c] + power[c]
  BY <1>3, <1>5, <1>6, <1>11, <1>12, <1>14, <1>16
<1>18. p[m] = f[m] /\ f[m] \in Nat /\ p[c] = -k
  BY <1>1, <1>2, <1>4, <1>6, <1>7, <1>12
<1>19. CASE ~ (d > 2 * total)
  <2>1. scaled.priority[m] = f[m] /\ scaled.priority[c] = -k
    BY <1>5, <1>6, <1>12, <1>13, <1>18, <1>19
  <2> QED BY <1>2, <1>3, <1>16, <1>17, <1>18, <2>1
<1>20. CASE d > 2 * total
  <2>1. scaled.priority[m] = Quotient(f[m], r) /\ scaled.priority[c] = Quotient(-k, r)
    BY <1>5, <1>6, <1>12, <1>13, <1>18, <1>20
  <2>2. Quotient(-k, r) + power[c] < Quotient(f[m], r) + power[m]
    BY <1>2, <1>3, <1>4, <1>15, <1>16, <1>18, <1>20, StaysBehind DEF r
  <2>3. /\ Quotient(-k, r) \in Int /\ Quotient(f[m], r) \in Int
    BY <1>5, <1>6, <1>12, <1>14, <2>1
  <2> QED BY <1>16, <1>17, <2>1, <2>2, <2>3
<1> QED BY <1>19, <1>20

\* A newcomer is not the first proposer when the older members stay and keep their
\* power, and the proposer is always a member (computeNewPriorities,
\* IncrementProposerPriority), whatever the set, its powers and the updates are.
THEOREM NewcomersAreLast == Spec => NewcomersWait
<1> DEFINE Steps == /\ set'.proposer \in Members(set)'
                    /\ OldMembersKeep => set'.proposer \in Members(set)
<1>1. ASSUME IInv, IInv', [Next]_vars
      PROVE  Steps
  <2>1. set'.proposer \in Members(set)'
    BY <1>1 DEF IInv, MembersInv, Members
  <2>2. CASE set'.power = set.power
    BY <2>1, <2>2 DEF Members
  <2>3. CASE EndBlock /\ set' # set
    <3> DEFINE changes == GetUpdatedValidators
    <3>1. set' = IncrementProposerPriority(UpdateWithChangeSet(set, changes))
      BY <2>3 DEF EndBlock
    <3>2. WellFormed(set) /\ Balanced(set) /\ RecordsInv /\ MembersInv
      BY <1>1 DEF IInv, MembersInv
    <3>3. changes \in [DOMAIN changes -> Nat] /\ DOMAIN changes \subseteq Signer
      BY <3>2, UpdatesReachCurrent DEF GetUpdatedValidators, RecordsInv
    <3> HIDE DEF changes
    <3>4. set'.power = Applied(set.power, changes)
      BY <3>1, <3>2, <3>3, UpdateAppliesChanges, RotationKeepsPower DEF WellFormed
    <3>5. ASSUME OldMembersKeep PROVE set'.proposer \in Members(set)
      <4>1. \A s \in Members(set) : /\ s \in DOMAIN Applied(set.power, changes)
                                    /\ set.power[s] <= Applied(set.power, changes)[s]
        BY <3>4, <3>5 DEF OldMembersKeep, Members
      <4> QED BY <3>1, <3>2, <3>3, <4>1, NewcomerIsNotFirst
    <3> QED BY <2>1, <3>5
  <2>4. set'.power = set.power \/ (EndBlock /\ set' # set)
    <3>1. CASE CheckpointAck \/ NoAck
      BY <1>1, <3>1, RotationKeepsPower
         DEF CheckpointAck, NoAck, IInv, MembersInv, WellFormed
    <3>2. CASE UNCHANGED set
      BY <3>2
    <3>3. CheckpointAck \/ NoAck \/ EndBlock \/ UNCHANGED set
      BY <1>1 DEF Next, Join, Exit, SignerUpdate, Slash, Unjail, vars
    <3> QED BY <3>1, <3>2, <3>3
  <2> QED BY <2>2, <2>3, <2>4
<1>2. ASSUME IInv, IInv', [Next]_vars
      PROVE  [Steps]_vars
  BY <1>1, <1>2
<1> QED BY <1>2, Invariance, PTL DEF Spec, NewcomersWait

-----------------------------------------------------------------------------
(* The choice of producers. Eligible validators are listed by rank, the binary
   search finds the range a number falls in, ranges are as long as powers, and
   the remainders of the allowed numbers are evenly spread but for one. *)

(* The elements of a finite set of numbers in their order: each is found under
   the number of those that are not larger. *)
LEMMA Ranked ==
  ASSUME NEW S \in SUBSET Nat, IsFiniteSet(S), NEW n, n = Cardinality(S),
         NEW q, q = [i \in 1 .. n |-> CHOOSE s \in S : Cardinality({t \in S : t <= s}) = i]
  PROVE  /\ n \in Nat
         /\ q \in Bijection(1 .. n, S)
<1> DEFINE below(s) == {t \in S : t <= s}
           rank == [s \in S |-> Cardinality(below(s))]
<1>1. n \in Nat
  BY FS_CardinalityType
<1>2. ASSUME NEW s \in S
      PROVE  IsFiniteSet(below(s)) /\ Cardinality(below(s)) \in 1 .. n
  <2>1. below(s) \in SUBSET S /\ s \in below(s)
    OBVIOUS
  <2>2. IsFiniteSet(below(s)) /\ Cardinality(below(s)) <= n
    BY <2>1, FS_Subset
  <2>3. Cardinality(below(s)) \in Nat /\ Cardinality(below(s)) # 0
    BY <2>1, <2>2, FS_CardinalityType, FS_EmptySet
  <2> QED BY <1>1, <2>2, <2>3
<1>3. ASSUME NEW s \in S, NEW u \in S, s < u
      PROVE  Cardinality(below(s)) # Cardinality(below(u))
  <2>1. below(s) \in SUBSET below(u) /\ u \in below(u) /\ u \notin below(s)
    <3>1. s \in Nat /\ u \in Nat /\ \A t \in S : t \in Nat
      OBVIOUS
    <3>2. \A t \in S : t <= s => t <= u
      BY <1>3, <3>1
    <3>3. ~(u <= s) /\ u <= u
      BY <1>3, <3>1
    <3> QED BY <3>2, <3>3, Zenon
  <2>2. IsFiniteSet(below(u))
    BY <1>2
  <2> QED BY <2>1, <2>2, FS_Subset
<1>4. rank \in [S -> 1 .. n]
  BY <1>2
<1>5. \A s, u \in S : rank[s] = rank[u] => s = u
  <2>1. SUFFICES ASSUME NEW s \in S, NEW u \in S, s # u PROVE rank[s] # rank[u]
    OBVIOUS
  <2>2. s < u \/ u < s
    BY <2>1
  <2>3. Cardinality(below(s)) # Cardinality(below(u))
    BY <1>3, <2>2
  <2> QED BY <2>3
<1>6. IsFiniteSet(1 .. n) /\ Cardinality(1 .. n) = n
  BY <1>1, FS_Interval
<1>7. rank \in Injection(S, 1 .. n)
  BY <1>4, <1>5, Fun_IsInj
<1>8. rank \in Surjection(S, 1 .. n)
  BY <1>6, <1>7, FS_Injection
<1>9. \A i \in 1 .. n : \E s \in S : rank[s] = i
  <2> HIDE DEF rank
  <2> QED BY <1>8, Fun_SurjectionProperties
<1>10. \A i \in 1 .. n : q[i] \in S /\ rank[q[i]] = i
  <2>1. SUFFICES ASSUME NEW i \in 1 .. n PROVE q[i] \in S /\ rank[q[i]] = i
    OBVIOUS
  <2>2. q[i] = CHOOSE s \in S : Cardinality({t \in S : t <= s}) = i
    OBVIOUS
  <2>3. \E s \in S : Cardinality({t \in S : t <= s}) = i
    BY <1>9
  <2>4. q[i] \in S /\ Cardinality({t \in S : t <= q[i]}) = i
    BY <2>2, <2>3
  <2> QED BY <2>4
<1>11. q \in [1 .. n -> S]
  BY <1>10
<1> HIDE DEF rank
<1>12. \A i, j \in 1 .. n : q[i] = q[j] => i = j
  <2>1. ASSUME NEW i \in 1 .. n, NEW j \in 1 .. n, q[i] = q[j] PROVE i = j
    <3>1. rank[q[i]] = i /\ rank[q[j]] = j
      BY <1>10, Zenon
    <3> QED BY <2>1, <3>1, Zenon
  <2> QED BY <2>1, Zenon
<1>13. \A s \in S : \E i \in 1 .. n : q[i] = s
  <2>1. SUFFICES ASSUME NEW s \in S PROVE q[rank[s]] = s /\ rank[s] \in 1 .. n
    BY Zenon
  <2>2. rank[s] \in 1 .. n
    BY <1>4
  <2>3. q[rank[s]] \in S /\ rank[q[rank[s]]] = rank[s]
    BY <1>10, <2>2, Zenon
  <2> QED BY <1>5, <2>2, <2>3, Zenon
<1>14. q \in Injection(1 .. n, S) /\ q \in Surjection(1 .. n, S)
  BY <1>11, <1>12, <1>13, Fun_IsInj, Fun_IsSurj, Zenon
<1> QED BY <1>1, <1>14, Fun_IsBij, Zenon

(* The weighted ranges are the sums of the weights up to an entry. *)
LEMMA RangesAddUp ==
  ASSUME NEW n \in Nat, NEW w \in [1 .. n -> Nat], Len(w) = n
  PROVE  \E total \in [0 .. n -> Nat] :
            /\ total[0] = 0
            /\ \A i \in 1 .. n : total[i] = total[i - 1] + w[i]
            /\ \A i, j \in 0 .. n : i <= j => total[i] <= total[j]
            /\ total[n] = SumFunctionOnSet(w, 1 .. n)
            /\ WeightedRanges(w) = [i \in 1 .. n |-> total[i]]
<1> DEFINE IsTotal(t) == t = [i \in 0 .. n |-> IF i = 0 THEN 0 ELSE t[i - 1] + w[i]]
           total == CHOOSE t : IsTotal(t)
           sum(i) == SumFunctionOnSet(w, 1 .. i)
<1>1. sum(0) = 0
  BY SumEmpty
<1>2. ASSUME NEW i \in 1 .. n
      PROVE  sum(i - 1) \in Nat /\ sum(i) = sum(i - 1) + w[i]
  <2>1. IsFiniteSet(1 .. i - 1) /\ i \notin 1 .. i - 1 /\ (1 .. i - 1) \cup {i} = 1 .. i
    <3>1. i - 1 \in Int /\ 1 \in Int
      OBVIOUS
    <3>2. IsFiniteSet(1 .. i - 1)
      BY <3>1, FS_Interval
    <3>3. i \notin 1 .. i - 1 /\ (1 .. i - 1) \cup {i} = 1 .. i
      OBVIOUS
    <3> QED BY <3>2, <3>3
  <2>2. w[i] \in Nat /\ \A y \in 1 .. i - 1 : w[y] \in Nat
    OBVIOUS
  <2>3. SumFunctionOnSet(w, (1 .. i - 1) \cup {i}) = w[i] + SumFunctionOnSet(w, 1 .. i - 1)
    <3>1. w[i] \in Int /\ \A y \in 1 .. i - 1 : w[y] \in Int
      BY <2>2
    <3>2. \A T : IsFiniteSet(T) /\ i \notin T /\ (\A y \in T : w[y] \in Int)
                => SumFunctionOnSet(w, T \cup {i}) = w[i] + SumFunctionOnSet(w, T)
      BY <3>1, SumInsert
    <3> QED BY <2>1, <3>1, <3>2
  <2>4. sum(i - 1) \in Nat
    BY <2>1, <2>2, SumNat
  <2>5. sum(i) = w[i] + sum(i - 1)
    BY <2>1, <2>3, Zenon
  <2> HIDE DEF sum
  <2> QED BY <2>2, <2>4, <2>5
<1>3. \E t : IsTotal(t)
  <2> DEFINE t == [i \in 0 .. n |-> sum(i)]
  <2>1. \A i \in 0 .. n : sum(i) = IF i = 0 THEN 0 ELSE t[i - 1] + w[i]
    <3>1. SUFFICES ASSUME NEW i \in 0 .. n
                   PROVE  sum(i) = IF i = 0 THEN 0 ELSE t[i - 1] + w[i]
      OBVIOUS
    <3>2. CASE i = 0
      BY <1>1, <3>2
    <3>3. CASE i # 0
      <4>1. i \in 1 .. n /\ i - 1 \in 0 .. n
        BY <3>3
      <4>2. t[i - 1] = sum(i - 1)
        BY <4>1
      <4> HIDE DEF sum, t
      <4> QED BY <1>2, <3>3, <4>1, <4>2
    <3> QED BY <3>2, <3>3
  <2>2. IsTotal(t)
    BY <2>1
  <2> QED BY <2>2
<1>4. IsTotal(total)
  BY <1>3
<1> HIDE DEF sum
<1>5. WeightedRanges(w) = [i \in 1 .. n |-> total[i]]
  <2>1. WeightedRanges(w) = [i \in 1 .. Len(w) |-> (CHOOSE t : t = [j \in 0 .. Len(w) |->
                                IF j = 0 THEN 0 ELSE t[j - 1] + w[j]])[i]]
    BY Zenon DEF WeightedRanges
  <2> QED BY <2>1
<1> HIDE DEF total
<1>6. total[0] = 0 /\ \A i \in 1 .. n : total[i] = total[i - 1] + w[i]
  BY <1>4
<1>7. \A i \in 0 .. n : total[i] = sum(i) /\ total[i] \in Nat
  <2> DEFINE Good == {i \in Nat : i <= n => total[i] = sum(i) /\ total[i] \in Nat}
  <2>1. 0 \in Good
    BY <1>1, <1>6
  <2>2. ASSUME NEW i \in Good PROVE i + 1 \in Good
    <3>1. SUFFICES ASSUME i + 1 <= n
                   PROVE  total[i + 1] = sum(i + 1) /\ total[i + 1] \in Nat
      OBVIOUS
    <3>2. i + 1 \in 1 .. n /\ (i + 1) - 1 = i /\ total[i] = sum(i) /\ total[i] \in Nat
      BY <2>2, <3>1
    <3>3. total[i + 1] = total[i] + w[i + 1] /\ sum(i + 1) = sum(i) + w[i + 1]
          /\ w[i + 1] \in Nat
      BY <1>2, <1>6, <3>2
    <3> QED BY <3>2, <3>3
  <2>3. Nat \subseteq Good
    <3>1. Good \in SUBSET Nat
      OBVIOUS
    <3> HIDE DEF Good
    <3> QED BY <2>1, <2>2, <3>1, NatInductionOnSet
  <2> QED BY <2>3
<1>8. total \in [0 .. n -> Nat]
  <2>1. total = [i \in 0 .. n |-> total[i]]
    BY <1>4
  <2> QED BY <1>7, <2>1
<1>9. total[n] = SumFunctionOnSet(w, 1 .. n)
  BY <1>7 DEF sum
<1>10. \A i, j \in 0 .. n : i <= j => total[i] <= total[j]
  <2> DEFINE Good == {j \in Nat : j <= n => \A i \in 0 .. j : total[i] <= total[j]}
  <2>1. 0 \in Good
    BY <1>6
  <2>2. ASSUME NEW j \in Good PROVE j + 1 \in Good
    <3>1. SUFFICES ASSUME j + 1 <= n, NEW i \in 0 .. j + 1
                   PROVE  total[i] <= total[j + 1]
      OBVIOUS
    <3>2. j + 1 \in 1 .. n /\ (j + 1) - 1 = j /\ j \in 0 .. n /\ i \in 0 .. n
      BY <2>2, <3>1
    <3>3. total[j + 1] = total[j] + w[j + 1] /\ w[j + 1] \in Nat /\ total[j] \in Nat
          /\ total[i] \in Nat
      BY <1>6, <1>8, <3>2
    <3>4. i <= j => total[i] <= total[j]
      BY <2>2, <3>2
    <3> QED BY <3>1, <3>2, <3>3, <3>4
  <2>3. Nat \subseteq Good
    <3>1. Good \in SUBSET Nat
      OBVIOUS
    <3> HIDE DEF Good
    <3> QED BY <2>1, <2>2, <3>1, NatInductionOnSet
  <2> QED BY <2>3
<1> QED BY <1>5, <1>6, <1>8, <1>9, <1>10

(* In an array that does not fall, BinarySearch finds the first entry that is
   not less than the target. *)
LEMMA FirstFound ==
  ASSUME NEW n \in Nat \ {0}, NEW a \in [1 .. n -> Nat], Len(a) = n, NEW x \in Nat,
         \A i, j \in 1 .. n : i <= j => a[i] <= a[j], x <= a[n]
  PROVE  /\ BinarySearch(a, x) \in 0 .. n - 1
         /\ x <= a[BinarySearch(a, x) + 1]
         /\ \A j \in 1 .. BinarySearch(a, x) : a[j] < x
<1> DEFINE D == 0 .. n - 1
           mid(p) == (p[1] + p[2]) \div 2
           IsIndex(f) == f = [p \in D \X D |->
                                 IF p[1] >= p[2] THEN p[1]
                                 ELSE IF a[mid(p) + 1] >= x THEN f[<<p[1], mid(p)>>]
                                 ELSE f[<<mid(p) + 1, p[2]>>]]
           index == CHOOSE f : IsIndex(f)
<1>1. PICK k \in D : x <= a[k + 1] /\ \A j \in D : j < k => a[j + 1] < x
  <2> DEFINE T == {j \in D : x <= a[j + 1]}
             R == {p \in D \X D : p[1] <= p[2]}
  <2>1. IsFiniteSet(T)
    <3>1. IsFiniteSet(D)
      BY FS_Interval
    <3> QED BY <3>1, FS_Subset
  <2>2. n - 1 \in T
    OBVIOUS
  <2>3. /\ \A i, j \in T : <<i, j>> \in R \/ <<j, i>> \in R
        /\ \A i, j, m \in T : <<i, j>> \in R /\ <<j, m>> \in R => <<i, m>> \in R
    <3>1. \A i, j \in D : <<i, j>> \in R <=> i <= j
      OBVIOUS
    <3>2. T \subseteq D /\ D \subseteq Int
      OBVIOUS
    <3> HIDE DEF T, R, D
    <3> QED BY <3>1, <3>2
  <2>4. PICK k \in T : \A j \in T : <<k, j>> \in R
    <3> HIDE DEF T, R
    <3> QED BY <2>1, <2>2, <2>3, FiniteFirst
  <2>5. ASSUME NEW j \in D, j < k PROVE a[j + 1] < x
    <3>1. j \notin T
      <4>1. ~(<<k, j>> \in R)
        BY <2>5
      <4> HIDE DEF T, R
      <4> QED BY <2>4, <4>1
    <3> QED BY <3>1
  <2> QED BY <2>4, <2>5
<1>2. \A j \in D : x <= a[j + 1] <=> k <= j
  <2>1. SUFFICES ASSUME NEW j \in D PROVE x <= a[j + 1] <=> k <= j
    OBVIOUS
  <2>2. j + 1 \in 1 .. n /\ k + 1 \in 1 .. n /\ a[j + 1] \in Nat /\ a[k + 1] \in Nat
    OBVIOUS
  <2>3. k <= j => a[k + 1] <= a[j + 1]
    BY <2>2
  <2>4. j < k => a[j + 1] < x
    BY <1>1
  <2> QED BY <1>1, <2>2, <2>3, <2>4
<1>3. \A p \in D \X D : p[1] < p[2] =>
         /\ mid(p) \in D /\ mid(p) + 1 \in D
         /\ p[1] <= mid(p) /\ mid(p) < p[2]
         /\ <<p[1], mid(p)>> \in D \X D /\ <<mid(p) + 1, p[2]>> \in D \X D
  <2>1. ASSUME NEW l \in D, NEW r \in D, l < r
        PROVE  LET m == (l + r) \div 2
               IN  m \in D /\ m + 1 \in D /\ l <= m /\ m < r
    BY <2>1
  <2>2. SUFFICES ASSUME NEW p \in D \X D, p[1] < p[2]
                 PROVE  mid(p) \in D /\ mid(p) + 1 \in D /\ p[1] <= mid(p) /\ mid(p) < p[2]
    <3> HIDE DEF mid
    <3> QED OBVIOUS
  <2>3. p[1] \in D /\ p[2] \in D
    BY <2>2
  <2> HIDE DEF D
  <2> QED BY <2>1, <2>2, <2>3
<1> HIDE DEF mid
<1>4. \E f : IsIndex(f)
  <2> DEFINE near(p) == IF p[1] >= p[2] THEN p[1]
                        ELSE IF k <= p[1] THEN p[1] ELSE IF p[2] <= k THEN p[2] ELSE k
             f == [p \in D \X D |-> near(p)]
  <2>1. ASSUME NEW p \in D \X D
        PROVE  near(p) = IF p[1] >= p[2] THEN p[1]
                         ELSE IF a[mid(p) + 1] >= x THEN f[<<p[1], mid(p)>>]
                         ELSE f[<<mid(p) + 1, p[2]>>]
    <3>1. CASE p[1] >= p[2]
      BY <3>1
    <3>2. CASE p[1] < p[2]
      <4>1. /\ mid(p) \in D /\ mid(p) + 1 \in D
            /\ p[1] <= mid(p) /\ mid(p) < p[2]
            /\ <<p[1], mid(p)>> \in D \X D /\ <<mid(p) + 1, p[2]>> \in D \X D
        BY <1>3, <3>2
      <4>2. a[mid(p) + 1] >= x <=> k <= mid(p)
        BY <1>2, <4>1
      <4>3. f[<<p[1], mid(p)>>] = near(<<p[1], mid(p)>>)
            /\ f[<<mid(p) + 1, p[2]>>] = near(<<mid(p) + 1, p[2]>>)
        BY <4>1
      <4>4. k <= mid(p) => near(p) = near(<<p[1], mid(p)>>)
        BY <3>2, <4>1
      <4>5. k > mid(p) => near(p) = near(<<mid(p) + 1, p[2]>>)
        BY <3>2, <4>1
      <4> HIDE DEF near, f
      <4> QED BY <3>2, <4>1, <4>2, <4>3, <4>4, <4>5
    <3> QED BY <3>1, <3>2
  <2>2. IsIndex(f)
    <3> HIDE DEF near
    <3> QED BY <2>1
  <2> QED BY <2>2
<1>5. IsIndex(index)
  BY <1>4, Zenon
<1>6. BinarySearch(a, x) = index[<<0, n - 1>>]
  <2>1. BinarySearch(a, x) = (CHOOSE f : f = [p \in (0 .. Len(a) - 1) \X (0 .. Len(a) - 1) |->
                                 IF p[1] >= p[2] THEN p[1]
                                 ELSE IF a[(p[1] + p[2]) \div 2 + 1] >= x
                                      THEN f[<<p[1], (p[1] + p[2]) \div 2>>]
                                 ELSE f[<<(p[1] + p[2]) \div 2 + 1, p[2]>>]])[<<0, Len(a) - 1>>]
    BY Zenon DEF BinarySearch
  <2> QED BY <2>1 DEF mid
<1> HIDE DEF index
<1> DEFINE Good == {d \in Nat : \A l, r \in D :
                       l <= k /\ k <= r /\ r - l <= d => index[<<l, r>>] = k}
<1>7. 0 \in Good
  <2>1. ASSUME NEW l \in D, NEW r \in D, l <= k, k <= r, r - l <= 0
        PROVE  index[<<l, r>>] = k
    <3>1. l = k /\ <<l, r>> \in D \X D /\ l >= r
      BY <2>1
    <3>2. index[<<l, r>>] = l
      BY <1>5, <3>1
    <3> QED BY <3>1, <3>2
  <2> QED BY <2>1
<1>8. ASSUME NEW d \in Good PROVE d + 1 \in Good
  <2>1. ASSUME NEW l \in D, NEW r \in D, l <= k, k <= r, r - l <= d + 1
        PROVE  index[<<l, r>>] = k
    <3> DEFINE p == <<l, r>>
               m == mid(p)
    <3>1. CASE l >= r
      <4>1. index[<<l, r>>] = l
        BY <1>5, <3>1
      <4> QED BY <2>1, <3>1, <4>1
    <3>2. CASE l < r
      <4>1. /\ m \in D /\ m + 1 \in D /\ l <= m /\ m < r
            /\ <<l, m>> \in D \X D /\ <<m + 1, r>> \in D \X D
        BY <1>3, <3>2
      <4>2. a[m + 1] >= x <=> k <= m
        BY <1>2, <4>1
      <4>3. index[<<l, r>>] = IF a[m + 1] >= x THEN index[<<l, m>>] ELSE index[<<m + 1, r>>]
        <5>1. p \in D \X D /\ p[1] = l /\ p[2] = r /\ ~(p[1] >= p[2])
          BY <3>2
        <5>2. index[p] = IF p[1] >= p[2] THEN p[1]
                         ELSE IF a[mid(p) + 1] >= x THEN index[<<p[1], mid(p)>>]
                         ELSE index[<<mid(p) + 1, p[2]>>]
          BY <1>5, <5>1
        <5> QED BY <5>1, <5>2
      <4> HIDE DEF m
      <4>4. k <= m => index[<<l, m>>] = k
        BY <1>8, <2>1, <4>1
      <4>5. k > m => index[<<m + 1, r>>] = k
        BY <1>8, <2>1, <4>1
      <4> QED BY <4>1, <4>2, <4>3, <4>4, <4>5
    <3> QED BY <3>1, <3>2
  <2>2. d + 1 \in Nat
    BY <1>8
  <2>3. \A l, r \in D : l <= k /\ k <= r /\ r - l <= d + 1 => index[<<l, r>>] = k
    BY <2>1
  <2> HIDE DEF D
  <2> QED BY <2>2, <2>3
<1>9. n - 1 \in Good
  <2>1. Good \in SUBSET Nat /\ n - 1 \in Nat
    OBVIOUS
  <2> HIDE DEF Good
  <2> QED BY <1>7, <1>8, <2>1, NatInductionOnSet
<1>10. BinarySearch(a, x) = k
  BY <1>6, <1>9
<1>11. \A j \in 1 .. k : a[j] < x
  <2>1. ASSUME NEW j \in 1 .. k PROVE a[j] < x
    <3>1. j - 1 \in D /\ j - 1 < k /\ (j - 1) + 1 = j
      OBVIOUS
    <3> QED BY <1>1, <3>1
  <2> QED BY <2>1
<1> QED BY <1>1, <1>10, <1>11

(* The rest of a division is what is left of whole multiples. *)
LEMMA RestOf ==
  ASSUME NEW t \in Nat \ {0}, NEW k \in Nat, NEW y \in 0 .. t - 1
  PROVE  (t * k + y) % t = y
<1> DEFINE r == t * k + y
           d == r \div t
           m == r % t
<1>1. t * k \in Nat
  OBVIOUS
<1>2. r \in Nat /\ r = t * k + y
  BY <1>1
<1>3. d \in Int /\ m \in 0 .. t - 1 /\ r = t * d + m
  BY <1>2
<1> HIDE DEF r, d, m
<1>4. t * (k + 1) = t * k + t /\ t * (d + 1) = t * d + t /\ t * d \in Int
  BY <1>3
<1>5. t * k < t * (d + 1) /\ t * d < t * (k + 1)
  BY <1>1, <1>2, <1>3, <1>4
<1>6. k < d + 1 /\ d < k + 1
  BY <1>3, <1>5, Multiples
<1>7. d = k
  BY <1>3, <1>6
<1>8. m = y
  BY <1>1, <1>2, <1>3, <1>7
<1> QED BY <1>8 DEF m, r

(* In k whole rounds of t numbers each rest comes k times. *)
LEMMA CountRests ==
  ASSUME NEW t \in Nat \ {0}, NEW lo \in 0 .. t, NEW hi \in lo .. t, NEW k \in Nat
  PROVE  LET s == {r \in 0 .. t * k - 1 : (r % t) \in lo .. hi - 1}
         IN  IsFiniteSet(s) /\ Cardinality(s) = k * (hi - lo)
<1> DEFINE of(j) == {r \in 0 .. t * j - 1 : (r % t) \in lo .. hi - 1}
           new(j) == t * j + lo .. t * j + hi - 1
           Good == {j \in Nat : IsFiniteSet(of(j)) /\ Cardinality(of(j)) = j * (hi - lo)}
<1>1. 0 \in Good
  <2>1. t * 0 = 0 /\ 0 * (hi - lo) = 0
    OBVIOUS
  <2>2. of(0) = {}
    BY <2>1
  <2> QED BY <2>1, <2>2, FS_EmptySet
<1>2. ASSUME NEW j \in Good PROVE j + 1 \in Good
  <2>1. t * j \in Nat /\ t * (j + 1) = t * j + t /\ j \in Nat
        /\ (j + 1) * (hi - lo) = j * (hi - lo) + (hi - lo)
    BY <1>2
  <2>2. \A y \in 0 .. t - 1 : (t * j + y) % t = y
    BY <2>1, RestOf
  <2>3. \A r \in t * j .. t * (j + 1) - 1 : (r % t) = r - t * j
    <3>1. ASSUME NEW r \in t * j .. t * (j + 1) - 1 PROVE (r % t) = r - t * j
      <4> DEFINE y == r - t * j
      <4>1. y \in 0 .. t - 1 /\ r = t * j + y
        BY <2>1
      <4> HIDE DEF y
      <4>2. r % t = y
        BY <2>2, <4>1
      <4> QED BY <4>2 DEF y
    <3> QED BY <3>1
  <2>4. of(j + 1) = of(j) \cup new(j)
    <3> DEFINE a == t * j
               b == t * (j + 1)
    <3>1. a \in Nat /\ b = a + t
      BY <2>1
    <3>2. \A r \in a .. b - 1 : (r % t) = r - a
      BY <2>3
    <3>3. /\ of(j) = {r \in 0 .. a - 1 : (r % t) \in lo .. hi - 1}
          /\ of(j + 1) = {r \in 0 .. b - 1 : (r % t) \in lo .. hi - 1}
          /\ new(j) = a + lo .. a + hi - 1
      OBVIOUS
    <3> HIDE DEF a, b, of, new
    <3>4. ASSUME NEW r \in 0 .. b - 1, (r % t) \in lo .. hi - 1
          PROVE  r \in of(j) \cup new(j)
      <4>1. CASE r < a
        BY <3>1, <3>3, <3>4, <4>1
      <4>2. CASE r >= a
        <5>1. r \in a .. b - 1
          BY <3>1, <4>2
        <5>2. r - a \in lo .. hi - 1
          BY <3>2, <3>4, <5>1
        <5>3. r \in a + lo .. a + hi - 1
          BY <3>1, <5>1, <5>2
        <5> QED BY <3>3, <5>3
      <4> QED BY <3>1, <4>1, <4>2
    <3>5. ASSUME NEW r \in new(j)
          PROVE  r \in 0 .. b - 1 /\ (r % t) \in lo .. hi - 1
      <4>1. r \in a .. b - 1 /\ r - a \in lo .. hi - 1
        BY <3>1, <3>3
      <4> QED BY <3>1, <3>2, <4>1
    <3>6. of(j) \subseteq of(j + 1)
      BY <3>1, <3>3
    <3> QED BY <3>3, <3>4, <3>5, <3>6
  <2>5. of(j) \cap new(j) = {}
    BY <2>1
  <2>6. IsFiniteSet(of(j)) /\ Cardinality(of(j)) = j * (hi - lo)
    BY <1>2
  <2>7. IsFiniteSet(new(j)) /\ Cardinality(new(j)) = hi - lo
    <3> DEFINE a == t * j + lo
               b == t * j + hi - 1
    <3>1. a \in Int /\ b \in Int /\ (IF a > b THEN 0 ELSE b - a + 1) = hi - lo
      BY <2>1
    <3>2. new(j) = a .. b
      OBVIOUS
    <3> HIDE DEF a, b, new
    <3> QED BY <3>1, <3>2, FS_Interval
  <2>8. IsFiniteSet(of(j) \cup new(j))
        /\ Cardinality(of(j) \cup new(j))
             = Cardinality(of(j)) + Cardinality(new(j)) - Cardinality({})
    <3> HIDE DEF of, new
    <3> QED BY <2>5, <2>6, <2>7, FS_Union
  <2>9. Cardinality(of(j + 1)) = (j + 1) * (hi - lo)
    <3> HIDE DEF of, new
    <3> DEFINE c == j * (hi - lo)
    <3>1. c \in Int /\ (j + 1) * (hi - lo) = c + (hi - lo) /\ hi - lo \in Int
      BY <2>1
    <3>2. Cardinality(of(j)) = c
      BY <2>6
    <3> HIDE DEF c
    <3>3. Cardinality(of(j) \cup new(j)) = c + (hi - lo)
      BY <2>7, <2>8, <3>1, <3>2, FS_EmptySet
    <3> QED BY <2>4, <3>1, <3>3
  <2>10. IsFiniteSet(of(j + 1))
    <3> HIDE DEF of, new
    <3> QED BY <2>4, <2>8
  <2> HIDE DEF of
  <2> QED BY <2>1, <2>9, <2>10
<1>3. k \in Good
  <2>1. Good \in SUBSET Nat
    OBVIOUS
  <2> HIDE DEF Good
  <2> QED BY <1>1, <1>2, <2>1, NatInductionOnSet
<1> QED BY <1>3

(* The allowed numbers are whole rounds but for the last number. *)
LEMMA CountAllowed ==
  ASSUME NEW t \in Nat \ {0}, NEW lo \in 0 .. t, NEW hi \in lo .. t
  PROVE  LET fair == (MaxUint64 \div t) * (hi - lo)
         IN  Cardinality({r \in Allowed(t) : (r % t) \in lo .. hi - 1}) \in {fair - 1, fair}
<1> DEFINE k == MaxUint64 \div t
           all == {r \in 0 .. t * k - 1 : (r % t) \in lo .. hi - 1}
<1>1. MaxUint64 \in Nat
  BY ProducersAssumption
<1>2. k \in Int /\ (MaxUint64 % t) \in 0 .. t - 1 /\ MaxUint64 = t * k + (MaxUint64 % t)
  BY <1>1
<1>3. k \in Nat
  <2> HIDE DEF k
  <2>1. t * (-1) < t * k
    BY <1>1, <1>2
  <2>2. -1 < k
    BY <1>2, <2>1, Multiples
  <2> QED BY <1>2, <2>2
<1>4. Allowed(t) = 0 .. t * k - 2 /\ t * k \in Int
  <2>1. MaxUint64 - (MaxUint64 % t) = t * k /\ t * k \in Int
    <3> DEFINE m == MaxUint64 % t
    <3>1. m \in Int /\ MaxUint64 = t * k + m /\ t * k \in Int
      BY <1>2, <1>3
    <3> HIDE DEF m, k
    <3>2. MaxUint64 - m = t * k
      BY <1>1, <3>1
    <3> QED BY <3>1, <3>2 DEF m
  <2> QED BY <2>1 DEF Allowed
<1> HIDE DEF k
<1>5. IsFiniteSet(all) /\ Cardinality(all) = k * (hi - lo)
  BY <1>3, CountRests
<1>6. {r \in Allowed(t) : (r % t) \in lo .. hi - 1} = all \ {t * k - 1}
  <2> DEFINE a == t * k
  <2>1. a \in Int /\ Allowed(t) = 0 .. a - 2
    BY <1>4
  <2>2. all = {r \in 0 .. a - 1 : (r % t) \in lo .. hi - 1}
    OBVIOUS
  <2> HIDE DEF a, all
  <2>3. 0 .. a - 2 = (0 .. a - 1) \ {a - 1}
    BY <2>1
  <2>4. {r \in Allowed(t) : (r % t) \in lo .. hi - 1} = all \ {a - 1}
    BY <2>1, <2>2, <2>3
  <2> QED BY <2>4 DEF a
<1>7. Cardinality(all \ {t * k - 1}) \in {k * (hi - lo) - 1, k * (hi - lo)}
  <2> HIDE DEF all
  <2> QED BY <1>5, FS_RemoveElement
<1> QED BY <1>6, <1>7 DEF k

Eligible == {s \in CurrentValidators : validators[s].end = 0}

RestIn(r, t, lo, hi) == (r % t) \in lo .. hi - 1

PowersOf(q) == [i \in DOMAIN q |-> validators[q[i]].power]

(* The ranges of the eligible validators, one after the other, up to the total. *)
AreRanges(total) ==
    LET n == Cardinality(Eligible)
        q == SpanEligibleValidators
    IN  /\ total \in [0 .. n -> Nat]
        /\ total[0] = 0 /\ total[n] = TotalEligiblePower
        /\ \A i \in 1 .. n : total[i] = total[i - 1] + validators[q[i]].power
        /\ \A i, j \in 0 .. n : i <= j => total[i] <= total[j]
        /\ WeightedRanges(PowersOf(q)) = [i \in 1 .. n |-> total[i]]

LEMMA EligibleListed ==
  ASSUME RecordsInv, NEW n, n = Cardinality(Eligible)
  PROVE  /\ n \in Nat /\ IsFiniteSet(Eligible)
         /\ \A s \in Eligible : validators[s].power \in Nat \ {0} /\ s \in DOMAIN validators
         /\ SpanEligibleValidators \in Bijection(1 .. n, Eligible)
<1>1. Eligible \in SUBSET Nat /\ IsFiniteSet(Eligible)
  <2>1. Eligible \in SUBSET Signer
    BY DEF Eligible, CurrentValidators, RecordsInv
  <2> QED BY <2>1, SignerAssumption, FS_Subset
<1>2. \A s \in Eligible : validators[s].power \in Nat \ {0} /\ s \in DOMAIN validators
  <2>1. SUFFICES ASSUME NEW s \in Eligible
                 PROVE  validators[s].power \in Nat \ {0} /\ s \in DOMAIN validators
    OBVIOUS
  <2>2. s \in DOMAIN validators /\ validators[s].power > 0
    BY DEF Eligible, CurrentValidators, IsCurrentValidator
  <2>3. validators[s] \in Record
    BY <2>2 DEF RecordsInv
  <2> QED BY <2>2, <2>3 DEF Record
<1>3. SpanEligibleValidators =
        [i \in 1 .. n |-> CHOOSE s \in Eligible : Cardinality({t \in Eligible : t <= s}) = i]
  BY Zenon DEF SpanEligibleValidators, Eligible
<1>4. n \in Nat /\ SpanEligibleValidators \in Bijection(1 .. n, Eligible)
  BY <1>1, <1>3, Ranked
<1> QED BY <1>1, <1>2, <1>4

LEMMA EligibleRanges ==
  ASSUME RecordsInv
  PROVE  \E total : AreRanges(total)
<1> DEFINE n == Cardinality(Eligible)
           q == SpanEligibleValidators
           w == [i \in DOMAIN q |-> validators[q[i]].power]
           power == [s \in Eligible |-> validators[s].power]
<1>1. /\ n \in Nat /\ IsFiniteSet(Eligible)
      /\ \A s \in Eligible : validators[s].power \in Nat
      /\ q \in Bijection(1 .. n, Eligible)
  BY EligibleListed
<1> HIDE DEF n, q
<1>2. /\ q \in [1 .. n -> Eligible]
      /\ \A i, j \in 1 .. n : q[i] = q[j] => i = j
      /\ \A s \in Eligible : \E i \in 1 .. n : q[i] = s
  BY <1>1, Fun_BijectionProperties, Fun_SurjectionProperties
<1>3. DOMAIN q = 1 .. n
  BY <1>2
<1>4. w \in [1 .. n -> Nat]
  BY <1>1, <1>2
<1>5. Len(w) = n
  <2>1. DOMAIN w = 1 .. n
    BY <1>3
  <2> QED BY <1>1, <1>4, <2>1
<1>6. PICK total \in [0 .. n -> Nat] :
            /\ total[0] = 0
            /\ \A i \in 1 .. n : total[i] = total[i - 1] + w[i]
            /\ \A i, j \in 0 .. n : i <= j => total[i] <= total[j]
            /\ total[n] = SumFunctionOnSet(w, 1 .. n)
            /\ WeightedRanges(w) = [i \in 1 .. n |-> total[i]]
  <2> HIDE DEF w
  <2> QED BY <1>1, <1>4, <1>5, RangesAddUp
<1>7. ToSet(q) = Eligible
  BY <1>2, <1>3 DEF ToSet
<1>8. TotalEligiblePower = SumFunctionOnSet(power, Eligible)
  <2>1. TotalEligiblePower = SumFunction([s \in ToSet(q) |-> validators[s].power])
    BY DEF TotalEligiblePower, q
  <2>2. TotalEligiblePower = SumFunction(power)
    BY <1>7, <2>1, Zenon
  <2>3. DOMAIN power = Eligible
    OBVIOUS
  <2>4. SumFunction(power) = SumFunctionOnSet(power, DOMAIN power)
    BY SumIsLibrary
  <2> HIDE DEF power
  <2> QED BY <2>2, <2>3, <2>4, Zenon
<1>9. SumFunctionOnSet(w, 1 .. n) = SumFunctionOnSet(power, Eligible)
  <2> DEFINE K == 1 .. n
             group == [i \in K |-> {q[i]}]
  <2>1. IsFiniteSet(K) /\ group \in [K -> SUBSET Eligible]
    BY <1>1, <1>2, FS_Interval
  <2>2. \A s \in Eligible : power[s] \in Int /\ \E i \in K : s \in group[i]
    BY <1>1, <1>2
  <2>3. \A i, j \in K : i # j => group[i] \cap group[j] = {}
    BY <1>2
  <2>4. \A i \in K : w[i] = SumFunctionOnSet(power, group[i])
    <3>1. SUFFICES ASSUME NEW i \in K PROVE w[i] = SumFunctionOnSet(power, group[i])
      OBVIOUS
    <3>2. q[i] \in Eligible /\ power[q[i]] \in Int /\ w[i] = power[q[i]]
      BY <1>1, <1>2, <1>3
    <3>3. SumFunctionOnSet(power, {} \cup {q[i]})
            = power[q[i]] + SumFunctionOnSet(power, {})
      <4> HIDE DEF power
      <4> QED BY <3>2, FS_EmptySet, SumInsert
    <3>4. {} \cup {q[i]} = group[i]
      OBVIOUS
    <3>5. SumFunctionOnSet(power, {} \cup {q[i]}) = SumFunctionOnSet(power, group[i])
      BY <3>4, Zenon
    <3>6. SumFunctionOnSet(power, {}) = 0
      BY SumEmpty
    <3> HIDE DEF power, group, w
    <3> QED BY <3>2, <3>3, <3>5, <3>6
  <2> HIDE DEF K, group, power, w
  <2>5. SumFunctionOnSet(w, K) = SumFunctionOnSet(power, Eligible)
    BY <1>1, <2>1, <2>2, <2>3, <2>4, SumGroups
  <2> QED BY <2>5 DEF K
<1>10. total[n] = TotalEligiblePower
  BY <1>6, <1>8, <1>9, Zenon
<1>11. \A i \in 1 .. n : total[i] = total[i - 1] + validators[q[i]].power
  BY <1>3, <1>6
<1>12. WeightedRanges(PowersOf(q)) = WeightedRanges(w)
  BY Zenon DEF PowersOf
<1> HIDE DEF w
<1>13. WeightedRanges(PowersOf(q)) = [i \in 1 .. n |-> total[i]]
  BY <1>6, <1>12
<1> QED BY <1>6, <1>10, <1>11, <1>13 DEF AreRanges, n, q

(* A number selects the validator in whose range its rest is. *)
LEMMA DrawnByRest ==
  ASSUME RecordsInv, Eligible # {}, NEW total, AreRanges(total),
         TotalEligiblePower # 0, NEW r \in Nat, NEW i \in 1 .. Cardinality(Eligible)
  PROVE  Drawn(SpanEligibleValidators, r) = SpanEligibleValidators[i]
           <=> RestIn(r, TotalEligiblePower, total[i - 1], total[i])
<1> DEFINE n == Cardinality(Eligible)
           q == SpanEligibleValidators
           t == TotalEligiblePower
<1>0. /\ total \in [0 .. n -> Nat] /\ total[0] = 0 /\ total[n] = t
      /\ \A j, m \in 0 .. n : j <= m => total[j] <= total[m]
      /\ WeightedRanges(PowersOf(q)) = [j \in 1 .. n |-> total[j]]
  BY DEF AreRanges
<1>1. /\ n \in Nat \ {0}
      /\ q \in [1 .. n -> Eligible]
      /\ \A j, m \in 1 .. n : q[j] = q[m] => j = m
  BY EligibleListed, Fun_BijectionProperties, FS_EmptySet
<1> HIDE DEF n, q, t
<1>2. n \in 0 .. n /\ t \in Nat \ {0} /\ i \in 1 .. n
  BY <1>0, <1>1 DEF n, t
<1> DEFINE ranges == [j \in 1 .. n |-> total[j]]
           x == 1 + (r % t)
           k == BinarySearch(ranges, x)
<1>3. /\ ranges \in [1 .. n -> Nat] /\ Len(ranges) = n /\ ranges[n] = t
      /\ Last(ranges) = t
  <2>1. ranges \in [1 .. n -> Nat] /\ Len(ranges) = n /\ ranges[n] = t
    BY <1>0, <1>1, <1>2
  <2> QED BY <2>1 DEF Last
<1>4. Drawn(q, r) = q[1 + k]
  <2>1. Drawn(q, r) = q[1 + BinarySearch(ranges, 1 + (r % Last(ranges)))]
    <3>1. Drawn(q, r) = q[1 + BinarySearch(WeightedRanges(PowersOf(q)),
                                           1 + (r % Last(WeightedRanges(PowersOf(q)))))]
      BY Zenon DEF Drawn, PowersOf
    <3> QED BY <1>0, <3>1, Zenon
  <2> QED BY <1>3, <2>1, Zenon
<1>5. (r % t) \in 0 .. t - 1 /\ x \in 1 .. t
  BY <1>2
<1>6. \A j, m \in 1 .. n : j <= m => ranges[j] <= ranges[m]
  BY <1>0, <1>1
<1>7. /\ k \in 0 .. n - 1
      /\ x <= ranges[k + 1]
      /\ \A j \in 1 .. k : ranges[j] < x
  <2>1. x \in Nat /\ x <= ranges[n]
    BY <1>3, <1>5
  <2> HIDE DEF ranges, x
  <2> QED BY <1>1, <1>3, <1>6, <2>1, FirstFound
<1> HIDE DEF k, x
<1>8. x <= total[k + 1] /\ total[k] < x
  <2>1. x <= total[k + 1]
    <3>1. k + 1 \in 1 .. n
      BY <1>1, <1>7
    <3>2. ranges[k + 1] = total[k + 1]
      BY <3>1
    <3> HIDE DEF ranges
    <3> QED BY <1>7, <3>2
  <2>2. CASE k = 0
    BY <1>0, <1>5, <2>1, <2>2
  <2>3. CASE k # 0
    <3>1. k \in 1 .. n /\ k \in 1 .. k
      BY <1>1, <1>7, <2>3
    <3>2. ranges[k] < x /\ ranges[k] = total[k]
      BY <1>7, <3>1
    <3> HIDE DEF ranges
    <3> QED BY <2>1, <3>2
  <2> QED BY <2>2, <2>3
<1>9. k + 1 = i <=> x <= total[i] /\ total[i - 1] < x
  <2>1. ASSUME k + 1 < i PROVE x <= total[i - 1]
    <3>1. k + 1 \in 0 .. n /\ i - 1 \in 0 .. n /\ k + 1 <= i - 1
      BY <1>1, <1>2, <1>7, <2>1
    <3>2. total[k + 1] <= total[i - 1] /\ total[k + 1] \in Nat /\ total[i - 1] \in Nat
      BY <1>0, <3>1
    <3> QED BY <1>5, <1>8, <3>2
  <2>2. ASSUME k + 1 > i PROVE total[i] < x
    <3>1. k \in 0 .. n /\ i \in 0 .. n /\ i <= k
      BY <1>1, <1>2, <1>7, <2>2
    <3>2. total[i] <= total[k] /\ total[i] \in Nat /\ total[k] \in Nat
      BY <1>0, <3>1
    <3> QED BY <1>5, <1>8, <3>2
  <2>3. total[i] \in Nat /\ total[i - 1] \in Nat
    BY <1>0, <1>1, <1>2
  <2>4. k + 1 = i => i - 1 = k
    BY <1>1, <1>2, <1>7
  <2>5. k + 1 < i \/ k + 1 = i \/ k + 1 > i
    BY <1>1, <1>2, <1>7
  <2> QED BY <1>5, <1>8, <2>1, <2>2, <2>3, <2>4, <2>5
<1>10. x <= total[i] /\ total[i - 1] < x <=> (r % t) \in total[i - 1] .. total[i] - 1
  <2>1. total[i] \in Nat /\ total[i - 1] \in Nat /\ (r % t) \in Int
    BY <1>0, <1>1, <1>2, <1>5
  <2> QED BY <2>1 DEF x
<1>11. q[1 + k] = q[i] <=> k + 1 = i
  BY <1>1, <1>2, <1>7
<1>12. Drawn(q, r) = q[i] <=> RestIn(r, t, total[i - 1], total[i])
  BY <1>4, <1>9, <1>10, <1>11 DEF RestIn
<1> QED BY <1>12 DEF q, t

(* What the theorem says of a state. *)
LEMMA SelectionIsFair ==
  ASSUME RecordsInv
  PROVE  ProducersFollowPower
<1> DEFINE n == Cardinality(Eligible)
           q == SpanEligibleValidators
           t == TotalEligiblePower
           fair(s) == (MaxUint64 \div t) * validators[s].power
           drawn == [r \in Allowed(t) |-> Drawn(q, r)]
           numbers(s) == Cardinality({r \in DOMAIN drawn : drawn[r] = s})
<1>1. /\ n \in Nat /\ IsFiniteSet(Eligible)
      /\ \A s \in Eligible : validators[s].power \in Nat \ {0} /\ s \in DOMAIN validators
      /\ q \in Bijection(1 .. n, Eligible)
  BY EligibleListed
<1>2. /\ q \in [1 .. n -> Eligible]
      /\ \A s \in Eligible : \E i \in 1 .. n : q[i] = s
  BY <1>1, Fun_BijectionProperties, Fun_SurjectionProperties
<1>3. ToSet(q) = Eligible
  BY <1>2 DEF ToSet
<1>4. Eligible \subseteq bound
  BY <1>1 DEF RecordsInv
<1>5. Len(q) = n
  BY <1>1, <1>2
<1>6. PICK total : AreRanges(total)
  BY EligibleRanges
<1>8. /\ total \in [0 .. n -> Nat] /\ total[n] = t
      /\ \A i \in 1 .. n : total[i] = total[i - 1] + validators[q[i]].power
      /\ \A i, j \in 0 .. n : i <= j => total[i] <= total[j]
  BY <1>6 DEF AreRanges
<1>9. \A r \in Nat, i \in 1 .. n : t # 0 /\ Eligible # {} =>
         (Drawn(q, r) = q[i] <=> RestIn(r, t, total[i - 1], total[i]))
  BY <1>6, DrawnByRest
<1> HIDE DEF n, q, t
<1>7. ASSUME NEW s \in Eligible
      PROVE  numbers(s) \in {fair(s) - 1, fair(s)}
  <2>1. PICK i \in 1 .. n : q[i] = s
    BY <1>2
  <2> DEFINE lo == total[i - 1]
             hi == total[i]
  <2>2. n \in Nat \ {0} /\ i - 1 \in 0 .. n /\ i \in 0 .. n /\ n \in 0 .. n
    BY <1>1
  <2>3. /\ lo \in Nat /\ hi \in Nat /\ t \in Nat /\ lo <= hi /\ hi <= t
        /\ hi - lo = validators[s].power /\ hi > 0
    <3>1. lo \in Nat /\ hi \in Nat /\ t \in Nat
      BY <1>8, <2>2
    <3>2. hi <= t
      BY <1>8, <2>2
    <3>3. hi = lo + validators[s].power /\ validators[s].power \in Nat \ {0}
      BY <1>1, <1>8, <2>1
    <3> HIDE DEF lo, hi
    <3> QED BY <3>1, <3>2, <3>3
  <2>4. t \in Nat \ {0} /\ lo \in 0 .. t /\ hi \in lo .. t
    <3> HIDE DEF lo, hi
    <3> QED BY <2>3
  <2>5. Allowed(t) \subseteq Nat
    BY DEF Allowed
  <2>6. \A r \in Allowed(t) : Drawn(q, r) = s <=> (r % t) \in lo .. hi - 1
    <3>1. \A r \in Allowed(t) : Drawn(q, r) = q[i] <=> RestIn(r, t, total[i - 1], total[i])
      BY <1>9, <2>4, <2>5
    <3> QED BY <2>1, <3>1 DEF RestIn
  <2>7. {r \in DOMAIN drawn : drawn[r] = s} = {r \in Allowed(t) : (r % t) \in lo .. hi - 1}
    <3> HIDE DEF lo, hi
    <3> QED BY <2>6
  <2>8. Cardinality({r \in Allowed(t) : (r % t) \in lo .. hi - 1})
          \in {(MaxUint64 \div t) * (hi - lo) - 1, (MaxUint64 \div t) * (hi - lo)}
    <3> HIDE DEF lo, hi
    <3> QED BY <2>4, CountAllowed
  <2>9. numbers(s) \in {(MaxUint64 \div t) * (hi - lo) - 1, (MaxUint64 \div t) * (hi - lo)}
    BY <2>7, <2>8, Zenon
  <2> HIDE DEF lo, hi
  <2> QED BY <2>3, <2>9
<1> QED BY <1>3, <1>4, <1>7, Zenon DEF ProducersFollowPower, q, t

-----------------------------------------------------------------------------
(* The shuffle. The state of each loop has a closed form: the pairs met so far
   are swapped where their bit says so, and hash and byte are those of the last
   position met. *)

LEMMA MaxOfTwo ==
  ASSUME NEW a \in Int, NEW b \in Int
  PROVE  Max({a, b}) = IF a >= b THEN a ELSE b
<1> DEFINE m == IF a >= b THEN a ELSE b
<1>1. m \in {a, b} /\ \A y \in {a, b} : m >= y
  OBVIOUS
<1>2. \A x \in {a, b} : (\A y \in {a, b} : x >= y) => x = m
  OBVIOUS
<1> HIDE DEF m
<1>3. (CHOOSE x \in {a, b} : \A y \in {a, b} : x >= y) = m
  BY <1>1, <1>2
<1> QED BY <1>3 DEF Max, m

LEMMA DivUnique ==
  ASSUME NEW t \in Nat \ {0}, NEW j \in Nat, NEW k \in Int, NEW y \in 0 .. t - 1,
         j = t * k + y
  PROVE  j \div t = k /\ j % t = y
<1> DEFINE d == j \div t
           m == j % t
<1>1. d \in Int /\ m \in 0 .. t - 1 /\ j = t * d + m
  OBVIOUS
<1> HIDE DEF d, m
<1>2. t * (k + 1) = t * k + t /\ t * (d + 1) = t * d + t /\ t * d \in Int /\ t * k \in Int
  BY <1>1
<1>3. t * k < t * (d + 1) /\ t * d < t * (k + 1)
  BY <1>1, <1>2
<1>4. k < d + 1 /\ d < k + 1
  BY <1>1, <1>3, Multiples
<1>5. d = k
  BY <1>1, <1>4
<1>6. m = y
  BY <1>1, <1>2, <1>5
<1> QED BY <1>5, <1>6 DEF d, m

(* One step back keeps the quotient unless it enters the block before. *)
LEMMA DivBefore ==
  ASSUME NEW t \in Nat \ {0}, NEW j \in Nat, j % t # t - 1
  PROVE  (j + 1) \div t = j \div t
<1> DEFINE d == j \div t
           m == j % t
<1>1. d \in Int /\ m \in 0 .. t - 1 /\ j = t * d + m
  OBVIOUS
<1>2. m # t - 1
  OBVIOUS
<1> HIDE DEF d, m
<1>3. t * d \in Int
  BY <1>1
<1>4. m + 1 \in 0 .. t - 1 /\ j + 1 = t * d + (m + 1) /\ j + 1 \in Nat
  BY <1>1, <1>2, <1>3
<1>5. (j + 1) \div t = d
  BY <1>1, <1>4, DivUnique
<1> QED BY <1>5 DEF d

(* Whole hashes, then whole bytes of the last hash, are the whole bytes. *)
LEMMA BytesOfHashes ==
  ASSUME NEW j \in Nat
  PROVE  /\ HashBits \in Nat \ {0} /\ ByteBits \in Nat \ {0}
         /\ (j \div HashBits) * HashBytes + ((j % HashBits) \div ByteBits) = j \div ByteBits
         /\ (j \div ByteBits) * ByteBits + (j % ByteBits) = j
<1>1. ByteBits \in Nat \ {0} /\ HashBytes \in Nat \ {0}
  BY ProducersAssumption
<1>2. HashBits = ByteBits * HashBytes /\ HashBits \in Nat \ {0}
  <2>1. HashBits = ByteBits * HashBytes
    BY DEF HashBits
  <2>2. ByteBits * 0 < ByteBits * HashBytes
    BY <1>1
  <2> QED BY <1>1, <2>1, <2>2
<1> DEFINE a == j \div HashBits
           m == j % HashBits
           b == m \div ByteBits
           e == m % ByteBits
<1>3. a \in Int /\ m \in 0 .. HashBits - 1 /\ j = HashBits * a + m
  BY <1>2
<1>4. b \in Int /\ e \in 0 .. ByteBits - 1 /\ m = ByteBits * b + e
  BY <1>1, <1>3
<1> HIDE DEF a, b, m, e
<1>5. j = ByteBits * (a * HashBytes + b) + e
  <2>1. HashBits * a = ByteBits * (a * HashBytes)
    BY <1>1, <1>2, <1>3
  <2>2. a * HashBytes \in Int
    BY <1>1, <1>3
  <2>3. ByteBits * (a * HashBytes + b) = ByteBits * (a * HashBytes) + ByteBits * b
    BY <1>1, <1>4, <2>2
  <2>4. ByteBits * (a * HashBytes) \in Int /\ ByteBits * b \in Int
    BY <1>1, <1>4, <2>2
  <2> QED BY <1>3, <1>4, <2>1, <2>3, <2>4
<1>6. a * HashBytes + b \in Int
  BY <1>1, <1>3, <1>4
<1>7. j \div ByteBits = a * HashBytes + b
  BY <1>1, <1>4, <1>5, <1>6, DivUnique
<1>8. (j \div ByteBits) * ByteBits + (j % ByteBits) = j
  <2> DEFINE c == j \div ByteBits
             f == j % ByteBits
  <2>1. c \in Int /\ f \in Int /\ j = ByteBits * c + f
    BY <1>1
  <2> HIDE DEF c, f
  <2>2. c * ByteBits = ByteBits * c
    BY <1>1, <2>1
  <2>3. c * ByteBits + f = j
    BY <2>1, <2>2
  <2> QED BY <2>3 DEF c, f
<1> QED BY <1>1, <1>2, <1>7, <1>8 DEF a, b, m

(* The state of the loop: the hash and the byte are those of position j. *)
At(input, j) == [input |-> input, source |-> j \div HashBits, byte |-> j \div ByteBits]

(* From any position the loop comes to the one before, or stays. *)
LEMMA RefreshedAt ==
  ASSUME NEW j \in Nat, NEW p \in {j, j + 1}, NEW input
  PROVE  Refreshed(At(input, p), j) = At(input, j)
<1>1. HashBits \in Nat \ {0} /\ ByteBits \in Nat \ {0}
  BY BytesOfHashes
<1> DEFINE s == At(input, p)
           source == IF j % HashBits = HashBits - 1 THEN j \div HashBits ELSE s.source
           byte == IF j % ByteBits = ByteBits - 1
                   THEN source * HashBytes + ((j % HashBits) \div ByteBits) ELSE s.byte
<1>2. s.source = p \div HashBits /\ s.byte = p \div ByteBits /\ s.input = input
  BY DEF At
<1>3. source = j \div HashBits
  <2>1. j % HashBits # HashBits - 1 => p \div HashBits = j \div HashBits
    BY <1>1, DivBefore
  <2> HIDE DEF s
  <2> QED BY <1>2, <2>1
<1>4. byte = j \div ByteBits
  <2>1. j % ByteBits # ByteBits - 1 => p \div ByteBits = j \div ByteBits
    BY <1>1, DivBefore
  <2>2. (j \div HashBits) * HashBytes + ((j % HashBits) \div ByteBits) = j \div ByteBits
    BY BytesOfHashes
  <2> HIDE DEF s, source
  <2> QED BY <1>2, <1>3, <2>1, <2>2
<1>5. Refreshed(s, j) = [input |-> s.input, source |-> source, byte |-> byte]
  BY Zenon DEF Refreshed
<1> HIDE DEF s, source, byte
<1>7. Refreshed(s, j) = [input |-> input, source |-> source, byte |-> byte]
  BY <1>2, <1>5
<1> QED BY <1>3, <1>4, <1>7 DEF At, s

(* Positions i and j change places if bit j says so. *)
Swapped(f, i, j, bits) ==
    [x \in DOMAIN f |-> IF bits[j] # 1 THEN f[x]
                        ELSE IF x = j THEN f[i] ELSE IF x = i THEN f[j] ELSE f[x]]

IsMap(f) == f = [x \in DOMAIN f |-> f[x]]

LEMMA SwappedAt ==
  ASSUME NEW f, IsMap(f), NEW i \in DOMAIN f, NEW j \in DOMAIN f, j \in Nat,
         NEW p, p = j \/ p = j + 1, NEW bits
  PROVE  SwapOrNot(At(f, p), i, j, bits)
           = At(Swapped(f, i, j, bits), j)
<1>1. Refreshed(At(f, p), j) = At(f, j)
  BY RefreshedAt
<1>2. At(f, p).input = f /\ At(f, j).input = f /\ At(f, j).byte = j \div ByteBits
  BY DEF At
<1>3. (j \div ByteBits) * ByteBits + (j % ByteBits) = j
  BY BytesOfHashes
<1>4. SwapOrNot(At(f, p), i, j, bits)
        = IF bits[j] = 1
          THEN [At(f, j) EXCEPT !.input = [f EXCEPT ![i] = f[j], ![j] = f[i]]]
          ELSE At(f, j)
  BY <1>1, <1>2, <1>3 DEF SwapOrNot
<1> DEFINE D == DOMAIN f
           g == [x \in D |-> IF x = j THEN f[i] ELSE IF x = i THEN f[j] ELSE f[x]]
           h == [x \in D |-> IF bits[j] # 1 THEN f[x]
                             ELSE IF x = j THEN f[i] ELSE IF x = i THEN f[j] ELSE f[x]]
<1>7. Swapped(f, i, j, bits) = h
  BY DEF Swapped
<1>5. CASE bits[j] = 1
  <2>1. [f EXCEPT ![i] = f[j], ![j] = f[i]] = g
    BY DEF IsMap
  <2>2. h = g
    BY <1>5
  <2> HIDE DEF g, h
  <2>3. [At(f, j) EXCEPT !.input = g] = At(g, j)
    BY DEF At
  <2>4. SwapOrNot(At(f, p), i, j, bits) = At(g, j)
    BY <1>4, <1>5, <2>1, <2>3
  <2>5. SwapOrNot(At(f, p), i, j, bits) = At(h, j)
    BY <2>2, <2>4
  <2> QED BY <1>7, <2>5
<1>6. CASE bits[j] # 1
  <2>1. h = f
    BY <1>6 DEF IsMap
  <2> HIDE DEF h
  <2>2. SwapOrNot(At(f, p), i, j, bits) = At(h, j)
    BY <1>4, <1>6, <2>1
  <2> QED BY <1>7, <2>2
<1> QED BY <1>5, <1>6

(* The list after the pairs first .. i - 1: the two positions of a pair add up to c. *)
Exchanged(input, first, c, i, bits) ==
    [x \in DOMAIN input |->
        IF \/ x \in first .. i - 1 /\ bits[c - x] = 1
           \/ c - x \in first .. i - 1 /\ bits[x] = 1
        THEN input[c - x] ELSE input[x]]

(* The loop before the pair of i. *)
LoopState(input, first, final, i, bits) ==
    At(Exchanged(input, first, first + final, i, bits),
       IF i = first THEN final ELSE first + final - i + 1)

LEMMA LoopBegins ==
  ASSUME NEW input, IsMap(input), NEW first \in Int, NEW final \in Int, NEW bits
  PROVE  LoopState(input, first, final, first, bits)
           = [input |-> input, source |-> final \div HashBits, byte |-> final \div ByteBits]
<1>1. Exchanged(input, first, first + final, first, bits) = input
  <2>1. first .. first - 1 = {}
    OBVIOUS
  <2>2. Exchanged(input, first, first + final, first, bits) = [x \in DOMAIN input |-> input[x]]
    BY <2>1 DEF Exchanged
  <2> QED BY <2>2 DEF IsMap
<1> QED BY <1>1 DEF LoopState, At

LEMMA LoopContinues ==
  ASSUME NEW n \in Nat, NEW input, IsMap(input), DOMAIN input = 0 .. n - 1, NEW first \in Nat,
         NEW final \in Nat, final <= n - 1, NEW bits, NEW i \in Nat, first <= i,
         i < first + final - i
  PROVE  SwapOrNot(LoopState(input, first, final, i, bits), i, final - (i - first), bits)
           = LoopState(input, first, final, i + 1, bits)
<1> DEFINE c == first + final
           D == 0 .. n - 1
           f == Exchanged(input, first, c, i, bits)
           p == IF i = first THEN final ELSE c - i + 1
           j == c - i
           g == Swapped(f, i, j, bits)
           e == Exchanged(input, first, c, i + 1, bits)
<1>1. i \in D /\ j \in D /\ j \in Nat /\ (p = j \/ p = j + 1) /\ i # j /\ final - (i - first) = j
      /\ c \in Nat /\ D \subseteq Int
  OBVIOUS
<1>2. DOMAIN input = D
  OBVIOUS
<1>3. f = [x \in D |-> IF \/ x \in first .. i - 1 /\ bits[c - x] = 1
                          \/ c - x \in first .. i - 1 /\ bits[x] = 1
                       THEN input[c - x] ELSE input[x]]
  BY <1>2, Zenon DEF Exchanged
<1>4. e = [x \in D |-> IF \/ x \in first .. (i + 1) - 1 /\ bits[c - x] = 1
                          \/ c - x \in first .. (i + 1) - 1 /\ bits[x] = 1
                       THEN input[c - x] ELSE input[x]]
  BY <1>2, Zenon DEF Exchanged
<1> HIDE DEF c, D, p, j, f, e
<1>6. IsMap(f) /\ DOMAIN f = D
  BY <1>3 DEF IsMap
<1>7. SwapOrNot(At(f, p), i, j, bits) = At(g, j)
  BY <1>1, <1>6, SwappedAt
<1>11. g = [x \in D |-> IF bits[j] # 1 THEN f[x]
                        ELSE IF x = j THEN f[i] ELSE IF x = i THEN f[j] ELSE f[x]]
  BY <1>6 DEF Swapped
<1> HIDE DEF g
<1>8. g = e
  <2>1. ASSUME NEW x \in D PROVE g[x] = e[x]
    <3>1. f[i] = input[i] /\ f[j] = input[j] /\ i \in D /\ j \in D
      BY <1>1, <1>3 DEF j
    <3>2. c - j = i /\ c - i = j /\ x \in Int
      BY <1>1 DEF j
    <3>3. CASE x = i
      <4>1. x \in first .. (i + 1) - 1 /\ c - x \notin first .. (i + 1) - 1
        BY <1>1, <3>3 DEF j
      <4>2. e[x] = IF bits[j] = 1 THEN input[j] ELSE input[i]
        BY <1>4, <3>2, <3>3, <4>1
      <4> QED BY <1>1, <1>11, <3>1, <3>3, <4>2
    <3>4. CASE x = j
      <4>1. c - x \in first .. (i + 1) - 1 /\ x \notin first .. (i + 1) - 1
        BY <1>1, <3>4 DEF j
      <4>2. e[x] = IF bits[j] = 1 THEN input[i] ELSE input[j]
        BY <1>4, <3>2, <3>4, <4>1
      <4> QED BY <1>1, <1>11, <3>1, <3>4, <4>2
    <3>5. CASE x # i /\ x # j
      <4>1. /\ x \in first .. (i + 1) - 1 <=> x \in first .. i - 1
            /\ c - x \in first .. (i + 1) - 1 <=> c - x \in first .. i - 1
        BY <1>1, <3>2, <3>5 DEF j
      <4>2. e[x] = f[x]
        BY <1>3, <1>4, <4>1
      <4> QED BY <1>1, <1>11, <3>5, <4>2
    <3> QED BY <3>3, <3>4, <3>5
  <2> QED BY <1>4, <1>11, <2>1
<1>9. LoopState(input, first, final, i, bits) = At(f, p)
  BY DEF LoopState, c, p, f
<1>10. LoopState(input, first, final, i + 1, bits) = At(e, j)
  <2>1. i + 1 # first /\ c - (i + 1) + 1 = j
    BY <1>1 DEF j
  <2> QED BY <2>1 DEF LoopState, c, e
<1> QED BY <1>1, <1>7, <1>8, <1>9, <1>10

(* The loop runs to the middle: every pair it meets is treated once. *)
LEMMA MirroredExchanges ==
  ASSUME NEW n \in Nat, NEW input, IsMap(input), DOMAIN input = 0 .. n - 1, NEW first \in Nat,
         NEW final \in Int, final <= n - 1, first <= final + 1, NEW bits,
         NEW mirror \in Nat, mirror = (first + final + 1) \div 2
  PROVE  Mirrored(input, first, final, mirror, bits)
           = Exchanged(input, first, first + final, mirror, bits)
<1> DEFINE state(i) == LoopState(input, first, final, i, bits)
           begin == [input |-> input, source |-> final \div HashBits, byte |-> final \div ByteBits]
           IsLoop(s) == s = [i \in first .. mirror |->
                               IF i = first THEN begin
                               ELSE SwapOrNot(s[i - 1], i - 1, final - (i - 1 - first), bits)]
           s == CHOOSE t : IsLoop(t)
<1>1. first <= mirror /\ \A i \in first .. mirror - 1 : i < first + final - i
  OBVIOUS
<1>2. Max({first, mirror}) = mirror
  <2>1. first \in Int /\ mirror \in Int
    OBVIOUS
  <2>2. Max({first, mirror}) = IF first >= mirror THEN first ELSE mirror
    BY <2>1, MaxOfTwo
  <2> QED BY <1>1, <2>2
<1>3. Mirrored(input, first, final, mirror, bits) = s[mirror].input
  BY <1>2, Zenon DEF Mirrored
<1>4. state(first) = begin
  <2>1. first \in Int
    OBVIOUS
  <2> QED BY <2>1, LoopBegins
<1>5. ASSUME NEW i \in first .. mirror - 1
      PROVE  SwapOrNot(state(i), i, final - (i - first), bits) = state(i + 1)
  <2>1. i \in Nat /\ first <= i /\ i < first + final - i /\ final \in Nat
    BY <1>1
  <2> QED BY <2>1, LoopContinues
<1> HIDE DEF state, begin
<1>6. \E t : IsLoop(t)
  <2> DEFINE t == [i \in first .. mirror |-> state(i)]
  <2>1. ASSUME NEW i \in first .. mirror
        PROVE  state(i) = IF i = first THEN begin
                          ELSE SwapOrNot(t[i - 1], i - 1, final - (i - 1 - first), bits)
    <3>1. CASE i = first
      BY <1>4, <3>1
    <3>2. CASE i # first
      <4>1. i - 1 \in first .. mirror - 1 /\ i - 1 \in first .. mirror /\ (i - 1) + 1 = i
        BY <3>2
      <4>2. SwapOrNot(state(i - 1), i - 1, final - ((i - 1) - first), bits) = state((i - 1) + 1)
        BY <1>5, <4>1
      <4>3. t[i - 1] = state(i - 1)
        BY <4>1
      <4> QED BY <3>2, <4>1, <4>2, <4>3
    <3> QED BY <3>1, <3>2
  <2>2. IsLoop(t)
    BY <2>1
  <2> QED BY <2>2
<1>7. IsLoop(s)
  BY <1>6
<1> HIDE DEF s
<1>8. s[first] = begin
  BY <1>1, <1>7
<1>9. ASSUME NEW i \in first + 1 .. mirror
      PROVE  s[i] = SwapOrNot(s[i - 1], i - 1, final - (i - 1 - first), bits)
  BY <1>7
<1>10. \A k \in Nat : first + k <= mirror => s[first + k] = state(first + k)
  <2> DEFINE Good == {k \in Nat : first + k <= mirror => s[first + k] = state(first + k)}
  <2>1. 0 \in Good
    BY <1>4, <1>8
  <2>2. ASSUME NEW k \in Good PROVE k + 1 \in Good
    <3>1. SUFFICES ASSUME first + k + 1 <= mirror
                   PROVE  s[first + (k + 1)] = state(first + (k + 1))
      OBVIOUS
    <3> DEFINE i == first + k
    <3>2. i \in first .. mirror - 1 /\ i + 1 \in first + 1 .. mirror /\ (i + 1) - 1 = i
          /\ first + (k + 1) = i + 1 /\ s[i] = state(i)
      BY <2>2, <3>1
    <3> HIDE DEF i
    <3>3. s[i + 1] = SwapOrNot(s[i], i, final - (i - first), bits)
      BY <1>9, <3>2
    <3>4. s[i + 1] = state(i + 1)
      BY <1>5, <3>2, <3>3
    <3> QED BY <3>2, <3>4
  <2>3. Nat \subseteq Good
    <3>1. Good \in SUBSET Nat
      OBVIOUS
    <3> HIDE DEF Good
    <3> QED BY <2>1, <2>2, <3>1, NatInductionOnSet
  <2> QED BY <2>3
<1>11. s[mirror] = state(mirror)
  <2> DEFINE k == mirror - first
  <2>1. k \in Nat /\ first + k = mirror
    BY <1>1
  <2> HIDE DEF k
  <2>2. first + k <= mirror
    BY <2>1
  <2>3. s[first + k] = state(first + k)
    BY <1>10, <2>1, <2>2
  <2> QED BY <2>1, <2>3
<1> QED BY <1>3, <1>11 DEF state, LoopState, At

(* Flipping about c: every position that pairs up with another moves there if
   the bit of the larger one says so. *)
Flipped(input, first, final, bits) ==
    [x \in DOMAIN input |->
        IF /\ x \in first .. final
           /\ bits[IF x >= first + final - x THEN x ELSE first + final - x] = 1
        THEN input[first + final - x] ELSE input[x]]

LEMMA MirroredFlips ==
  ASSUME NEW n \in Nat, NEW input, IsMap(input), DOMAIN input = 0 .. n - 1, NEW first \in Nat,
         NEW final \in Int, final <= n - 1, first <= final + 1, NEW bits,
         NEW mirror \in Nat, mirror = (first + final + 1) \div 2
  PROVE  Mirrored(input, first, final, mirror, bits) = Flipped(input, first, final, bits)
<1>1. Mirrored(input, first, final, mirror, bits)
        = Exchanged(input, first, first + final, mirror, bits)
  BY MirroredExchanges
<1>2. ASSUME NEW x \in DOMAIN input
      PROVE  (IF \/ x \in first .. mirror - 1 /\ bits[(first + final) - x] = 1
                 \/ (first + final) - x \in first .. mirror - 1 /\ bits[x] = 1
              THEN input[(first + final) - x] ELSE input[x])
           = (IF /\ x \in first .. final
                 /\ bits[IF x >= first + final - x THEN x ELSE first + final - x] = 1
              THEN input[first + final - x] ELSE input[x])
  <2> DEFINE y == first + final - x
  <2>1. x \in Nat /\ y \in Int /\ (x \in first .. final <=> y \in first .. final)
    OBVIOUS
  <2>2. x < y <=> x <= mirror - 1
    OBVIOUS
  <2>3. y < x <=> y <= mirror - 1
    OBVIOUS
  <2>4. y = first + final - x
    OBVIOUS
  <2> HIDE DEF y
  <2>5. CASE x < y
    BY <2>1, <2>2, <2>3, <2>4, <2>5
  <2>6. CASE y < x
    BY <2>1, <2>2, <2>3, <2>4, <2>6
  <2>7. CASE x = y
    BY <2>1, <2>2, <2>3, <2>4, <2>7
  <2>8. x < y \/ y < x \/ x = y
    BY <2>1
  <2> QED BY <2>5, <2>6, <2>7, <2>8, Zenon
<1> QED BY <1>1, <1>2 DEF Exchanged, Flipped

LEMMA FlipIsRest ==
  ASSUME NEW n \in Nat, NEW pivot \in 0 .. n - 1, NEW x \in 0 .. n - 1
  PROVE  (pivot + n - x) % n = IF x <= pivot THEN pivot - x ELSE pivot + n - x
<1>1. n \in Nat \ {0} /\ pivot + n - x \in Nat
  OBVIOUS
<1>2. CASE x <= pivot
  <2>1. pivot - x \in 0 .. n - 1 /\ 1 \in Int /\ pivot + n - x = n * 1 + (pivot - x)
    BY <1>2
  <2> QED BY <1>1, <1>2, <2>1, DivUnique
<1>3. CASE x > pivot
  <2>1. pivot + n - x \in 0 .. n - 1 /\ 0 \in Int /\ pivot + n - x = n * 0 + (pivot + n - x)
    BY <1>3
  <2>2. (pivot + n - x) % n = pivot + n - x
    BY <1>1, <2>1, DivUnique
  <2> QED BY <1>3, <2>2
<1> QED BY <1>2, <1>3

(* One round moves every slot as the specification says. *)
LEMMA RoundsAgree ==
  ASSUME NEW n \in Nat, NEW pivot \in 0 .. n - 1, NEW bits
  PROVE  ShuffleRound([i \in 0 .. n - 1 |-> i], pivot, bits)
           = [i \in 0 .. n - 1 |-> ShuffledIndexRound(i, n, pivot, bits)]
<1> DEFINE D == 0 .. n - 1
           input == [i \in D |-> i]
           half == Flipped(input, 0, pivot, bits)
           m1 == (pivot + 1) \div 2
           m2 == (pivot + n + 1) \div 2
<1>1. pivot \in Int /\ pivot <= n - 1 /\ n \in Int /\ pivot \in D /\ D \subseteq Int
  OBVIOUS
<1>2. IsMap(input) /\ DOMAIN input = D /\ \A x \in D : input[x] = x
  BY DEF IsMap
<1>3. Cardinality(D) = n
  BY FS_Interval
<1>4. m1 \in Nat /\ m1 = (0 + pivot + 1) \div 2
  OBVIOUS
<1>5. m2 \in Nat /\ m2 = ((pivot + 1) + (n - 1) + 1) \div 2
  OBVIOUS
<1>6. ShuffleRound(input, pivot, bits)
        = Mirrored(Mirrored(input, 0, pivot, m1, bits), pivot + 1, n - 1, m2, bits)
  BY <1>2, <1>3, Zenon DEF ShuffleRound
<1> HIDE DEF D, input, m1, m2
<1>7. Mirrored(input, 0, pivot, m1, bits) = half
  <2>1. 0 \in Nat /\ 0 <= pivot + 1
    BY <1>1
  <2> QED BY <1>1, <1>2, <1>4, <2>1, MirroredFlips DEF D
<1>8. IsMap(half) /\ DOMAIN half = D
  BY <1>2 DEF IsMap, Flipped
<1>9. \A x \in D : half[x] = IF x <= pivot /\ bits[IF x >= pivot - x THEN x ELSE pivot - x] = 1
                             THEN pivot - x ELSE x
  <2>1. ASSUME NEW x \in D
        PROVE  half[x] = IF x <= pivot /\ bits[IF x >= pivot - x THEN x ELSE pivot - x] = 1
                         THEN pivot - x ELSE x
    <3>1. half[x] = IF /\ x \in 0 .. pivot
                       /\ bits[IF x >= 0 + pivot - x THEN x ELSE 0 + pivot - x] = 1
                    THEN input[0 + pivot - x] ELSE input[x]
      BY <1>2 DEF Flipped
    <3>2. x \in Nat /\ 0 + pivot - x = pivot - x /\ (x \in 0 .. pivot <=> x <= pivot)
          /\ (x <= pivot => pivot - x \in D)
      BY <1>1 DEF D
    <3> QED BY <1>2, <3>1, <3>2
  <2> QED BY <2>1
<1> HIDE DEF half
<1>10. Mirrored(half, pivot + 1, n - 1, m2, bits) = Flipped(half, pivot + 1, n - 1, bits)
  <2>1. pivot + 1 \in Nat /\ n - 1 \in Int /\ n - 1 <= n - 1 /\ pivot + 1 <= (n - 1) + 1
    BY <1>1
  <2> QED BY <1>1, <1>5, <1>8, <2>1, MirroredFlips DEF D
<1>11. ASSUME NEW x \in D
       PROVE  Flipped(half, pivot + 1, n - 1, bits)[x] = ShuffledIndexRound(x, n, pivot, bits)
  <2> DEFINE flip == IF x <= pivot THEN pivot - x ELSE pivot + n - x
             top == IF x >= flip THEN x ELSE flip
             y == (pivot + 1) + (n - 1) - x
  <2>1. x \in Nat /\ flip \in D /\ flip \in Int /\ x \in Int
    BY <1>1 DEF D
  <2>2. ShuffledIndexRound(x, n, pivot, bits) = IF bits[top] = 1 THEN flip ELSE x
    <3>1. (pivot + n - x) % n = flip
      BY FlipIsRest DEF D
    <3> HIDE DEF flip
    <3>2. Max({x, flip}) = top
      BY <2>1, MaxOfTwo
    <3> QED BY <3>1, <3>2 DEF ShuffledIndexRound
  <2>3. Flipped(half, pivot + 1, n - 1, bits)[x]
          = IF /\ x \in pivot + 1 .. n - 1
               /\ bits[IF x >= y THEN x ELSE y] = 1
            THEN half[y] ELSE half[x]
    BY <1>8, Zenon DEF Flipped
  <2>4. CASE x <= pivot
    <3>1. x \notin pivot + 1 .. n - 1 /\ flip = pivot - x
      BY <1>1, <2>1, <2>4
    <3> QED BY <1>9, <2>2, <2>3, <2>4, <3>1
  <2>5. CASE x > pivot
    <3>1. x \in pivot + 1 .. n - 1 /\ flip = y /\ flip > pivot /\ ~ (x <= pivot)
          /\ ~ (flip <= pivot)
      BY <1>1, <2>1, <2>5 DEF D
    <3>2. half[flip] = flip /\ half[x] = x
      BY <1>9, <2>1, <3>1
    <3> QED BY <2>2, <2>3, <3>1, <3>2
  <2> QED BY <2>1, <2>4, <2>5
<1>12. Flipped(half, pivot + 1, n - 1, bits)
         = [x \in D |-> Flipped(half, pivot + 1, n - 1, bits)[x]]
  BY <1>8 DEF Flipped
<1> QED BY <1>6, <1>7, <1>10, <1>11, <1>12 DEF D, input

(* Producers are found by their ID, and drawn in proportion to their power but for
   one random number, for every store that transactions and slashes can lead to,
   every ProducerCount and every range of random numbers (bor/selection.go). *)
THEOREM ProducersFair == Spec => []ProducersFollowPower
<1>1. IInv => ProducersFollowPower
  BY SelectionIsFair DEF IInv
<1> QED BY <1>1, Invariance, PTL

(* However many slots there are, whatever the pivot, the hashes and their size, a
   round of the optimised shuffle of the list agrees with the specification of the
   shuffled index (bor/shuffle.go). *)
THEOREM ShuffleIsSpecified ==
  Spec => [](RoundMatches(Slots) /\ (Slots <= MaxSlots => ShuffleAsSpecified))
<1>1. ASSUME NEW n \in Nat PROVE RoundMatches(n)
  BY RoundsAgree DEF RoundMatches
<1>2. IInv => Slots \in Nat
  <2>1. ASSUME IInv PROVE TotalEligiblePower \in Nat
    <3>1. RecordsInv
      BY <2>1 DEF IInv
    <3>2. PICK total : AreRanges(total)
      BY <3>1, EligibleRanges
    <3>3. Cardinality(Eligible) \in Nat
      BY <3>1, EligibleListed
    <3> QED BY <3>2, <3>3 DEF AreRanges
  <2> QED BY <2>1, ProducersAssumption DEF Slots
<1>3. IInv => RoundMatches(Slots) /\ (Slots <= MaxSlots => ShuffleAsSpecified)
  <2>1. ASSUME IInv PROVE RoundMatches(Slots)
    BY <1>1, <1>2, <2>1
  <2>2. ASSUME IInv, Slots <= MaxSlots PROVE ShuffleAsSpecified
    <3>1. Slots \in 0 .. MaxSlots
      BY <1>2, <2>2, ProducersAssumption
    <3>2. RoundAsSpecified[Slots] = RoundMatches(Slots)
      BY <3>1 DEF RoundAsSpecified
    <3> QED BY <2>1, <2>2, <3>2 DEF ShuffleAsSpecified
  <2> QED BY <2>1, <2>2
<1> QED BY <1>3, Invariance, PTL
=============================================================================
