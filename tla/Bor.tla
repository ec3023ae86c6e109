-------------------------------- MODULE Bor --------------------------------
(* The spans of the child chain (bor): ranges of child blocks, each with the
   Ethereum block whose hash seeds the choice of its producers. A proposed span
   is compared with the last one on delivery, with the seed and the child chain
   by the votes of the validators, and with the stored IDs once it is approved.

   A seed is the number of its Ethereum block. One head of the child chain
   stands for those the validators see. The choice of the producers is left
   out: all eligible validators produce, as they do while there are no more of
   them than ProducerCount. *)
EXTENDS Integers, Sequences

CONSTANTS
  FirstEnd,     \* the last block of the span 0, which is in the genesis file
  Durations,    \* values the parameter SpanDuration may take
  MaxSpans,     \* bound: ID of the last span
  MaxPipe       \* bound: spans that wait for their votes

ASSUME BorAssumption ==
  /\ FirstEnd \in Nat /\ MaxSpans \in Nat /\ MaxPipe \in Nat
  /\ Durations \subseteq Nat \ {0} /\ Durations # {}

VARIABLES
  spans,          \* the stored spans, by ID
  last,           \* LastSpanID
  lastEthBlock,   \* LastProcessedEthBlock
  duration,       \* the parameter SpanDuration
  pipe,           \* spans delivered, with the result of their votes
  head            \* the head of the child chain

borVars == <<spans, last, lastEthBlock, duration, pipe, head>>

Span == [start : Nat, end : Nat, seed : Nat]
MsgProposeSpan == [id : Nat, start : Nat, end : Nat, seed : Nat]
Votes == {"None", "Yes", "No"}

BorTypeOK ==
  /\ last \in Nat /\ lastEthBlock \in Nat /\ duration \in Durations /\ head \in Nat
  /\ DOMAIN spans \subseteq Nat
  /\ \A id \in DOMAIN spans : spans[id] \in Span
  /\ pipe \in Seq([msg : MsgProposeSpan, vote : Votes])

-----------------------------------------------------------------------------
BorInit ==
  /\ spans = [id \in {0} |-> [start |-> 0, end |-> FirstEnd, seed |-> 0]]
  /\ last = 0
  /\ lastEthBlock = 0
  /\ duration \in Durations
  /\ pipe = <<>>
  /\ head = 0

LastSpan == spans[last]

(* The span is in continuity with the last one and has the right duration. *)
Continues(m) ==
  /\ m.id = last + 1
  /\ m.start = LastSpan.end + 1
  /\ m.end >= m.start
  /\ m.end - m.start + 1 = duration

(* Delivery puts the message before the validators, or fails. *)
HandleMsgProposeSpan(m) ==
  /\ Len(pipe) < MaxPipe
  /\ pipe' = IF Continues(m) THEN Append(pipe, [msg |-> m, vote |-> "None"]) ELSE pipe
  /\ UNCHANGED <<spans, last, lastEthBlock, duration, head>>

InTurn(span) == span.start <= head /\ head <= span.end

(* Mutant: the child chain may still be in an earlier span. *)
SideHandleMsgSpan_AnyTurn(m) == m.seed = lastEthBlock + 1

(* The vote of a validator: the seed is the next one, and the child chain has
   reached the last span. *)
SideHandleMsgSpan(m) ==
  /\ m.seed = lastEthBlock + 1
  /\ InTurn(LastSpan)

(* The votes on the i-th span of the pipe; too many validators may fail to
   look the seed up. *)
Vote(i, approved) ==
  /\ pipe[i].vote = "None"
  /\ approved => SideHandleMsgSpan(pipe[i].msg)
  /\ pipe' = [pipe EXCEPT ![i] = [msg |-> pipe[i].msg,
                                  vote |-> IF approved THEN "Yes" ELSE "No"]]
  /\ UNCHANGED <<spans, last, lastEthBlock, duration, head>>

(* Mutant: the last span does not count as processed. *)
HasSpan_NotLast(id) == id < last

HasSpan(id) == id \in DOMAIN spans

(* FreezeSet stores the span and moves on to the next seed. *)
FreezeSet(m) ==
  /\ spans' = [id \in DOMAIN spans \cup {m.id} |->
                 IF id = m.id THEN [start |-> m.start, end |-> m.end, seed |-> m.seed]
                              ELSE spans[id]]
  /\ last' = m.id
  /\ lastEthBlock' = lastEthBlock + 1

PostHandleMsgEventSpan ==
  LET entry == Head(pipe)
  IN /\ pipe # <<>>
     /\ entry.vote # "None"
     /\ pipe' = Tail(pipe)
     /\ IF entry.vote = "Yes" /\ ~HasSpan(entry.msg.id)
          THEN FreezeSet(entry.msg)
          ELSE UNCHANGED <<spans, last, lastEthBlock>>
     /\ UNCHANGED <<duration, head>>

(* A proposal of governance changes the parameter. *)
SetDuration(d) ==
  /\ duration' = d
  /\ UNCHANGED <<spans, last, lastEthBlock, pipe, head>>

(* The child chain makes a block, if it knows who may. *)
BorBlock ==
  /\ head < LastSpan.end
  /\ head' = head + 1
  /\ UNCHANGED <<spans, last, lastEthBlock, duration, pipe>>

BorNext ==
  \/ \E m \in MsgProposeSpan : HandleMsgProposeSpan(m)
  \/ \E i \in DOMAIN pipe, approved \in BOOLEAN : Vote(i, approved)
  \/ PostHandleMsgEventSpan
  \/ \E d \in Durations : SetDuration(d)
  \/ BorBlock

BorSpec == BorInit /\ [][BorNext]_borVars

-----------------------------------------------------------------------------
(* The spans are numbered in order, cover the child blocks without gaps or
   overlaps and use one Ethereum block after the other, whatever proposals wait
   for their votes while the last span, the seed or the duration changes
   (bor/side_handler.go:110, bor/keeper.go:194). *)
SpansInOrder ==
  /\ DOMAIN spans = 0..last
  /\ lastEthBlock = last
  /\ \A id \in 1..last :
       /\ spans[id].start = spans[id - 1].end + 1
       /\ spans[id].start <= spans[id].end
       /\ spans[id].seed = id

(* No span is given out before the child chain is in the one before it, so that
   producers are chosen from a validator set of that time
   (bor/side_handler.go:84-94). *)
OneSpanAhead ==
  last > 0 => spans[last - 1].start <= head
=============================================================================
