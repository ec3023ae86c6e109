--------------------------- MODULE CheckpointProofs ---------------------------
(***************************************************************************)
(* Proofs about Checkpoint, for any root chains, activation heights,       *)
(* lengths, buffer time and bounds.                                        *)
(*                                                                         *)
(* The inductive invariant IInv ties four places together: the store, the  *)
(* buffer, the headers ever signed and the root chain's headers.  All of   *)
(* them are compared with one block, NextStart: everything stored ends     *)
(* before it, everything signed starts no later, and the buffer starts     *)
(* there.                                                                  *)
(*                                                                         *)
(* The last part is about CheckpointSync, whose state is its own.          *)
(***************************************************************************)
EXTENDS Checkpoint, CheckpointSync, SequenceTheorems, TLAPS

\* Stored checkpoints are proper ranges below the tip.
StoreInv ==
    \A r \in RootChain, n \in Numbers :
        n <= ackCount[r] =>
            /\ checkpoints[r][n].start < checkpoints[r][n].end
            /\ checkpoints[r][n].end < NextStart(r)

\* Nothing that starts after the tip was ever signed.
ApprovedInv ==
    \A r \in RootChain : \A h \in approved[r] :
        h.start < h.end /\ h.start <= NextStart(r)

\* The root chain holds signed headers without gaps.
HeadersInv ==
    \A r \in RootChain, n \in Numbers :
        n <= l1Count[r] =>
            /\ l1[r][n] \in approved[r]
            /\ l1[r][n].start = IF n = 1 THEN Activation[r] ELSE l1[r][n - 1].end + 1

\* Buffered and proposed ranges are proper.
RangesInv ==
    /\ \A r \in RootChain : buffer[r] # None => buffer[r].start < buffer[r].end
    /\ \A k \in 0 .. 2 : \A m \in pipe[k] : m.type = "checkpoint" => m.start < m.end

IInv == /\ TypeOK /\ StoreGapless /\ StoreInv /\ ApprovedInv /\ HeadersInv
        /\ AckedOnRootChain /\ RootChainAtMostOneAhead /\ BufferExtendsTip
        /\ RangesInv

-----------------------------------------------------------------------------
(* Facts about the operators.                                              *)

\* In a gapless store the tip is read from the checkpoint of the ack count.
LEMMA TipValue ==
    ASSUME TypeOK, StoreGapless, NEW r \in RootChain
    PROVE  /\ NextStart(r) = IF ackCount[r] = 0 THEN Activation[r]
                             ELSE checkpoints[r][ackCount[r]].end + 1
           /\ ackCount[r] # 0 => /\ ackCount[r] \in Numbers
                                 /\ checkpoints[r][ackCount[r]] \in Checkpoints
           /\ NextStart(r) \in Nat
<1>1. ackCount[r] \in 0 .. MaxNumber /\ MaxNumber \in Nat
  BY BoundAssumption, ParamAssumption DEF TypeOK
<1>2. ackCount[r] # 0 => ackCount[r] \in Numbers
  BY <1>1 DEF Numbers
<1>3. ackCount[r] \in Numbers => checkpoints[r][ackCount[r]] # None
  BY <1>1 DEF StoreGapless, Numbers
<1>4. ackCount[r] \in Numbers => checkpoints[r][ackCount[r]] \in Checkpoints
  BY <1>3 DEF TypeOK
<1>5. HasLastCheckpoint(r) <=> ackCount[r] # 0
  BY <1>1, <1>2, <1>3 DEF HasLastCheckpoint, Numbers
<1>6. NextStart(r) = IF ackCount[r] = 0 THEN Activation[r]
                     ELSE checkpoints[r][ackCount[r]].end + 1
  BY <1>5 DEF NextStart, LastCheckpoint
<1>7. ackCount[r] # 0 => checkpoints[r][ackCount[r]].end \in Nat
  BY <1>2, <1>4, BoundAssumption, ParamAssumption DEF Checkpoints, Block
<1>8. QED
  BY <1>2, <1>4, <1>6, <1>7, ChainAssumption

\* The same after a step.
LEMMA TipValuePrime ==
    ASSUME TypeOK', StoreGapless', NEW r \in RootChain
    PROVE  /\ NextStart(r)' = IF ackCount'[r] = 0 THEN Activation[r]
                              ELSE checkpoints'[r][ackCount'[r]].end + 1
           /\ ackCount'[r] # 0 => /\ ackCount'[r] \in Numbers
                                  /\ checkpoints'[r][ackCount'[r]] \in Checkpoints
           /\ NextStart(r)' \in Nat
<1>1. ackCount'[r] \in 0 .. MaxNumber /\ MaxNumber \in Nat
  BY BoundAssumption, ParamAssumption DEF TypeOK
<1>2. ackCount'[r] # 0 => ackCount'[r] \in Numbers
  BY <1>1 DEF Numbers
<1>3. ackCount'[r] \in Numbers => checkpoints'[r][ackCount'[r]] # None
  BY <1>1 DEF StoreGapless, Numbers
<1>4. ackCount'[r] \in Numbers => checkpoints'[r][ackCount'[r]] \in Checkpoints
  BY <1>3 DEF TypeOK
<1>5. HasLastCheckpoint(r)' <=> ackCount'[r] # 0
  BY <1>1, <1>2, <1>3 DEF HasLastCheckpoint, Numbers
<1>6. NextStart(r)' = IF ackCount'[r] = 0 THEN Activation[r]
                      ELSE checkpoints'[r][ackCount'[r]].end + 1
  BY <1>5 DEF NextStart, LastCheckpoint
<1>7. ackCount'[r] # 0 => checkpoints'[r][ackCount'[r]].end \in Nat
  BY <1>2, <1>4, BoundAssumption, ParamAssumption DEF Checkpoints, Block
<1>8. QED
  BY <1>2, <1>4, <1>6, <1>7, ChainAssumption

\* A message's fields.
LEMMA MsgFields ==
    ASSUME NEW m \in Msg
    PROVE  /\ m.root \in RootChain
           /\ m.start \in Block /\ m.end \in Block
           /\ m.proposer \in Proposer
           /\ m.type = "ack" => m.number \in Numbers
  BY DEF Msg, CheckpointMsg, AckMsg

\* What the side handler of an acknowledgement saw.
LEMMA OnRootChainFacts ==
    ASSUME TypeOK, HeadersInv, ApprovedInv, NEW m \in Msg, m.type = "ack", OnRootChain(m)
    PROVE  /\ m.number \in Numbers /\ m.number <= l1Count[m.root]
           /\ l1[m.root][m.number].start = m.start
           /\ l1[m.root][m.number].end = m.end
           /\ m.start < m.end
<1>1. m.number \in Numbers /\ m.root \in RootChain
  BY MsgFields
<1>2. m.number <= l1Count[m.root]
         /\ l1[m.root][m.number] = [start |-> m.start, end |-> m.end,
                                    proposer |-> m.proposer]
  BY DEF OnRootChain
<1>3. l1[m.root][m.number] \in approved[m.root]
  BY <1>1, <1>2 DEF HeadersInv
<1>4. l1[m.root][m.number].start < l1[m.root][m.number].end
  BY <1>1, <1>3 DEF ApprovedInv
<1>5. QED
  BY <1>1, <1>2, <1>4

-----------------------------------------------------------------------------
(* Initial states.                                                         *)

LEMMA InitIInv == Init => IInv
<1>1. SUFFICES ASSUME Init PROVE IInv
  OBVIOUS
<1>2. TypeOK
  BY <1>1, BoundAssumption, ParamAssumption DEF Init, TypeOK, Time
<1>3. StoreGapless
  BY <1>1 DEF Init, StoreGapless, Numbers
<1>4. StoreInv /\ AckedOnRootChain /\ HeadersInv
  BY <1>1 DEF Init, StoreInv, AckedOnRootChain, HeadersInv, Numbers
<1>5. ApprovedInv /\ RootChainAtMostOneAhead /\ BufferExtendsTip /\ RangesInv
  BY <1>1 DEF Init, ApprovedInv, RootChainAtMostOneAhead, BufferExtendsTip, RangesInv
<1>6. QED
  BY <1>2, <1>3, <1>4, <1>5 DEF IInv

-----------------------------------------------------------------------------
(* Steps that leave the store alone.                                       *)

\* Without an acknowledgement the store's part of the invariant is untouched.
LEMMA StoreUnchanged ==
    ASSUME IInv, UNCHANGED <<ackCount, checkpoints>>
    PROVE  /\ StoreGapless' /\ StoreInv'
           /\ \A r \in RootChain : NextStart(r)' = NextStart(r)
<1>1. \A r \in RootChain : NextStart(r)' = NextStart(r)
  BY DEF NextStart, HasLastCheckpoint, LastCheckpoint
<1>2. StoreGapless'
  BY DEF IInv, StoreGapless
<1>3. StoreInv'
  BY <1>1 DEF IInv, StoreInv
<1>4. QED
  BY <1>1, <1>2, <1>3

\* Nor is the root chain's part, when no header is signed or submitted.
LEMMA RootUnchanged ==
    ASSUME IInv, UNCHANGED <<ackCount, checkpoints, approved, l1Count, l1>>
    PROVE  ApprovedInv' /\ HeadersInv' /\ AckedOnRootChain' /\ RootChainAtMostOneAhead'
<1>1. \A r \in RootChain : NextStart(r)' = NextStart(r)
  BY StoreUnchanged
<1>2. ApprovedInv'
  BY <1>1 DEF IInv, ApprovedInv
<1>3. HeadersInv' /\ AckedOnRootChain' /\ RootChainAtMostOneAhead'
  BY DEF IInv, HeadersInv, AckedOnRootChain, RootChainAtMostOneAhead
<1>4. QED
  BY <1>2, <1>3

\* A delivered message joins the block's side transactions.
LEMMA DeliverFacts ==
    ASSUME TypeOK, RangesInv, NEW m \in Msg, Deliver(m),
           m.type = "checkpoint" => m.start < m.end
    PROVE  /\ pipe' \in [0 .. 2 -> SUBSET Msg]
           /\ \A k \in 0 .. 2 : \A x \in pipe'[k] : x.type = "checkpoint" => x.start < x.end
  BY DEF TypeOK, RangesInv, Deliver

\* An executed one leaves them.
LEMMA ExecutedFacts ==
    ASSUME TypeOK, RangesInv, NEW m \in pipe[2], Executed(m)
    PROVE  /\ m \in Msg
           /\ m.type = "checkpoint" => m.start < m.end
           /\ pipe' \in [0 .. 2 -> SUBSET Msg]
           /\ \A k \in 0 .. 2 : \A x \in pipe'[k] : x.type = "checkpoint" => x.start < x.end
<1>1. 2 \in 0 .. 2
  OBVIOUS
<1>2. pipe[2] \in SUBSET Msg
  BY <1>1 DEF TypeOK
<1>3. m.type = "checkpoint" => m.start < m.end
  BY <1>1 DEF RangesInv
<1>4. pipe' = [pipe EXCEPT ![2] = pipe[2] \ {m}]
  BY DEF Executed
<1>5. \A k \in 0 .. 2 : pipe'[k] \subseteq pipe[k]
  BY <1>4 DEF TypeOK
<1>6. pipe' \in [0 .. 2 -> SUBSET Msg]
  BY <1>2, <1>4 DEF TypeOK
<1>7. QED
  BY <1>2, <1>3, <1>5, <1>6 DEF RangesInv

LEMMA HandleMsgCheckpointStep ==
    ASSUME IInv, NEW m \in Proposals, HandleMsgCheckpoint(m)
    PROVE  IInv'
<1>1. m \in Msg /\ m.type = "checkpoint" /\ m.end - m.start + 1 \in Lengths
  BY DEF Proposals, Msg, CheckpointMsg
<1>2. m.start < m.end
  <2>1. m.start \in Int /\ m.end \in Int
    BY <1>1, MsgFields, BoundAssumption, ParamAssumption DEF Block
  <2>2. QED
    BY <1>1, <2>1, LengthAssumption
<1>3. Deliver(m) /\ buffer' = [buffer EXCEPT ![m.root] = None]
         /\ UNCHANGED <<time, proposer, ackCount, checkpoints, lastNoAck, approved,
                        l1Count, l1>>
  BY DEF HandleMsgCheckpoint
<1>4. /\ pipe' \in [0 .. 2 -> SUBSET Msg]
      /\ \A k \in 0 .. 2 : \A x \in pipe'[k] : x.type = "checkpoint" => x.start < x.end
  BY <1>1, <1>2, <1>3, DeliverFacts DEF IInv
<1>5. TypeOK'
  BY <1>3, <1>4 DEF IInv, TypeOK
<1>6. \A r \in RootChain : buffer'[r] # None => buffer'[r] = buffer[r]
  BY <1>3 DEF IInv, TypeOK
<1>7. BufferExtendsTip' /\ RangesInv'
  BY <1>3, <1>4, <1>6, StoreUnchanged DEF IInv, BufferExtendsTip, RangesInv
<1>8. QED
  BY <1>3, <1>5, <1>7, StoreUnchanged, RootUnchanged DEF IInv

LEMMA HandleMsgCheckpointAckStep ==
    ASSUME IInv, NEW m, HandleMsgCheckpointAck(m)
    PROVE  IInv'
<1>1. m \in Msg /\ m.type = "ack"
  BY DEF HandleMsgCheckpointAck, Msg, AckMsg
<1>2. Deliver(m) /\ UNCHANGED <<time, proposer, ackCount, checkpoints, buffer,
                                lastNoAck, approved, l1Count, l1>>
  BY DEF HandleMsgCheckpointAck, heimdallVars
<1>3. /\ pipe' \in [0 .. 2 -> SUBSET Msg]
      /\ \A k \in 0 .. 2 : \A x \in pipe'[k] : x.type = "checkpoint" => x.start < x.end
  BY <1>1, <1>2, DeliverFacts DEF IInv
<1>4. TypeOK'
  BY <1>2, <1>3 DEF IInv, TypeOK
<1>5. BufferExtendsTip' /\ RangesInv'
  BY <1>2, <1>3, StoreUnchanged DEF IInv, BufferExtendsTip, RangesInv
<1>6. QED
  BY <1>2, <1>4, <1>5, StoreUnchanged, RootUnchanged DEF IInv

LEMMA HandleMsgCheckpointNoAckStep ==
    ASSUME IInv, HandleMsgCheckpointNoAck
    PROVE  IInv'
<1>1. TypeOK'
  BY DEF IInv, TypeOK, HandleMsgCheckpointNoAck
<1>2. UNCHANGED <<ackCount, checkpoints, buffer, pipe, approved, l1Count, l1>>
  BY DEF HandleMsgCheckpointNoAck
<1>3. BufferExtendsTip' /\ RangesInv'
  BY <1>2, StoreUnchanged DEF IInv, BufferExtendsTip, RangesInv
<1>4. QED
  BY <1>1, <1>2, <1>3, StoreUnchanged, RootUnchanged DEF IInv

LEMMA SideTxDroppedStep ==
    ASSUME IInv, NEW m \in pipe[2], SideTxDropped(m)
    PROVE  IInv'
<1>1. Executed(m) /\ UNCHANGED <<time, proposer, ackCount, checkpoints, buffer,
                                 lastNoAck, approved, l1Count, l1>>
  BY DEF SideTxDropped, heimdallVars
<1>2. /\ pipe' \in [0 .. 2 -> SUBSET Msg]
      /\ \A k \in 0 .. 2 : \A x \in pipe'[k] : x.type = "checkpoint" => x.start < x.end
  BY <1>1, ExecutedFacts DEF IInv
<1>3. TypeOK'
  BY <1>1, <1>2 DEF IInv, TypeOK
<1>4. BufferExtendsTip' /\ RangesInv'
  BY <1>1, <1>2, StoreUnchanged DEF IInv, BufferExtendsTip, RangesInv
<1>5. QED
  BY <1>1, <1>3, <1>4, StoreUnchanged, RootUnchanged DEF IInv

LEMMA NextBlockStep ==
    ASSUME IInv, NEW dt \in TimeSteps, NextBlock(dt)
    PROVE  IInv'
<1>1. pipe' = [k \in 0 .. 2 |-> IF k = 0 THEN {} ELSE pipe[k - 1]]
         /\ UNCHANGED <<ackCount, checkpoints, buffer, lastNoAck, approved, l1Count, l1>>
  BY DEF NextBlock
<1>2. \A k \in 0 .. 2 : pipe'[k] = {} \/ \E j \in 0 .. 2 : pipe'[k] = pipe[j]
  BY <1>1
<1>3. pipe' \in [0 .. 2 -> SUBSET Msg]
  BY <1>1, <1>2 DEF IInv, TypeOK
<1>4. time' \in Time /\ proposer' \in Proposer
  BY BoundAssumption, ParamAssumption DEF IInv, TypeOK, NextBlock, Time
<1>5. TypeOK'
  BY <1>1, <1>3, <1>4 DEF IInv, TypeOK
<1>6. BufferExtendsTip' /\ RangesInv'
  BY <1>1, <1>2, StoreUnchanged DEF IInv, BufferExtendsTip, RangesInv
<1>7. QED
  BY <1>1, <1>5, <1>6, StoreUnchanged, RootUnchanged DEF IInv

-----------------------------------------------------------------------------
(* The buffer is written; the root chain takes a header.                   *)

LEMMA PostHandleMsgCheckpointStep ==
    ASSUME IInv, NEW m \in pipe[2], PostHandleMsgCheckpoint(m)
    PROVE  IInv'
<1>h. DEFINE h == [start |-> m.start, end |-> m.end, proposer |-> m.proposer]
<1>b. DEFINE b == [start |-> m.start, end |-> m.end, proposer |-> m.proposer,
                   timeStamp |-> time]
<1>1. /\ Executed(m) /\ m.type = "checkpoint" /\ m.start = NextStart(m.root)
      /\ buffer' = [buffer EXCEPT ![m.root] = b]
      /\ approved' = [approved EXCEPT ![m.root] = approved[m.root] \cup {h}]
      /\ UNCHANGED <<time, proposer, ackCount, checkpoints, lastNoAck, l1Count, l1>>
  BY DEF PostHandleMsgCheckpoint, Continues
<1>2. /\ m \in Msg /\ m.start < m.end
      /\ pipe' \in [0 .. 2 -> SUBSET Msg]
      /\ \A k \in 0 .. 2 : \A x \in pipe'[k] : x.type = "checkpoint" => x.start < x.end
  BY <1>1, ExecutedFacts DEF IInv
<1>3. m.root \in RootChain /\ h \in Header /\ b \in Checkpoints
  BY <1>2, MsgFields DEF Header, Checkpoints, IInv, TypeOK
<1>4. TypeOK'
  BY <1>1, <1>2, <1>3 DEF IInv, TypeOK
<1>5. /\ \A r \in RootChain : NextStart(r)' = NextStart(r)
      /\ NextStart(m.root) \in Nat
  BY <1>1, <1>3, StoreUnchanged, TipValue DEF IInv
<1>6. BufferExtendsTip'
  BY <1>1, <1>3, <1>5 DEF IInv, TypeOK, BufferExtendsTip
<1>7. RangesInv'
  BY <1>1, <1>2, <1>3 DEF IInv, TypeOK, RangesInv
<1>8. ApprovedInv'
  BY <1>1, <1>2, <1>3, <1>5 DEF IInv, TypeOK, ApprovedInv
<1>9. \A r \in RootChain : approved[r] \subseteq approved'[r]
  BY <1>1 DEF IInv, TypeOK
<1>10. HeadersInv' /\ AckedOnRootChain' /\ RootChainAtMostOneAhead'
  BY <1>1, <1>9 DEF IInv, HeadersInv, AckedOnRootChain, RootChainAtMostOneAhead
<1>11. QED
  BY <1>1, <1>4, <1>6, <1>7, <1>8, <1>10, StoreUnchanged DEF IInv

\* The root chain's next block, once it is ahead, is past everything signed.
LEMMA SubmitHeaderBlockStep ==
    ASSUME IInv, NEW r \in RootChain, NEW h \in approved[r], SubmitHeaderBlock(r, h)
    PROVE  IInv'
<1>1. /\ l1Count[r] < MaxNumber /\ h.start = RootChainNext(r)
      /\ l1Count' = [l1Count EXCEPT ![r] = l1Count[r] + 1]
      /\ l1' = [l1 EXCEPT ![r][l1Count[r] + 1] = h]
      /\ UNCHANGED <<time, proposer, ackCount, checkpoints, buffer, lastNoAck, pipe,
                     approved>>
  BY DEF SubmitHeaderBlock, heimdallVars
<1>2. /\ l1Count \in [RootChain -> 0 .. MaxNumber] /\ MaxNumber \in Nat
      /\ ackCount \in [RootChain -> 0 .. MaxNumber]
      /\ l1 \in [RootChain -> [Numbers -> Header \cup {None}]]
      /\ h \in Header
  BY BoundAssumption, ParamAssumption DEF IInv, TypeOK
<1>3. l1Count[r] + 1 \in Numbers
  BY <1>1, <1>2 DEF Numbers
<1>4. TypeOK'
  <2>1. l1Count' \in [RootChain -> 0 .. MaxNumber]
    BY <1>1, <1>2
  <2>2. l1' \in [RootChain -> [Numbers -> Header \cup {None}]]
    BY <1>1, <1>2, <1>3
  <2>3. QED
    BY <1>1, <2>1, <2>2 DEF IInv, TypeOK
<1>5. /\ \A q \in RootChain : NextStart(q)' = NextStart(q)
      /\ NextStart(r) \in Nat
  BY <1>1, StoreUnchanged, TipValue DEF IInv
<1>6. \A q \in RootChain, n \in Numbers :
         n <= l1Count[q] => l1'[q][n] = l1[q][n]
  BY <1>1, <1>2, <1>3 DEF Numbers
<1>7. l1'[r][l1Count[r] + 1] = h
  BY <1>1, <1>2, <1>3
<1>8. h.start = IF l1Count[r] + 1 = 1 THEN Activation[r] ELSE l1[r][l1Count[r]].end + 1
  BY <1>1, <1>2 DEF RootChainNext
<1>9. HeadersInv'
  <2>1. SUFFICES ASSUME NEW q \in RootChain, NEW n \in Numbers, n <= l1Count'[q]
                 PROVE  /\ l1'[q][n] \in approved'[q]
                        /\ l1'[q][n].start = IF n = 1 THEN Activation[q]
                                             ELSE l1'[q][n - 1].end + 1
    BY DEF HeadersInv
  <2>2. n # 1 => n - 1 \in Numbers
    BY <1>2 DEF Numbers
  <2>3. CASE n <= l1Count[q]
    <3>1. n # 1 => n - 1 <= l1Count[q]
      BY <1>2, <2>3 DEF Numbers
    <3>2. QED
      BY <1>1, <1>6, <2>2, <2>3, <3>1 DEF IInv, HeadersInv
  <2>4. CASE ~(n <= l1Count[q])
    <3>1. q = r /\ n = l1Count[r] + 1
      BY <1>1, <1>2, <2>1, <2>4 DEF Numbers
    <3>2. n # 1 => l1'[r][n - 1] = l1[r][n - 1] /\ n - 1 = l1Count[r]
      BY <1>2, <1>6, <2>2, <3>1 DEF Numbers
    <3>3. QED
      BY <1>1, <1>7, <1>8, <3>1, <3>2
  <2>5. QED
    BY <2>3, <2>4
<1>10. AckedOnRootChain'
  BY <1>1, <1>2, <1>6 DEF IInv, AckedOnRootChain, RootChainAtMostOneAhead, Numbers
<1>11. l1Count[r] <= ackCount[r]
  <2>1. SUFFICES ASSUME l1Count[r] = ackCount[r] + 1 PROVE FALSE
    BY <1>2 DEF IInv, RootChainAtMostOneAhead
  <2>2. l1Count[r] \in Numbers
    BY <1>2, <2>1 DEF Numbers
  <2>3. l1[r][l1Count[r]] \in approved[r]
    <3>1. l1Count[r] <= l1Count[r]
      BY <1>2
    <3>2. QED
      BY <2>2, <3>1 DEF IInv, HeadersInv
  <2>4. l1[r][l1Count[r]].start < l1[r][l1Count[r]].end
           /\ l1[r][l1Count[r]] \in Header
    BY <2>3 DEF IInv, ApprovedInv, TypeOK
  <2>5. l1[r][l1Count[r]].start = NextStart(r)
    <3>1. CASE ackCount[r] = 0
      BY <1>2, <2>1, <2>2, <3>1, TipValue DEF IInv, HeadersInv
    <3>2. CASE ackCount[r] # 0
      <4>1. ackCount[r] \in Numbers /\ l1Count[r] # 1 /\ l1Count[r] - 1 = ackCount[r]
        BY <1>2, <2>1, <3>2 DEF Numbers
      <4>2. l1[r][l1Count[r]].start = l1[r][ackCount[r]].end + 1
        BY <1>2, <2>2, <4>1 DEF IInv, HeadersInv, Numbers
      <4>3. checkpoints[r][ackCount[r]].end <= l1[r][ackCount[r]].end
        BY <1>2, <4>1 DEF IInv, AckedOnRootChain, Numbers
      <4>4. NextStart(r) = checkpoints[r][ackCount[r]].end + 1
               /\ checkpoints[r][ackCount[r]] \in Checkpoints
        BY <3>2, TipValue DEF IInv
      <4>5. l1[r][l1Count[r]].start <= NextStart(r)
        BY <2>3 DEF IInv, ApprovedInv
      <4>6. l1[r][ackCount[r]] \in Header
        <5>1. l1[r][ackCount[r]] \in approved[r]
          BY <1>2, <2>1, <4>1 DEF IInv, HeadersInv, Numbers
        <5>2. QED
          BY <5>1 DEF IInv, TypeOK
      <4>7. checkpoints[r][ackCount[r]].end \in Nat /\ l1[r][ackCount[r]].end \in Nat
        BY <4>4, <4>6, BoundAssumption, ParamAssumption DEF Checkpoints, Header, Block
      <4>8. QED
        BY <1>5, <4>2, <4>3, <4>4, <4>5, <4>7
    <3>3. QED
      BY <3>1, <3>2
  <2>6. h.start = l1[r][l1Count[r]].end + 1
    BY <1>8, <1>2, <2>2 DEF Numbers
  <2>7. h.start <= NextStart(r)
    BY DEF IInv, ApprovedInv
  <2>8. l1[r][l1Count[r]].end \in Nat
    BY <2>4, BoundAssumption, ParamAssumption DEF Header, Block
  <2>9. QED
    BY <1>5, <2>4, <2>5, <2>6, <2>7, <2>8
<1>12. RootChainAtMostOneAhead'
  BY <1>1, <1>2, <1>11 DEF IInv, RootChainAtMostOneAhead
<1>13. ApprovedInv' /\ BufferExtendsTip' /\ RangesInv'
  BY <1>1, <1>5 DEF IInv, ApprovedInv, BufferExtendsTip, RangesInv
<1>14. QED
  BY <1>1, <1>4, <1>9, <1>10, <1>12, <1>13, StoreUnchanged DEF IInv

-----------------------------------------------------------------------------
(* A checkpoint is acknowledged.                                           *)

\* The acknowledged header is the one after the last acknowledged: nothing
\* else of the root chain starts at the tip.
LEMMA AckIsNext ==
    ASSUME IInv, NEW m \in Msg, m.type = "ack", OnRootChain(m),
           m.start = NextStart(m.root)
    PROVE  m.number = ackCount[m.root] + 1
<1>1. /\ m.root \in RootChain /\ m.number \in Numbers /\ m.start \in Block
      /\ m.number <= l1Count[m.root] /\ l1[m.root][m.number].start = m.start
  BY MsgFields, OnRootChainFacts DEF IInv
<1>2. /\ ackCount[m.root] \in Nat /\ l1Count[m.root] \in Nat /\ m.number \in Nat
      /\ l1Count[m.root] <= ackCount[m.root] + 1
  BY <1>1, BoundAssumption, ParamAssumption DEF IInv, TypeOK, Numbers, RootChainAtMostOneAhead
<1>3. SUFFICES ASSUME m.number <= ackCount[m.root] PROVE FALSE
  BY <1>1, <1>2
<1>4. checkpoints[m.root][m.number] \in Checkpoints
  BY <1>1, <1>3 DEF IInv, TypeOK, StoreGapless
<1>5. checkpoints[m.root][m.number].start \in Nat
         /\ checkpoints[m.root][m.number].end \in Nat
  BY <1>4, BoundAssumption, ParamAssumption DEF Checkpoints, Block
<1>6. checkpoints[m.root][m.number].start = m.start
  BY <1>1, <1>3 DEF IInv, AckedOnRootChain
<1>7. checkpoints[m.root][m.number].start < checkpoints[m.root][m.number].end
         /\ checkpoints[m.root][m.number].end < NextStart(m.root)
  BY <1>1, <1>3 DEF IInv, StoreInv
<1>8. NextStart(m.root) \in Nat
  BY <1>1, TipValue DEF IInv
<1>9. QED
  BY <1>5, <1>6, <1>7, <1>8

\* What is stored: a range from the tip, no longer than the root chain's.
LEMMA AdjustedFacts ==
    ASSUME NEW b \in Checkpoints, NEW m \in Msg, b.start = m.start, b.start < b.end,
           m.start < m.end
    PROVE  /\ Adjusted(b, m) \in Checkpoints
           /\ Adjusted(b, m).start = m.start
           /\ m.start < Adjusted(b, m).end
           /\ Adjusted(b, m).end <= m.end
<1>1. m.end \in Block /\ m.start \in Block /\ m.proposer \in Proposer
  BY MsgFields
<1>2. b.end \in Int /\ m.end \in Int
  BY <1>1, BoundAssumption, ParamAssumption DEF Checkpoints, Block
<1>3. CASE b.end > m.end
  <2>1. Adjusted(b, m) = [b EXCEPT !.end = m.end, !.proposer = m.proposer]
    BY <1>3 DEF Adjusted
  <2>2. Adjusted(b, m) \in Checkpoints
    BY <1>1, <2>1 DEF Checkpoints
  <2>3. Adjusted(b, m).start = b.start /\ Adjusted(b, m).end = m.end
    BY <2>1 DEF Checkpoints
  <2>4. QED
    BY <1>2, <2>2, <2>3
<1>4. CASE ~(b.end > m.end)
  BY <1>2, <1>4 DEF Adjusted
<1>5. QED
  BY <1>3, <1>4

\* The effect of an acknowledgement on the store, shared by the proofs below.
LEMMA AckEffect ==
    ASSUME IInv, NEW m \in pipe[2], PostHandleMsgCheckpointAck(m)
    PROVE  \E r \in RootChain, e \in Checkpoints, c \in Nat :
           /\ r = m.root /\ m \in Msg /\ c = ackCount[r]
           /\ c + 1 \in Numbers
           /\ c + 1 <= l1Count[r] /\ l1[r][c + 1].start = m.start
           /\ l1[r][c + 1].end = m.end
           /\ e.start = NextStart(r) /\ e.start < e.end
           /\ e.end <= m.end /\ m.start = NextStart(r)
           /\ ackCount' = [ackCount EXCEPT ![r] = c + 1]
           /\ checkpoints' = [checkpoints EXCEPT ![r][c + 1] = e]
           /\ buffer' = [buffer EXCEPT ![r] = None]
           /\ Executed(m)
           /\ UNCHANGED <<time, lastNoAck, approved, l1Count, l1>>
           /\ proposer' \in Proposer
<1>0. DEFINE r == m.root
             e == Adjusted(buffer[r], m)
             c == ackCount[r]
<1>1. /\ m.type = "ack" /\ OnRootChain(m) /\ buffer[r] # None
      /\ m.start = buffer[r].start /\ ackCount[r] < MaxNumber
      /\ checkpoints' = [checkpoints EXCEPT ![r][m.number] = e]
      /\ ackCount' = [ackCount EXCEPT ![r] = ackCount[r] + 1]
      /\ buffer' = [buffer EXCEPT ![r] = None]
      /\ Executed(m)
      /\ UNCHANGED <<time, lastNoAck, approved, l1Count, l1>>
  BY DEF PostHandleMsgCheckpointAck
<1>2. m \in Msg /\ r \in RootChain
  BY <1>1, ExecutedFacts, MsgFields DEF IInv
<1>3. /\ buffer[r] \in Checkpoints /\ buffer[r].start = NextStart(r)
      /\ buffer[r].start < buffer[r].end
  BY <1>1, <1>2 DEF IInv, TypeOK, BufferExtendsTip, RangesInv
<1>4. /\ m.number \in Numbers /\ m.number <= l1Count[r]
      /\ l1[r][m.number].start = m.start /\ l1[r][m.number].end = m.end
      /\ m.start < m.end
  BY <1>1, <1>2, OnRootChainFacts DEF IInv
<1>5. m.number = c + 1
  BY <1>1, <1>2, <1>3, AckIsNext
<1>6. c \in Nat
  BY <1>2, BoundAssumption, ParamAssumption DEF IInv, TypeOK
<1>7. /\ e \in Checkpoints /\ e.start = m.start /\ m.start < e.end /\ e.end <= m.end
  BY <1>1, <1>2, <1>3, <1>4, AdjustedFacts
<1>8. proposer' \in Proposer
  BY DEF PostHandleMsgCheckpointAck, IInv, TypeOK
<1>9. QED
  BY <1>1, <1>2, <1>3, <1>4, <1>5, <1>6, <1>7, <1>8

LEMMA PostHandleMsgCheckpointAckStep ==
    ASSUME IInv, NEW m \in pipe[2], PostHandleMsgCheckpointAck(m)
    PROVE  IInv'
<1>1. PICK r \in RootChain, e \in Checkpoints, c \in Nat :
      /\ r = m.root /\ m \in Msg /\ c = ackCount[r]
      /\ c + 1 \in Numbers
      /\ c + 1 <= l1Count[r] /\ l1[r][c + 1].start = m.start
      /\ l1[r][c + 1].end = m.end
      /\ e.start = NextStart(r) /\ e.start < e.end
      /\ e.end <= m.end /\ m.start = NextStart(r)
      /\ ackCount' = [ackCount EXCEPT ![r] = c + 1]
      /\ checkpoints' = [checkpoints EXCEPT ![r][c + 1] = e]
      /\ buffer' = [buffer EXCEPT ![r] = None]
      /\ Executed(m)
      /\ UNCHANGED <<time, lastNoAck, approved, l1Count, l1>>
      /\ proposer' \in Proposer
  BY AckEffect
<1>2. /\ ackCount \in [RootChain -> 0 .. MaxNumber] /\ MaxNumber \in Nat
      /\ checkpoints \in [RootChain -> [Numbers -> Checkpoints \cup {None}]]
      /\ l1Count \in [RootChain -> 0 .. MaxNumber]
  BY BoundAssumption, ParamAssumption DEF IInv, TypeOK
<1>3. /\ e.start \in Nat /\ e.end \in Nat /\ m.start \in Nat /\ m.end \in Nat
  BY <1>1, MsgFields, BoundAssumption, ParamAssumption DEF Checkpoints, Block
<1>4. /\ pipe' \in [0 .. 2 -> SUBSET Msg]
      /\ \A k \in 0 .. 2 : \A x \in pipe'[k] : x.type = "checkpoint" => x.start < x.end
  BY <1>1, ExecutedFacts DEF IInv
<1>5. TypeOK'
  <2>1. ackCount' \in [RootChain -> 0 .. MaxNumber]
    BY <1>1, <1>2 DEF Numbers
  <2>2. checkpoints' \in [RootChain -> [Numbers -> Checkpoints \cup {None}]]
    BY <1>1, <1>2
  <2>3. buffer' \in [RootChain -> Checkpoints \cup {None}]
    BY <1>1 DEF IInv, TypeOK
  <2>4. QED
    BY <1>1, <1>4, <2>1, <2>2, <2>3 DEF IInv, TypeOK
<1>6. /\ ackCount'[r] = c + 1 /\ checkpoints'[r][c + 1] = e
      /\ \A n \in Numbers : n # c + 1 => checkpoints'[r][n] = checkpoints[r][n]
      /\ \A q \in RootChain : q # r => /\ ackCount'[q] = ackCount[q]
                                       /\ checkpoints'[q] = checkpoints[q]
  BY <1>1, <1>2
<1>7. /\ NextStart(r) = IF c = 0 THEN Activation[r] ELSE checkpoints[r][c].end + 1
      /\ NextStart(r) \in Nat
  BY <1>1, TipValue DEF IInv
<1>8. e # None
  BY <1>1, NoneAssumption
<1>9. StoreGapless'
  <2>1. SUFFICES ASSUME NEW q \in RootChain, NEW n \in Numbers
                 PROVE  /\ checkpoints'[q][n] # None <=> n <= ackCount'[q]
                        /\ n <= ackCount'[q] =>
                              checkpoints'[q][n].start =
                                  IF n = 1 THEN Activation[q]
                                  ELSE checkpoints'[q][n - 1].end + 1
    BY DEF StoreGapless
  <2>2. CASE q # r
    BY <1>6, <2>2 DEF IInv, StoreGapless
  <2>3. CASE q = r /\ n = c + 1
    <3>1. c # 0 => c \in Numbers /\ c # c + 1 /\ checkpoints'[r][c] = checkpoints[r][c]
      BY <1>1, <1>2, <1>6 DEF Numbers
    <3>2. e.start = IF c = 0 THEN Activation[r] ELSE checkpoints'[r][c].end + 1
      BY <1>1, <1>7, <3>1
    <3>3. n - 1 = c /\ (n = 1 <=> c = 0) /\ n <= ackCount'[r]
      BY <1>1, <1>6, <2>3
    <3>4. QED
      BY <1>6, <1>8, <2>3, <3>2, <3>3
  <2>4. CASE q = r /\ n # c + 1
    <3>1. n <= ackCount'[r] <=> n <= c
      BY <1>1, <1>2, <1>6, <2>4 DEF Numbers
    <3>2. checkpoints'[r][n] = checkpoints[r][n]
      BY <1>6, <2>4
    <3>3. n <= c /\ n # 1 => checkpoints'[r][n - 1] = checkpoints[r][n - 1]
      BY <1>1, <1>2, <1>6 DEF Numbers
    <3>4. QED
      BY <1>1, <2>4, <3>1, <3>2, <3>3 DEF IInv, StoreGapless
  <2>5. QED
    BY <2>2, <2>3, <2>4
<1>10. /\ NextStart(r)' = e.end + 1
       /\ \A q \in RootChain : q # r => NextStart(q)' = NextStart(q)
  <2>1. NextStart(r)' = e.end + 1
    BY <1>1, <1>5, <1>6, <1>9, TipValuePrime
  <2>2. ASSUME NEW q \in RootChain, q # r
        PROVE  NextStart(q)' = NextStart(q)
    BY <1>6, <2>2 DEF NextStart, HasLastCheckpoint, LastCheckpoint
  <2>3. QED
    BY <2>1, <2>2
<1>11. \A q \in RootChain : /\ NextStart(q) \in Nat /\ NextStart(q)' \in Nat
                            /\ NextStart(q) <= NextStart(q)'
  <2>1. \A q \in RootChain : NextStart(q) \in Nat
    BY TipValue DEF IInv
  <2>2. QED
    BY <1>1, <1>3, <1>10, <2>1
<1>12. StoreInv'
  <2>1. SUFFICES ASSUME NEW q \in RootChain, NEW n \in Numbers, n <= ackCount'[q]
                 PROVE  /\ checkpoints'[q][n].start < checkpoints'[q][n].end
                        /\ checkpoints'[q][n].end < NextStart(q)'
    BY DEF StoreInv
  <2>2. CASE q # r
    BY <1>6, <1>10, <2>1, <2>2 DEF IInv, StoreInv
  <2>3. CASE q = r /\ n = c + 1
    BY <1>1, <1>3, <1>6, <1>10, <2>3
  <2>4. CASE q = r /\ n # c + 1
    <3>1. n <= c /\ checkpoints'[r][n] = checkpoints[r][n]
      BY <1>1, <1>2, <1>6, <2>1, <2>4 DEF Numbers
    <3>2. checkpoints[r][n] \in Checkpoints
      BY <1>1, <3>1 DEF IInv, TypeOK, StoreGapless
    <3>3. checkpoints[r][n].end \in Nat
      BY <3>2, BoundAssumption, ParamAssumption DEF Checkpoints, Block
    <3>4. checkpoints[r][n].start < checkpoints[r][n].end
             /\ checkpoints[r][n].end < NextStart(r)
      BY <1>1, <3>1 DEF IInv, StoreInv
    <3>5. QED
      BY <1>1, <1>11, <2>4, <3>1, <3>3, <3>4
  <2>5. QED
    BY <2>2, <2>3, <2>4
<1>13. ApprovedInv'
  <2>1. SUFFICES ASSUME NEW q \in RootChain, NEW h \in approved[q]
                 PROVE  h.start < h.end /\ h.start <= NextStart(q)'
    BY <1>1 DEF ApprovedInv
  <2>2. h.start \in Nat
    BY BoundAssumption, ParamAssumption DEF IInv, TypeOK, Header, Block
  <2>3. QED
    BY <1>11, <2>2 DEF IInv, ApprovedInv
<1>14. HeadersInv'
  BY <1>1 DEF IInv, HeadersInv
<1>15. RootChainAtMostOneAhead'
  BY <1>1, <1>2, <1>6 DEF IInv, RootChainAtMostOneAhead
<1>16. AckedOnRootChain'
  <2>1. SUFFICES ASSUME NEW q \in RootChain, NEW n \in Numbers, n <= ackCount'[q]
                 PROVE  /\ n <= l1Count[q]
                        /\ checkpoints'[q][n].start = l1[q][n].start
                        /\ checkpoints'[q][n].end <= l1[q][n].end
                        /\ n < ackCount'[q] => checkpoints'[q][n].end = l1[q][n].end
    BY <1>1 DEF AckedOnRootChain
  <2>2. CASE q # r
    BY <1>6, <2>1, <2>2 DEF IInv, AckedOnRootChain
  <2>3. CASE q = r /\ n = c + 1
    BY <1>1, <1>3, <1>6, <2>3
  <2>4. CASE q = r /\ n # c + 1
    <3>1. n <= c /\ checkpoints'[r][n] = checkpoints[r][n]
      BY <1>1, <1>2, <1>6, <2>1, <2>4 DEF Numbers
    <3>2. /\ n <= l1Count[r]
          /\ checkpoints[r][n].start = l1[r][n].start
          /\ checkpoints[r][n].end <= l1[r][n].end
          /\ n < c => checkpoints[r][n].end = l1[r][n].end
      BY <1>1, <3>1 DEF IInv, AckedOnRootChain
    <3>3. n = c => checkpoints[r][n].end = l1[r][n].end
      <4>1. SUFFICES ASSUME n = c PROVE checkpoints[r][c].end = l1[r][c].end
        OBVIOUS
      <4>2. c # 0 /\ c + 1 # 1 /\ c + 1 - 1 = c
        BY <1>1, <4>1 DEF Numbers
      <4>3. l1[r][c + 1].start = l1[r][c].end + 1 /\ l1[r][c] \in approved[r]
        BY <1>1, <3>2, <4>1, <4>2 DEF IInv, HeadersInv
      <4>4. NextStart(r) = checkpoints[r][c].end + 1 /\ checkpoints[r][c] \in Checkpoints
        BY <1>1, <4>2, TipValue DEF IInv
      <4>5. l1[r][c] \in Header
        BY <1>1, <4>3 DEF IInv, TypeOK
      <4>6. checkpoints[r][c].end \in Nat /\ l1[r][c].end \in Nat
        BY <4>4, <4>5, BoundAssumption, ParamAssumption DEF Checkpoints, Header, Block
      <4>7. QED
        BY <1>1, <4>3, <4>4, <4>6
    <3>4. QED
      BY <1>1, <2>4, <3>1, <3>2, <3>3 DEF Numbers
  <2>5. QED
    BY <2>2, <2>3, <2>4
<1>17. BufferExtendsTip'
  <2>1. SUFFICES ASSUME NEW q \in RootChain, buffer'[q] # None
                 PROVE  buffer'[q].start = NextStart(q)'
    BY DEF BufferExtendsTip
  <2>2. q # r /\ buffer'[q] = buffer[q]
    BY <1>1, <2>1 DEF IInv, TypeOK
  <2>3. QED
    BY <1>10, <2>1, <2>2 DEF IInv, BufferExtendsTip
<1>18. RangesInv'
  <2>1. \A q \in RootChain : buffer'[q] # None => buffer'[q] = buffer[q]
    BY <1>1 DEF IInv, TypeOK
  <2>2. QED
    BY <1>4, <2>1 DEF IInv, RangesInv
<1>19. QED
  BY <1>5, <1>9, <1>12, <1>13, <1>14, <1>15, <1>16, <1>17, <1>18 DEF IInv

-----------------------------------------------------------------------------
(* The invariant.                                                          *)

LEMMA StepIInv == IInv /\ [Next]_vars => IInv'
<1>1. SUFFICES ASSUME IInv, [Next]_vars PROVE IInv'
  OBVIOUS
<1>2. ASSUME NEW m \in Proposals, HandleMsgCheckpoint(m) PROVE IInv'
  BY <1>1, <1>2, HandleMsgCheckpointStep
<1>3. ASSUME NEW m \in Acks, HandleMsgCheckpointAck(m) PROVE IInv'
  BY <1>1, <1>3, HandleMsgCheckpointAckStep
<1>4. CASE HandleMsgCheckpointNoAck
  BY <1>1, <1>4, HandleMsgCheckpointNoAckStep
<1>5. ASSUME NEW m \in pipe[2], PostHandleMsgCheckpoint(m) PROVE IInv'
  BY <1>1, <1>5, PostHandleMsgCheckpointStep
<1>6. ASSUME NEW m \in pipe[2], PostHandleMsgCheckpointAck(m) PROVE IInv'
  BY <1>1, <1>6, PostHandleMsgCheckpointAckStep
<1>7. ASSUME NEW m \in pipe[2], SideTxDropped(m) PROVE IInv'
  BY <1>1, <1>7, SideTxDroppedStep
<1>8. ASSUME NEW dt \in TimeSteps, NextBlock(dt) PROVE IInv'
  BY <1>1, <1>8, NextBlockStep
<1>9. ASSUME NEW r \in RootChain, NEW h \in approved[r], SubmitHeaderBlock(r, h)
      PROVE  IInv'
  BY <1>1, <1>9, SubmitHeaderBlockStep
<1>10. CASE UNCHANGED vars
  <2>1. UNCHANGED <<time, proposer, ackCount, checkpoints, buffer, lastNoAck, pipe,
                    approved, l1Count, l1>>
    BY <1>10 DEF vars
  <2>2. TypeOK'
    BY <1>1, <2>1 DEF IInv, TypeOK
  <2>3. BufferExtendsTip' /\ RangesInv'
    BY <1>1, <2>1, StoreUnchanged DEF IInv, BufferExtendsTip, RangesInv
  <2>4. QED
    BY <1>1, <2>1, <2>2, <2>3, StoreUnchanged, RootUnchanged DEF IInv
<1>11. QED
  BY <1>1, <1>2, <1>3, <1>4, <1>5, <1>6, <1>7, <1>8, <1>9, <1>10 DEF Next

LEMMA InvariantIInv == Spec => []IInv
  BY InitIInv, StepIInv, PTL DEF Spec

\* Every variable keeps its type: no handler leaves a key of the store, a
\* buffer or a side transaction with something else in it.
THEOREM TypeCorrect == Spec => []TypeOK
<1>1. IInv => TypeOK
  BY DEF IInv
<1>2. QED
  BY <1>1, InvariantIInv, PTL

\* The store is gapless (AddCheckpoint, UpdateACKCount).
THEOREM Gapless == Spec => []StoreGapless
<1>1. IInv => StoreGapless
  BY DEF IInv
<1>2. QED
  BY <1>1, InvariantIInv, PTL

\* Every stored checkpoint stands for the root chain's header of its number
\* (PostHandleMsgCheckpointAck).
THEOREM AcknowledgedIsSubmitted == Spec => []AckedOnRootChain
<1>1. IInv => AckedOnRootChain
  BY DEF IInv
<1>2. QED
  BY <1>1, InvariantIInv, PTL

\* The root chain is at most one header ahead, however late a signed checkpoint
\* is submitted.
THEOREM OneAhead == Spec => []RootChainAtMostOneAhead
<1>1. IInv => RootChainAtMostOneAhead
  BY DEF IInv
<1>2. QED
  BY <1>1, InvariantIInv, PTL

\* The buffer always continues the last acknowledged checkpoint
\* (PostHandleMsgCheckpoint).
THEOREM BufferAtTip == Spec => []BufferExtendsTip
<1>1. IInv => BufferExtendsTip
  BY DEF IInv
<1>2. QED
  BY <1>1, InvariantIInv, PTL

-----------------------------------------------------------------------------
(* The buffer is kept until it is acknowledged or times out.               *)

LEMMA BufferKeptStep ==
    ASSUME IInv, [Next]_vars, NEW r \in RootChain, buffer[r] # None, buffer'[r] # buffer[r]
    PROVE  /\ buffer'[r] = None
           /\ Expired(buffer[r].timeStamp) \/ ackCount'[r] = ackCount[r] + 1
<1>1. buffer \in [RootChain -> Checkpoints \cup {None}]
         /\ ackCount \in [RootChain -> 0 .. MaxNumber]
  BY DEF IInv, TypeOK
<1>2. ASSUME NEW m \in Proposals, HandleMsgCheckpoint(m)
      PROVE  buffer'[r] = None /\ Expired(buffer[r].timeStamp)
  <2>1. buffer' = [buffer EXCEPT ![m.root] = None] /\ BufferFree(m.root)
    BY <1>2 DEF HandleMsgCheckpoint
  <2>2. m.root = r /\ buffer'[r] = None
    BY <1>1, <2>1
  <2>3. QED
    BY <2>1, <2>2 DEF BufferFree
<1>3. ASSUME NEW m \in Acks, HandleMsgCheckpointAck(m) PROVE FALSE
  BY <1>3 DEF HandleMsgCheckpointAck, heimdallVars
<1>4. CASE HandleMsgCheckpointNoAck
  BY <1>4 DEF HandleMsgCheckpointNoAck
<1>5. ASSUME NEW m \in pipe[2], PostHandleMsgCheckpoint(m) PROVE FALSE
  <2>1. /\ buffer[m.root] = None
        /\ \E b : buffer' = [buffer EXCEPT ![m.root] = b]
    BY <1>5 DEF PostHandleMsgCheckpoint
  <2>2. QED
    BY <1>1, <2>1
<1>6. ASSUME NEW m \in pipe[2], PostHandleMsgCheckpointAck(m)
      PROVE  buffer'[r] = None /\ ackCount'[r] = ackCount[r] + 1
  <2>1. /\ buffer' = [buffer EXCEPT ![m.root] = None]
        /\ ackCount' = [ackCount EXCEPT ![m.root] = ackCount[m.root] + 1]
    BY <1>6 DEF PostHandleMsgCheckpointAck
  <2>2. m.root = r
    BY <1>1, <2>1
  <2>3. QED
    BY <1>1, <2>1, <2>2
<1>7. ASSUME NEW m \in pipe[2], SideTxDropped(m) PROVE FALSE
  BY <1>7 DEF SideTxDropped, heimdallVars
<1>8. ASSUME NEW dt \in TimeSteps, NextBlock(dt) PROVE FALSE
  BY <1>8 DEF NextBlock
<1>9. ASSUME NEW q \in RootChain, NEW h \in approved[q], SubmitHeaderBlock(q, h)
      PROVE  FALSE
  BY <1>9 DEF SubmitHeaderBlock, heimdallVars
<1>10. CASE UNCHANGED vars
  BY <1>10 DEF vars
<1>11. QED
  BY <1>2, <1>3, <1>4, <1>5, <1>6, <1>7, <1>8, <1>9, <1>10 DEF Next

\* A buffered checkpoint is given up only when acknowledged or timed out
\* (handleMsgCheckpoint's flush, PostHandleMsgCheckpoint's refusal).
THEOREM BufferNotLost == Spec => BufferKept
<1>1. IInv /\ [Next]_vars =>
         [\A r \in RootChain :
             buffer[r] # None /\ buffer'[r] # buffer[r] =>
                 /\ buffer'[r] = None
                 /\ Expired(buffer[r].timeStamp) \/ ackCount'[r] = ackCount[r] + 1]_vars
  BY BufferKeptStep
<1>2. QED
  BY <1>1, InvariantIInv, PTL DEF Spec, BufferKept

-----------------------------------------------------------------------------
(* Refinement: the store is an append-only ledger.                         *)

Ranges == [start: Block, end: Block]

\* A function over 1 .. k is a sequence of length k.
LEMMA FunctionIsSeq ==
    ASSUME NEW S, NEW k \in Nat, NEW f \in [1 .. k -> S]
    PROVE  f \in Seq(S) /\ Len(f) = k
<1>1. f \in Seq(S)
  OBVIOUS
<1>2. QED
  BY <1>1

\* The history is a sequence of ranges as long as the ack count.
LEMMA HistorySequence ==
    ASSUME TypeOK, StoreGapless, NEW r \in RootChain
    PROVE  /\ History[r] \in Seq(Ranges) /\ Len(History[r]) = ackCount[r]
           /\ \A n \in 1 .. ackCount[r] :
                 History[r][n] = [start |-> checkpoints[r][n].start,
                                  end   |-> checkpoints[r][n].end]
<1>1. ackCount[r] \in Nat /\ \A n \in 1 .. ackCount[r] : n \in Numbers /\ n <= ackCount[r]
  BY BoundAssumption, ParamAssumption DEF TypeOK, Numbers
<1>2. \A n \in 1 .. ackCount[r] : checkpoints[r][n] \in Checkpoints
  BY <1>1 DEF TypeOK, StoreGapless
<1>3. \A n \in 1 .. ackCount[r] :
         [start |-> checkpoints[r][n].start, end |-> checkpoints[r][n].end] \in Ranges
  BY <1>2 DEF Checkpoints, Ranges
<1>4. History[r] = [n \in 1 .. ackCount[r] |->
                       [start |-> checkpoints[r][n].start, end |-> checkpoints[r][n].end]]
  BY <1>1, <1>2, NoneAssumption DEF History, BlockRange
<1>5. History[r] \in [1 .. ackCount[r] -> Ranges]
  BY <1>3, <1>4
<1>6. QED
  BY <1>1, <1>4, <1>5, FunctionIsSeq

\* The same after a step.
LEMMA HistorySequencePrime ==
    ASSUME TypeOK', StoreGapless', NEW r \in RootChain
    PROVE  /\ History'[r] \in Seq(Ranges) /\ Len(History'[r]) = ackCount'[r]
           /\ \A n \in 1 .. ackCount'[r] :
                 History'[r][n] = [start |-> checkpoints'[r][n].start,
                                   end   |-> checkpoints'[r][n].end]
<1>1. ackCount'[r] \in Nat /\ \A n \in 1 .. ackCount'[r] : n \in Numbers /\ n <= ackCount'[r]
  BY BoundAssumption, ParamAssumption DEF TypeOK, Numbers
<1>2. \A n \in 1 .. ackCount'[r] : checkpoints'[r][n] \in Checkpoints
  BY <1>1 DEF TypeOK, StoreGapless
<1>3. \A n \in 1 .. ackCount'[r] :
         [start |-> checkpoints'[r][n].start, end |-> checkpoints'[r][n].end] \in Ranges
  BY <1>2 DEF Checkpoints, Ranges
<1>4. History'[r] = [n \in 1 .. ackCount'[r] |->
                        [start |-> checkpoints'[r][n].start,
                         end |-> checkpoints'[r][n].end]]
  BY <1>1, <1>2, NoneAssumption DEF History, BlockRange
<1>5. History'[r] \in [1 .. ackCount'[r] -> Ranges]
  BY <1>3, <1>4
<1>6. QED
  BY <1>1, <1>4, <1>5, FunctionIsSeq

\* The ledger's next block is the tip both handlers compare with.
LEMMA LedgerTip ==
    ASSUME TypeOK, StoreGapless, NEW r \in RootChain
    PROVE  Ledger!NextBlock(r) = NextStart(r)
<1>1. /\ History[r] \in Seq(Ranges) /\ Len(History[r]) = ackCount[r]
      /\ \A n \in 1 .. ackCount[r] :
            History[r][n] = [start |-> checkpoints[r][n].start,
                             end   |-> checkpoints[r][n].end]
  BY HistorySequence
<1>2. CASE ackCount[r] = 0
  <2>1. History[r] = <<>>
    BY <1>1, <1>2
  <2>2. QED
    BY <1>2, <2>1, TipValue DEF Ledger!NextBlock
<1>3. CASE ackCount[r] # 0
  <2>1. ackCount[r] \in 1 .. ackCount[r]
    BY <1>3, BoundAssumption, ParamAssumption DEF TypeOK
  <2>2. History[r] # <<>>
    BY <1>1, <1>3, EmptySeq
  <2>3. History[r][Len(History[r])].end = checkpoints[r][ackCount[r]].end
    <3>1. History[r][ackCount[r]] = [start |-> checkpoints[r][ackCount[r]].start,
                                     end   |-> checkpoints[r][ackCount[r]].end]
      BY <1>1, <2>1
    <3>2. History[r][ackCount[r]].end = checkpoints[r][ackCount[r]].end
      BY <3>1
    <3>3. QED
      BY <1>1, <3>2
  <2>4. Ledger!NextBlock(r) = History[r][Len(History[r])].end + 1
    BY <2>2 DEF Ledger!NextBlock
  <2>5. NextStart(r) = checkpoints[r][ackCount[r]].end + 1
    BY <1>3, TipValue
  <2>6. QED
    BY <2>3, <2>4, <2>5
<1>4. QED
  BY <1>2, <1>3

\* An acknowledgement appends to one ledger.
LEMMA AckFinalises ==
    ASSUME IInv, IInv', NEW m \in pipe[2], PostHandleMsgCheckpointAck(m)
    PROVE  Ledger!Next
<1>1. PICK r \in RootChain, e \in Checkpoints, c \in Nat :
         /\ c = ackCount[r] /\ c + 1 \in Numbers
         /\ e.start = NextStart(r) /\ e.start < e.end
         /\ ackCount' = [ackCount EXCEPT ![r] = c + 1]
         /\ checkpoints' = [checkpoints EXCEPT ![r][c + 1] = e]
  BY AckEffect
<1>2. DEFINE x == [start |-> NextStart(r), end |-> e.end]
<1>3. /\ ackCount'[r] = c + 1 /\ checkpoints'[r][c + 1] = e
      /\ \A n \in Numbers : n # c + 1 => checkpoints'[r][n] = checkpoints[r][n]
      /\ \A q \in RootChain : q # r => /\ ackCount'[q] = ackCount[q]
                                       /\ checkpoints'[q] = checkpoints[q]
  BY <1>1 DEF IInv, TypeOK
<1>4. e.end \in Block /\ x \in Ranges /\ x = [start |-> e.start, end |-> e.end]
  BY <1>1 DEF Checkpoints, Ranges
<1>5. /\ History[r] \in Seq(Ranges) /\ Len(History[r]) = c
      /\ \A n \in 1 .. c : History[r][n] = [start |-> checkpoints[r][n].start,
                                            end   |-> checkpoints[r][n].end]
  BY <1>1, HistorySequence DEF IInv
<1>6. /\ History'[r] \in Seq(Ranges) /\ Len(History'[r]) = c + 1
      /\ \A n \in 1 .. c + 1 : History'[r][n] = [start |-> checkpoints'[r][n].start,
                                                 end   |-> checkpoints'[r][n].end]
  BY <1>1, <1>3, HistorySequencePrime DEF IInv
<1>7. History'[r] = Append(History[r], x)
  <2>1. /\ Append(History[r], x) \in Seq(Ranges) /\ Len(Append(History[r], x)) = c + 1
        /\ Append(History[r], x)[c + 1] = x
        /\ \A n \in 1 .. c : Append(History[r], x)[n] = History[r][n]
    BY <1>4, <1>5, AppendProperties
  <2>2. \A n \in 1 .. c : checkpoints'[r][n] = checkpoints[r][n]
    BY <1>1, <1>3, BoundAssumption, ParamAssumption DEF Numbers
  <2>3. ASSUME NEW n \in 1 .. c + 1
        PROVE  History'[r][n] = Append(History[r], x)[n]
    <3>1. CASE n = c + 1
      BY <1>3, <1>4, <1>6, <2>1, <3>1
    <3>2. CASE n # c + 1
      <4>1. n \in 1 .. c
        BY <3>2
      <4>2. QED
        BY <1>5, <1>6, <2>1, <2>2, <4>1
    <3>3. QED
      BY <3>1, <3>2
  <2>4. QED
    BY <1>6, <2>1, <2>3, SeqEqual
<1>8. \A q \in RootChain : q # r => History'[q] = History[q]
  BY <1>3 DEF History, BlockRange
<1>9. History' = [History EXCEPT ![r] = Append(History[r], x)]
  BY <1>7, <1>8 DEF History
<1>10. Ledger!NextBlock(r) = NextStart(r)
  BY LedgerTip DEF IInv
<1>11. e.end > NextStart(r)
  BY <1>1, <1>4, TipValue, BoundAssumption, ParamAssumption DEF IInv, Block
<1>12. Ledger!Finalise(r, e.end)
  BY <1>9, <1>10, <1>11 DEF Ledger!Finalise
<1>13. QED
  BY <1>4, <1>12 DEF Ledger!Next

\* The checkpoint module implements the append-only ledger: only an approved
\* acknowledgement changes what is finalised, and it appends the next range.
THEOREM LedgerRefined == Spec => ImplementsLedger
<1>1. Init => Ledger!Init
  <2>1. SUFFICES ASSUME Init PROVE History = [r \in RootChain |-> <<>>]
    BY DEF Ledger!Init
  <2>2. \A r \in RootChain : Len(History[r]) = 0 /\ History[r] \in Seq(Ranges)
    <3>1. TypeOK /\ StoreGapless
      BY <2>1, InitIInv DEF IInv
    <3>2. QED
      BY <2>1, <3>1, HistorySequence DEF Init
  <2>3. \A r \in RootChain : History[r] = <<>>
    BY <2>2
  <2>4. QED
    BY <2>3 DEF History
<1>2. ASSUME IInv, IInv', [Next]_vars PROVE [Ledger!Next]_History
  <2>1. ASSUME NEW m \in pipe[2], PostHandleMsgCheckpointAck(m) PROVE Ledger!Next
    BY <1>2, <2>1, AckFinalises
  <2>2. CASE UNCHANGED <<ackCount, checkpoints>>
    BY <2>2 DEF History
  <2>3. ASSUME NEW m \in Proposals, HandleMsgCheckpoint(m)
        PROVE  UNCHANGED <<ackCount, checkpoints>>
    BY <2>3 DEF HandleMsgCheckpoint
  <2>4. ASSUME NEW m \in Acks, HandleMsgCheckpointAck(m)
        PROVE  UNCHANGED <<ackCount, checkpoints>>
    BY <2>4 DEF HandleMsgCheckpointAck, heimdallVars
  <2>5. CASE HandleMsgCheckpointNoAck
    BY <2>2, <2>5 DEF HandleMsgCheckpointNoAck
  <2>6. ASSUME NEW m \in pipe[2], PostHandleMsgCheckpoint(m)
        PROVE  UNCHANGED <<ackCount, checkpoints>>
    BY <2>6 DEF PostHandleMsgCheckpoint
  <2>7. ASSUME NEW m \in pipe[2], SideTxDropped(m)
        PROVE  UNCHANGED <<ackCount, checkpoints>>
    BY <2>7 DEF SideTxDropped, heimdallVars
  <2>8. ASSUME NEW dt \in TimeSteps, NextBlock(dt)
        PROVE  UNCHANGED <<ackCount, checkpoints>>
    BY <2>8 DEF NextBlock
  <2>9. ASSUME NEW r \in RootChain, NEW h \in approved[r], SubmitHeaderBlock(r, h)
        PROVE  UNCHANGED <<ackCount, checkpoints>>
    BY <2>9 DEF SubmitHeaderBlock, heimdallVars
  <2>10. CASE UNCHANGED vars
    BY <2>2, <2>10 DEF vars
  <2>11. QED
    BY <1>2, <2>1, <2>2, <2>3, <2>4, <2>5, <2>6, <2>7, <2>8, <2>9, <2>10 DEF Next
<1>3. QED
  BY <1>1, <1>2, InvariantIInv, PTL DEF Spec, ImplementsLedger, Ledger!Spec

-----------------------------------------------------------------------------
(* The sync to the stake chain.  An acknowledgement speaks of a header the *)
(* stake chain has, however long it is on its way, and that header stays:  *)
(* the buffered sync it flushes too early has a larger number.             *)

AcksSynced ==
    /\ \A m \in mempool : m.type = "syncAck" => m.number <= synced
    /\ \A k \in 0 .. 2 : \A m \in syncPipe[k] : m.type = "syncAck" => m.number <= synced

SyncInv == SyncTypeOK /\ AcksSynced

LEMMA SyncTimes == SyncTime \in 0 .. BufferTime /\ BufferTime \in Nat /\ MaxNumber \in Nat
  BY ParamAssumption DEF SyncTime

\* A buffered sync is a record, and any other value under the key is None.
LEMMA BufferIsRecord ==
    ASSUME SyncTypeOK, syncBuffer # None
    PROVE  syncBuffer \in BufferedSync
  BY DEF SyncTypeOK

LEMMA InitSyncInv == SyncInit => SyncInv
<1>1. SUFFICES ASSUME SyncInit PROVE SyncInv
  OBVIOUS
<1>2. SyncTypeOK
  BY <1>1, ParamAssumption DEF SyncInit, SyncTypeOK
<1>3. AcksSynced
  BY <1>1 DEF SyncInit, AcksSynced
<1>4. QED
  BY <1>2, <1>3 DEF SyncInv

\* What is delivered was in the mempool.
LEMMA DeliverKeepsInv ==
    ASSUME SyncInv, NEW m, DeliverSync(m), synced' = synced, headers' = headers,
           notified' = notified, syncBuffer' \in {syncBuffer, None}
    PROVE  SyncInv'
<1>1. mempool' = mempool \ {m} /\ m \in mempool /\ m \in SyncMsg
      /\ syncPipe' = [syncPipe EXCEPT ![0] = @ \cup {m}]
  BY DEF DeliverSync, SyncInv, SyncTypeOK
<1>2. syncPipe' \in [0 .. 2 -> SUBSET SyncMsg]
  BY <1>1 DEF SyncInv, SyncTypeOK
<1>3. SyncTypeOK'
  BY <1>1, <1>2 DEF SyncInv, SyncTypeOK
<1>4. \A k \in 0 .. 2 : \A x \in syncPipe'[k] : x \in syncPipe[k] \/ x = m
  BY <1>1 DEF SyncInv, SyncTypeOK
<1>5. AcksSynced'
  BY <1>1, <1>4 DEF AcksSynced, SyncInv
<1>6. QED
  BY <1>3, <1>5 DEF SyncInv

\* What is executed leaves the pipe, whatever the post handler writes.
LEMMA ExecuteKeepsInv ==
    ASSUME SyncInv, NEW m, ExecutedSync(m), synced' = synced, headers' = headers,
           mempool' = mempool, notified' \subseteq Numbers,
           syncBuffer' \in BufferedSync \cup {None}
    PROVE  SyncInv'
<1>1. m \in syncPipe[2] /\ syncPipe' = [syncPipe EXCEPT ![2] = @ \ {m}]
  BY DEF ExecutedSync
<1>2. syncPipe' \in [0 .. 2 -> SUBSET SyncMsg]
  BY <1>1 DEF SyncInv, SyncTypeOK
<1>3. SyncTypeOK'
  BY <1>2 DEF SyncInv, SyncTypeOK
<1>4. \A k \in 0 .. 2 : \A x \in syncPipe'[k] : x \in syncPipe[k]
  BY <1>1 DEF SyncInv, SyncTypeOK
<1>5. AcksSynced'
  BY <1>4 DEF AcksSynced, SyncInv
<1>6. QED
  BY <1>3, <1>5 DEF SyncInv

LEMMA OlderBounds ==
    ASSUME NEW age \in 0 .. BufferTime, NEW dt \in Nat
    PROVE  Older(age, dt) \in 0 .. BufferTime /\ Older(age, dt) >= age
  BY SyncTimes DEF Older

LEMMA BlockKeepsInv ==
    ASSUME SyncInv, NEW dt \in TimeSteps, NextSyncBlock(dt)
    PROVE  SyncInv'
<1>1. dt \in Nat
  BY ParamAssumption
<1>2. /\ syncPipe' = [k \in 0 .. 2 |-> IF k = 0 THEN {} ELSE syncPipe[k - 1]]
      /\ syncBuffer' = IF syncBuffer = None THEN None
                       ELSE [syncBuffer EXCEPT !.age = Older(@, dt)]
      /\ UNCHANGED <<l1Vars, mempool, notified>>
  BY DEF NextSyncBlock
<1>3. syncBuffer # None => [syncBuffer EXCEPT !.age = Older(@, dt)] \in BufferedSync
  BY <1>1, BufferIsRecord, OlderBounds DEF BufferedSync, SyncInv
<1>4. syncBuffer' \in BufferedSync \cup {None}
  BY <1>2, <1>3
<1>5. \A k \in 0 .. 2 : \/ syncPipe'[k] = {}
                        \/ k - 1 \in 0 .. 2 /\ syncPipe'[k] = syncPipe[k - 1]
  BY <1>2
<1>6. syncPipe' \in [0 .. 2 -> SUBSET SyncMsg]
  BY <1>2, <1>5 DEF SyncInv, SyncTypeOK
<1>7. SyncTypeOK'
  BY <1>2, <1>4, <1>6 DEF SyncInv, SyncTypeOK, l1Vars
<1>8. AcksSynced'
  BY <1>2, <1>5 DEF AcksSynced, SyncInv, l1Vars
<1>9. QED
  BY <1>7, <1>8 DEF SyncInv

\* Every step keeps the types, and the acknowledgements behind the stake chain.
LEMMA SyncStep == SyncInv /\ [SyncNext]_syncVars => SyncInv'
<1>1. SUFFICES ASSUME SyncInv, [SyncNext]_syncVars PROVE SyncInv'
  OBVIOUS
<1>. USE SyncTimes
<1>2. ASSUME NEW v \in Sender, SendCheckpointSync(v) PROVE SyncInv'
  <2>1. [type |-> "sync", sender |-> v, number |-> synced + 1] \in SyncMsg
    BY <1>1, <1>2 DEF SendCheckpointSync, SyncInv, SyncTypeOK, SyncMsg, Sync, Numbers
  <2>2. SyncTypeOK'
    BY <1>1, <1>2, <2>1 DEF SendCheckpointSync, SyncInv, SyncTypeOK
  <2>3. AcksSynced'
    BY <1>1, <1>2 DEF SendCheckpointSync, SyncInv, AcksSynced
  <2>4. QED
    BY <2>2, <2>3 DEF SyncInv
<1>3. ASSUME NEW n \in Numbers, SendCheckpointSyncAck(n) PROVE SyncInv'
  <2>1. [type |-> "syncAck", number |-> n] \in SyncMsg
    BY DEF SyncMsg, SyncAck
  <2>2. SyncTypeOK'
    BY <1>1, <1>3, <2>1 DEF SendCheckpointSyncAck, SyncInv, SyncTypeOK
  <2>3. AcksSynced'
    BY <1>1, <1>3 DEF SendCheckpointSyncAck, SyncInv, AcksSynced
  <2>4. QED
    BY <2>2, <2>3 DEF SyncInv
<1>4. ASSUME NEW m \in mempool, HandleMsgCheckpointSync(m) PROVE SyncInv'
  BY <1>1, <1>4, DeliverKeepsInv DEF HandleMsgCheckpointSync, l1Vars
<1>5. ASSUME NEW m \in mempool, HandleMsgCheckpointSyncAck(m) PROVE SyncInv'
  BY <1>1, <1>5, DeliverKeepsInv DEF HandleMsgCheckpointSyncAck, l1Vars
<1>6. ASSUME NEW m \in mempool, TxFails(m) PROVE SyncInv'
  BY <1>1, <1>6 DEF TxFails, l1Vars, SyncInv, SyncTypeOK, AcksSynced
<1>7. ASSUME NEW m \in syncPipe[2], PostHandleMsgCheckpointSync(m) PROVE SyncInv'
  <2>1. m \in SyncMsg /\ m.type = "sync"
    BY <1>1, <1>7 DEF PostHandleMsgCheckpointSync, SyncInv, SyncTypeOK
  <2>2. m.number \in Numbers
    BY <2>1 DEF SyncMsg, Sync, SyncAck
  <2>3. [number |-> m.number, age |-> 0] \in BufferedSync
    BY <2>2 DEF BufferedSync
  <2>4. notified' \subseteq Numbers
    BY <1>1, <1>7, <2>2 DEF PostHandleMsgCheckpointSync, SyncInv, SyncTypeOK
  <2>5. QED
    BY <1>1, <1>7, <2>3, <2>4, ExecuteKeepsInv DEF PostHandleMsgCheckpointSync, l1Vars
<1>8. ASSUME NEW m \in syncPipe[2], PostHandleMsgCheckpointSyncAck(m) PROVE SyncInv'
  <2>1. notified' \subseteq Numbers /\ syncBuffer' = None
    BY <1>1, <1>8 DEF PostHandleMsgCheckpointSyncAck, SyncInv, SyncTypeOK
  <2>2. QED
    BY <1>1, <1>8, <2>1, ExecuteKeepsInv DEF PostHandleMsgCheckpointSyncAck, l1Vars
<1>9. ASSUME NEW m \in syncPipe[2], SyncDropped(m) PROVE SyncInv'
  <2>1. notified' \subseteq Numbers /\ syncBuffer' \in BufferedSync \cup {None}
    BY <1>1, <1>9 DEF SyncDropped, SyncInv, SyncTypeOK
  <2>2. QED
    BY <1>1, <1>9, <2>1, ExecuteKeepsInv DEF SyncDropped, l1Vars
<1>10. ASSUME NEW dt \in TimeSteps, NextSyncBlock(dt) PROVE SyncInv'
  BY <1>1, <1>10, BlockKeepsInv
<1>11. CASE NewHeaderBlock
  BY <1>1, <1>11 DEF NewHeaderBlock, SyncInv, SyncTypeOK, AcksSynced
<1>12. ASSUME NEW n \in notified, SendCheckpointSyncToStakeChain(n) PROVE SyncInv'
  <2>1. synced' = synced + 1 /\ synced' \in 0 .. MaxNumber
        /\ UNCHANGED <<headers, syncBuffer, mempool, syncPipe>> /\ notified' \subseteq notified
    BY <1>1, <1>12 DEF SendCheckpointSyncToStakeChain, SyncInv, SyncTypeOK, Numbers
  <2>2. SyncTypeOK'
    BY <1>1, <2>1 DEF SyncInv, SyncTypeOK
  <2>3. \A m \in SyncMsg : m.type = "syncAck" => m.number \in Nat
    BY DEF SyncMsg, Sync, SyncAck, Numbers
  <2>4. AcksSynced'
    BY <1>1, <2>1, <2>3 DEF SyncInv, SyncTypeOK, AcksSynced
  <2>5. QED
    BY <2>2, <2>4 DEF SyncInv
<1>13. ASSUME NEW n \in notified, NotSent(n) PROVE SyncInv'
  BY <1>1, <1>13 DEF NotSent, l1Vars, SyncInv, SyncTypeOK, AcksSynced
<1>14. CASE UNCHANGED syncVars
  BY <1>1, <1>14 DEF syncVars, SyncInv, SyncTypeOK, AcksSynced
<1>15. QED
  BY <1>1, <1>2, <1>3, <1>4, <1>5, <1>6, <1>7, <1>8, <1>9, <1>10, <1>11, <1>12, <1>13,
     <1>14 DEF SyncNext

THEOREM InvariantSync == SyncSpec => []SyncInv
<1>1. QED
  BY InitSyncInv, SyncStep, PTL DEF SyncSpec

\* The state of the sync stays in its types.
THEOREM SyncTypeCorrect == SyncSpec => []SyncTypeOK
<1>1. SyncInv => SyncTypeOK
  BY DEF SyncInv
<1>2. QED
  BY <1>1, InvariantSync, PTL

\* A sync the stake chain has not got yet is never replaced, and is given up
\* early only for the late acknowledgement of a smaller number.
THEOREM SyncBufferKept == SyncSpec => BufferedSyncKept
<1>1. ASSUME SyncInv, [SyncNext]_syncVars PROVE
       (syncBuffer # None /\ syncBuffer' # syncBuffer /\ syncBuffer.number > synced) =>
          \/ /\ syncBuffer' # None
             /\ syncBuffer'.number = syncBuffer.number
             /\ syncBuffer'.age >= syncBuffer.age
          \/ syncBuffer' = None /\ syncBuffer.age >= SyncTime
          \/ syncBuffer' = None /\ \E m \in syncPipe[2] :
                m.type = "syncAck" /\ m.number < syncBuffer.number
  <2>1. SUFFICES ASSUME syncBuffer # None, syncBuffer' # syncBuffer,
                        syncBuffer.number > synced
                 PROVE  \/ /\ syncBuffer' # None
                           /\ syncBuffer'.number = syncBuffer.number
                           /\ syncBuffer'.age >= syncBuffer.age
                        \/ syncBuffer' = None /\ syncBuffer.age >= SyncTime
                        \/ syncBuffer' = None /\ \E m \in syncPipe[2] :
                              m.type = "syncAck" /\ m.number < syncBuffer.number
    OBVIOUS
  <2>2. syncBuffer.age \in 0 .. BufferTime /\ syncBuffer.number \in Numbers
        /\ syncBuffer \in BufferedSync
    BY <1>1, <2>1, BufferIsRecord DEF SyncInv, BufferedSync
  <2>3. CASE UNCHANGED syncBuffer
    BY <2>1, <2>3
  <2>4. ASSUME NEW m \in mempool, HandleMsgCheckpointSync(m)
        PROVE  syncBuffer' = None /\ syncBuffer.age >= SyncTime
    BY <2>1, <2>4 DEF HandleMsgCheckpointSync, OlderThan
  <2>5. ASSUME NEW m \in mempool, HandleMsgCheckpointSyncAck(m)
        PROVE  syncBuffer' = None /\ syncBuffer.age >= SyncTime
    <3>1. syncBuffer' = None /\ OlderThan(BufferTime)
      BY <2>1, <2>5 DEF HandleMsgCheckpointSyncAck
    <3>2. syncBuffer.age >= BufferTime
      BY <2>1, <3>1 DEF OlderThan
    <3>3. QED
      BY <2>2, <3>1, <3>2, SyncTimes
  <2>6. ASSUME NEW m \in syncPipe[2], PostHandleMsgCheckpointSync(m) PROVE FALSE
    BY <2>1, <2>6 DEF PostHandleMsgCheckpointSync
  <2>7. ASSUME NEW m \in syncPipe[2], PostHandleMsgCheckpointSyncAck(m)
        PROVE  syncBuffer' = None /\ m.type = "syncAck" /\ m.number < syncBuffer.number
    <3>1. syncBuffer' = None /\ m.type = "syncAck"
      BY <2>7 DEF PostHandleMsgCheckpointSyncAck
    <3>2. m.number <= synced /\ m \in SyncMsg
      BY <1>1, <3>1 DEF SyncInv, AcksSynced, SyncTypeOK
    <3>3. m.number \in Nat /\ synced \in Nat /\ syncBuffer.number \in Nat
      BY <1>1, <2>2, <3>1, <3>2 DEF SyncMsg, Sync, SyncAck, Numbers, SyncInv, SyncTypeOK
    <3>4. QED
      BY <2>1, <3>1, <3>2, <3>3
  <2>8. ASSUME NEW dt \in TimeSteps, NextSyncBlock(dt)
        PROVE  /\ syncBuffer' # None
               /\ syncBuffer'.number = syncBuffer.number
               /\ syncBuffer'.age >= syncBuffer.age
    <3>1. syncBuffer' = [syncBuffer EXCEPT !.age = Older(@, dt)]
      BY <2>1, <2>8 DEF NextSyncBlock
    <3>2. Older(syncBuffer.age, dt) \in 0 .. BufferTime
          /\ Older(syncBuffer.age, dt) >= syncBuffer.age
      BY <2>2, OlderBounds, ParamAssumption
    <3>3. syncBuffer' \in BufferedSync /\ syncBuffer'.number = syncBuffer.number
          /\ syncBuffer'.age = Older(syncBuffer.age, dt)
      BY <2>2, <3>1, <3>2 DEF BufferedSync
    <3>4. QED
      BY <3>2, <3>3, SyncNoneAssumption
  <2>9. ASSUME NEW v \in Sender, SendCheckpointSync(v) PROVE UNCHANGED syncBuffer
    BY <2>9 DEF SendCheckpointSync
  <2>10. ASSUME NEW n \in Numbers, SendCheckpointSyncAck(n) PROVE UNCHANGED syncBuffer
    BY <2>10 DEF SendCheckpointSyncAck
  <2>11. ASSUME NEW m \in mempool, TxFails(m) PROVE UNCHANGED syncBuffer
    BY <2>11 DEF TxFails
  <2>12. ASSUME NEW m \in syncPipe[2], SyncDropped(m) PROVE UNCHANGED syncBuffer
    BY <2>12 DEF SyncDropped
  <2>13. CASE NewHeaderBlock
    BY <2>3, <2>13 DEF NewHeaderBlock
  <2>14. ASSUME NEW n \in notified, SendCheckpointSyncToStakeChain(n)
         PROVE  UNCHANGED syncBuffer
    BY <2>14 DEF SendCheckpointSyncToStakeChain
  <2>15. ASSUME NEW n \in notified, NotSent(n) PROVE UNCHANGED syncBuffer
    BY <2>15 DEF NotSent
  <2>16. CASE UNCHANGED syncVars
    BY <2>3, <2>16 DEF syncVars
  <2>17. QED
    BY <1>1, <2>3, <2>4, <2>5, <2>6, <2>7, <2>8, <2>9, <2>10, <2>11, <2>12, <2>13, <2>14,
       <2>15, <2>16 DEF SyncNext
<1>2. QED
  BY <1>1, InvariantSync, PTL DEF SyncSpec, BufferedSyncKept
=============================================================================
