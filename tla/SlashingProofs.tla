--------------------------- MODULE SlashingProofs ---------------------------
(* Proofs about module Slashing: the window of missed blocks, the way of a tick,
   the total of the buffer and the power after all ticks, for any validators,
   powers, fractions and order of the messages. *)
EXTENDS Slashing, InductionTheorems, FiniteSetTheorems, TLAPS

(* There is something to send when the total says so. *)
TotalInv == total > 0 => buffer # Empty

(* No message numbers a tick beyond the next one, and nobody can have asked for
   the next one while the last one is not acknowledged. *)
TickInPipe(m) ==
  m.type = "tick" =>
    /\ m.id <= tickCount + 1
    /\ m.id = tickCount + 1 => tick = Empty
    /\ m.infos # Empty

(* An acknowledgement is of a tick the stake chain took. *)
AckInPipe(m) == m.type = "tickAck" => m.id \in DOMAIN l1Ticks

PipeInv == \A k \in 0 .. 2 : \A m \in pipe[k] : TickInPipe(m) /\ AckInPipe(m)

(* One tick was approved under each number; the tick data are the last one. *)
ConfirmedInv ==
  /\ \A m \in confirmed : m.id <= tickCount
  /\ \A m, n \in confirmed : m.id = n.id => m = n
  /\ tick # Empty =>
       \E m \in confirmed : m.id = tickCount /\ m.infos = tick

(* The stake chain took approved ticks in the order of their numbers. *)
StakeChainInv ==
  \A n \in DOMAIN l1Ticks :
    \E m \in confirmed : m.id = n /\ m.infos = l1Ticks[n]

Inv ==
  /\ TypeOK
  /\ MissedIsCounted
  /\ TotalInv /\ PipeInv /\ ConfirmedInv /\ StakeChainInv

-----------------------------------------------------------------------------
(* Amounts and windows.                                                      *)

LEMMA PercentType ==
  ASSUME NEW f \in 0 .. 100, NEW n \in Nat
  PROVE  Percent(f, n) \in Nat
<1>1. f * n \in Nat
  OBVIOUS
<1>2. \A x \in Nat : x \div 100 \in Nat
  OBVIOUS
<1> QED BY <1>1, <1>2 DEF Percent

LEMMA AmountType ==
  ASSUME NEW infos \in Infos, NEW v \in ValidatorID
  PROVE  Amount(infos, v) \in Nat
BY DEF Infos, Info, Amount

LEMMA IndexFinite ==
  ASSUME NEW bits \in SUBSET Index
  PROVE  /\ IsFiniteSet(bits)
         /\ Cardinality(bits) \in 0 .. SignedBlocksWindow
<1>1. IsFiniteSet(Index) /\ Cardinality(Index) = SignedBlocksWindow
  <2>1. SignedBlocksWindow \in Nat /\ SignedBlocksWindow > 0
    BY ParamAssumption
  <2> QED BY <2>1, FS_Interval, 0 \in Int, SignedBlocksWindow - 1 \in Int DEF Index
<1>2. IsFiniteSet(bits) /\ Cardinality(bits) <= Cardinality(Index)
  BY <1>1, FS_Subset
<1> QED BY <1>1, <1>2, FS_CardinalityType, ParamAssumption

(* What MissedIsCounted says of one signing info; exact: the validator is alone
   with its bits. *)
Counted(info, exact) ==
  /\ Cardinality(info.bits) <= info.missed
  /\ exact => info.missed = Cardinality(info.bits)

LEMMA SignedCounts ==
  ASSUME NEW info \in SigningInfo, NEW exact \in BOOLEAN, Counted(info, exact),
         NEW signed \in BOOLEAN
  PROVE  /\ Signed(info, signed) \in SigningInfo
         /\ Counted(Signed(info, signed), exact)
<1> DEFINE new == Signed(info, signed)
<1>1. /\ info.index \in Index /\ info.missed \in Nat /\ info.bits \in SUBSET Index
      /\ IsFiniteSet(info.bits) /\ Cardinality(info.bits) \in Nat
  BY IndexFinite DEF SigningInfo
<1>2. new.index \in Index
  BY <1>1, ParamAssumption DEF Signed, Index
<1>3. new.bits = IF signed THEN info.bits \ {info.index} ELSE info.bits \cup {info.index}
  BY DEF Signed
<1>4. new.bits \in SUBSET Index
  BY <1>1, <1>3
<1>5. /\ new.missed \in Int
      /\ new.missed - info.missed = Cardinality(new.bits) - Cardinality(info.bits)
  <2>1. CASE signed
    <3>1. Cardinality(info.bits \ {info.index})
            = IF info.index \in info.bits THEN Cardinality(info.bits) - 1
                                          ELSE Cardinality(info.bits)
      BY <1>1, FS_RemoveElement
    <3> QED BY <1>1, <2>1, <3>1, <1>3 DEF Signed
  <2>2. CASE ~ signed
    <3>1. Cardinality(info.bits \cup {info.index})
            = IF info.index \in info.bits THEN Cardinality(info.bits)
                                          ELSE Cardinality(info.bits) + 1
      BY <1>1, FS_AddElement
    <3> QED BY <1>1, <2>2, <3>1, <1>3 DEF Signed
  <2> QED BY <2>1, <2>2
<1>6. Cardinality(new.bits) \in Nat
  BY <1>4, IndexFinite
<1>7. new = [index |-> new.index, missed |-> new.missed, bits |-> new.bits]
  BY DEF Signed
<1> HIDE DEF new
<1>8. Counted(new, exact)
  BY <1>1, <1>5, <1>6 DEF Counted
<1>9. new.missed \in Nat
  BY <1>5, <1>6, <1>8 DEF Counted
<1>10. new \in SigningInfo
  BY <1>2, <1>4, <1>7, <1>9 DEF SigningInfo
<1> QED BY <1>8, <1>10 DEF new

LEMMA FreshCounts ==
  Fresh \in SigningInfo /\ \A exact \in BOOLEAN : Counted(Fresh, exact)
BY FS_EmptySet, ParamAssumption DEF Fresh, SigningInfo, Index, Counted

(* A validator alone with its bits keeps them when another starts a new window;
   of others only bits go. *)
LEMMA ClearCounts ==
  ASSUME NEW info \in SigningInfo, NEW exact \in BOOLEAN, Counted(info, exact),
         NEW cleared, exact => cleared = {}
  PROVE  /\ [info EXCEPT !.bits = @ \ cleared] \in SigningInfo
         /\ Counted([info EXCEPT !.bits = @ \ cleared], exact)
<1> DEFINE new  == [info EXCEPT !.bits = @ \ cleared]
           left == info.bits \ cleared
<1>1. /\ info.missed \in Nat /\ info.bits \in SUBSET Index
      /\ new.index = info.index /\ new.missed = info.missed /\ new.bits = left
      /\ new \in SigningInfo
  BY DEF SigningInfo
<1>2. IsFiniteSet(info.bits) /\ left \subseteq info.bits
  BY <1>1, IndexFinite
<1> HIDE DEF new, left
<1>3. Cardinality(left) <= Cardinality(info.bits) /\ Cardinality(left) \in Nat
  BY <1>2, FS_Subset, FS_CardinalityType
<1>4. Cardinality(info.bits) \in Nat
  BY <1>2, FS_CardinalityType
<1>5. exact => left = info.bits
  BY DEF left
<1>6. Counted(new, exact)
  BY <1>1, <1>3, <1>4, <1>5 DEF Counted
<1> QED BY <1>1, <1>6 DEF new

(* Who is alone with its bits is a matter of the IDs. *)
LEMMA AloneIsConstant ==
  ASSUME NEW v
  PROVE  Alone(v) \in BOOLEAN /\ (Alone(v))' = Alone(v)
BY DEF Alone, ClearedBits, BitKey

-----------------------------------------------------------------------------
LEMMA InitInv == Init => Inv
<1> SUFFICES ASSUME Init PROVE Inv
  OBVIOUS
<1> USE ParamAssumption DEF Init
<1>1. Empty \in Infos
  BY DEF Empty, Infos
<1>2. TypeOK
  BY <1>1, FreshCounts DEF TypeOK
<1>3. MissedIsCounted
  BY FreshCounts, AloneIsConstant DEF MissedIsCounted, Counted
<1>4. TotalInv /\ PipeInv /\ ConfirmedInv /\ StakeChainInv
  BY DEF TotalInv, PipeInv, ConfirmedInv, StakeChainInv
<1> QED BY <1>2, <1>3, <1>4 DEF Inv

-----------------------------------------------------------------------------
(* Infractions.                                                              *)

LEMMA SlashInterimKeeps ==
  ASSUME Inv, NEW v \in ValidatorID, NEW f \in 0 .. 100, SlashInterim(v, f)
  PROVE  buffer' \in Infos /\ total' \in Nat /\ buffer' # Empty
<1> DEFINE slashed == Percent(f, power[v])
           amount  == Amount(buffer, v) + slashed
           jail    == amount >= Percent(JailFractionLimit, power[v])
           info    == [amount |-> amount, jailed |-> jail]
<1>1. buffer \in Infos /\ total \in Nat /\ power[v] \in Nat
  BY DEF Inv, TypeOK
<1>2. slashed \in Nat
  BY <1>1, PercentType
<1>3. Amount(buffer, v) \in Nat
  BY <1>1, AmountType
<1>4. amount \in Nat
  BY <1>2, <1>3
<1>5. info \in Info
  BY <1>4 DEF Info
<1>6. buffer' = [buffer EXCEPT ![v] = info] /\ total' = total + slashed
  BY DEF SlashInterim
<1> HIDE DEF slashed, amount, jail
<1>7. buffer' \in Infos
  BY <1>1, <1>5, <1>6 DEF Infos
<1>8. buffer'[v] = info
  BY <1>1, <1>6 DEF Infos
<1>9. buffer' # Empty
  BY <1>5, <1>8, NoneAssumption DEF Empty
<1> QED BY <1>1, <1>2, <1>6, <1>7, <1>9


LEMMA HandleDoubleSignKeepsInv ==
  ASSUME Inv, NEW v \in evidence, HandleDoubleSign(v)
  PROVE  Inv'
<1>1. /\ evidence' = evidence \ {v}
      /\ UNCHANGED <<height, votes, signing, power, jailed, tickVars, sequences, pipe, l1Vars>>
  BY DEF HandleDoubleSign
<1>2. v \in ValidatorID /\ SlashFractionDoubleSign \in 0 .. 100
  BY ParamAssumption DEF Inv, TypeOK
<1>3. buffer' \in Infos /\ total' \in Nat /\ (total' > 0 => buffer' # Empty)
  <2>1. CASE Slashable(v)
    <3>1. SlashInterim(v, SlashFractionDoubleSign)
      BY <2>1 DEF HandleDoubleSign
    <3> QED BY <1>2, <3>1, SlashInterimKeeps
  <2>2. CASE ~ Slashable(v)
    BY <2>2 DEF HandleDoubleSign, Inv, TypeOK, TotalInv
  <2> QED BY <2>1, <2>2
<1>4. TypeOK'
  BY <1>1, <1>3 DEF Inv, TypeOK, tickVars, l1Vars
<1>5. PipeInv' /\ ConfirmedInv' /\ StakeChainInv' /\ MissedIsCounted'
  BY <1>1 DEF Inv, PipeInv, TickInPipe, AckInPipe, ConfirmedInv, StakeChainInv,
              MissedIsCounted, tickVars, l1Vars
<1> QED BY <1>3, <1>4, <1>5 DEF Inv, TotalInv

LEMMA HandleValidatorSignatureKeepsInv ==
  ASSUME Inv, NEW v \in votes, NEW signed \in BOOLEAN,
         HandleValidatorSignature(v, signed)
  PROVE  Inv'
<1> DEFINE new == Signed(signing[v], signed)
<1>1. /\ votes' = votes \ {v}
      /\ UNCHANGED <<height, evidence, power, jailed, tickVars, sequences, pipe, l1Vars>>
  BY DEF HandleValidatorSignature
<1>2. v \in ValidatorID /\ SlashFractionDowntime \in 0 .. 100
  BY ParamAssumption DEF Inv, TypeOK
<1>3. ASSUME NEW w \in ValidatorID
      PROVE  signing[w] \in SigningInfo /\ Counted(signing[w], Alone(w))
  BY DEF Inv, TypeOK, MissedIsCounted, Counted
<1>4. new \in SigningInfo /\ Counted(new, Alone(v))
  BY <1>2, <1>3, AloneIsConstant, SignedCounts
<1> HIDE DEF new
<1>5. /\ buffer' \in Infos /\ total' \in Nat /\ (total' > 0 => buffer' # Empty)
      /\ \/ signing' = clearValidatorMissedBlockBitArray(v)
         \/ signing' = [signing EXCEPT ![v] = new]
  <2> DEFINE downtime == /\ height > SignedBlocksWindow
                         /\ new.missed > SignedBlocksWindow - MinSigned
  <2>1. CASE downtime /\ Slashable(v)
    <3>1. /\ SlashInterim(v, SlashFractionDowntime)
          /\ signing' = clearValidatorMissedBlockBitArray(v)
      BY <2>1 DEF HandleValidatorSignature, new
    <3> QED BY <1>2, <3>1, SlashInterimKeeps
  <2>2. CASE ~ (downtime /\ Slashable(v))
    <3>1. UNCHANGED <<buffer, total>> /\ signing' = [signing EXCEPT ![v] = new]
      BY <2>2 DEF HandleValidatorSignature, new
    <3> QED BY <3>1 DEF Inv, TypeOK, TotalInv
  <2> QED BY <2>1, <2>2
<1>6. /\ signing' \in [ValidatorID -> SigningInfo]
      /\ \A w \in ValidatorID : Counted(signing'[w], Alone(w))
  <2>1. CASE signing' = [signing EXCEPT ![v] = new]
    BY <1>2, <1>3, <1>4, <2>1 DEF Inv, TypeOK
  <2>2. CASE signing' = clearValidatorMissedBlockBitArray(v)
    <3>1. ASSUME NEW w \in ValidatorID \ {v}
          PROVE  /\ [signing[w] EXCEPT !.bits = @ \ ClearedBits(v)[w]] \in SigningInfo
                 /\ Counted([signing[w] EXCEPT !.bits = @ \ ClearedBits(v)[w]], Alone(w))
      <4>1. Alone(w) => ClearedBits(v)[w] = {}
        BY <1>2 DEF Alone
      <4>2. signing[w] \in SigningInfo /\ Counted(signing[w], Alone(w))
        BY <1>3
      <4> QED BY <4>1, <4>2, AloneIsConstant, ClearCounts
    <3>2. Fresh \in SigningInfo /\ Counted(Fresh, Alone(v))
      BY FreshCounts, AloneIsConstant
    <3> QED BY <2>2, <3>1, <3>2 DEF clearValidatorMissedBlockBitArray
  <2> QED BY <1>5, <2>1, <2>2
<1>7. MissedIsCounted'
  BY <1>6, AloneIsConstant DEF MissedIsCounted, Counted
<1>8. TypeOK'
  BY <1>1, <1>5, <1>6 DEF Inv, TypeOK, tickVars, l1Vars
<1>9. PipeInv' /\ ConfirmedInv' /\ StakeChainInv'
  BY <1>1 DEF Inv, PipeInv, TickInPipe, AckInPipe, ConfirmedInv, StakeChainInv,
              tickVars, l1Vars
<1> QED BY <1>5, <1>7, <1>8, <1>9 DEF Inv, TotalInv

-----------------------------------------------------------------------------
(* Delivery.                                                                 *)

LEMMA DeliverKeepsInv ==
  ASSUME Inv, NEW m \in Msg, Deliver(m), TickInPipe(m), AckInPipe(m)
  PROVE  Inv'
<1>1. /\ pipe' = [pipe EXCEPT ![0] = @ \cup {m}]
      /\ UNCHANGED <<blockVars, power, jailed, buffer, total, tickVars, sequences, l1Vars>>
  BY DEF Deliver
<1>2. DOMAIN pipe' = 0 .. 2 /\ \A k \in 0 .. 2 : \A n \in pipe'[k] : n = m \/ n \in pipe[k]
  BY <1>1 DEF Inv, TypeOK
<1>3. TypeOK'
  BY <1>1, <1>2 DEF Inv, TypeOK, blockVars, tickVars, l1Vars
<1>4. PipeInv'
  BY <1>1, <1>2 DEF Inv, PipeInv, TickInPipe, AckInPipe, tickVars, l1Vars
<1>5. MissedIsCounted' /\ TotalInv' /\ ConfirmedInv' /\ StakeChainInv'
  BY <1>1 DEF Inv, MissedIsCounted, TotalInv, ConfirmedInv, StakeChainInv,
              blockVars, tickVars, l1Vars
<1> QED BY <1>3, <1>4, <1>5 DEF Inv

LEMMA HandlerMsgTickKeepsInv ==
  ASSUME Inv, NEW m \in Ticks, HandlerMsgTick(m)
  PROVE  Inv'
<1>1. tickCount < MaxTicks /\ m = [type |-> "tick", id |-> tickCount + 1, infos |-> buffer]
  BY DEF Ticks
<1>2. tickCount \in 0 .. MaxTicks /\ buffer \in Infos /\ MaxTicks \in Nat
  BY ParamAssumption DEF Inv, TypeOK
<1>3. m \in Msg
  BY <1>1, <1>2 DEF Msg, TickMsg
<1>4. buffer # Empty
  BY DEF Inv, TotalInv, HandlerMsgTick
<1>5. TickInPipe(m) /\ AckInPipe(m)
  BY <1>1, <1>2, <1>4 DEF TickInPipe, AckInPipe, HandlerMsgTick
<1>6. Deliver(m)
  BY DEF HandlerMsgTick
<1> QED BY <1>3, <1>5, <1>6, DeliverKeepsInv

LEMMA HandleMsgTickAckKeepsInv ==
  ASSUME Inv, NEW m \in TickAcks, HandleMsgTickAck(m)
  PROVE  Inv'
<1>1. m.type = "tickAck" /\ m.id \in DOMAIN l1Ticks /\ m.id = tickCount
  BY DEF TickAcks, HandleMsgTickAck
<1>2. m \in Msg
  <2>1. l1Ticks \in Seq(Infos) /\ tickCount \in 0 .. MaxTicks /\ MaxTicks \in Nat
    BY ParamAssumption DEF Inv, TypeOK
  <2>2. m.id \in 1 .. MaxTicks
    BY <1>1, <2>1
  <2> QED BY <2>2 DEF TickAcks, Msg, TickAckMsg
<1>3. TickInPipe(m) /\ AckInPipe(m)
  BY <1>1 DEF TickInPipe, AckInPipe
<1>4. Deliver(m)
  BY DEF HandleMsgTickAck
<1> QED BY <1>2, <1>3, <1>4, DeliverKeepsInv

LEMMA HandleMsgUnjailKeepsInv ==
  ASSUME Inv, NEW m \in Unjails, HandleMsgUnjail(m)
  PROVE  Inv'
<1>1. PICK v \in ValidatorID : m \in [type: {"unjail"}, id: {v}, event: 1 .. l1Unjails[v]]
  BY DEF Unjails
<1>2. l1Unjails[v] \in 0 .. MaxUnjails /\ MaxUnjails \in Nat
  BY ParamAssumption DEF Inv, TypeOK
<1>3. m \in UnjailMsg
  BY <1>1, <1>2 DEF UnjailMsg
<1>4. TickInPipe(m) /\ AckInPipe(m)
  BY <1>1 DEF TickInPipe, AckInPipe
<1>5. Deliver(m)
  BY DEF HandleMsgUnjail
<1> QED BY <1>3, <1>4, <1>5, DeliverKeepsInv DEF Msg

-----------------------------------------------------------------------------
(* Post handlers.                                                            *)

LEMMA ExecutedLeaves ==
  ASSUME Inv, NEW m \in pipe[2], Executed(m)
  PROVE  /\ UNCHANGED <<blockVars, l1Vars>>
         /\ DOMAIN pipe' = 0 .. 2 /\ \A k \in 0 .. 2 : pipe'[k] \subseteq pipe[k]
         /\ m \in Msg /\ TickInPipe(m) /\ AckInPipe(m)
BY DEF Inv, TypeOK, PipeInv, Executed

LEMMA PostHandleMsgTickKeepsInv ==
  ASSUME Inv, NEW m \in pipe[2], PostHandleMsgTick(m)
  PROVE  Inv' /\ tick = Empty /\ tick' # Empty
<1> USE ExecutedLeaves
<1>1. /\ m.type = "tick" /\ m.id = tickCount + 1 /\ m.infos = buffer
      /\ buffer' = Empty /\ total' = 0 /\ tickCount' = tickCount + 1
      /\ confirmed' = confirmed \cup {m}
      /\ UNCHANGED <<power, jailed, sequences, blockVars, l1Vars>>
  BY DEF PostHandleMsgTick
<1>2. /\ DOMAIN pipe' = 0 .. 2 /\ \A k \in 0 .. 2 : pipe'[k] \subseteq pipe[k]
      /\ m \in Msg /\ TickInPipe(m)
  BY DEF PostHandleMsgTick
<1>3. tick = Empty /\ m.infos # Empty /\ m \in TickMsg
  BY <1>1, <1>2 DEF TickInPipe, Msg, TickMsg, TickAckMsg, UnjailMsg
<1>4. buffer \in Infos /\ tickCount \in 0 .. MaxTicks /\ MaxTicks \in Nat
  BY ParamAssumption DEF Inv, TypeOK
<1>5. tick' = buffer
  <2>1. tick' = [v \in ValidatorID |-> IF buffer[v] # None THEN buffer[v] ELSE tick[v]]
    BY DEF PostHandleMsgTick
  <2>2. \A v \in ValidatorID : tick[v] = None
    BY <1>3 DEF Empty
  <2>3. tick' = [v \in ValidatorID |-> buffer[v]]
    BY <2>1, <2>2
  <2> QED BY <1>4, <2>3 DEF Infos
<1>6. TypeOK'
  <2>1. m.id \in 1 .. MaxTicks
    BY <1>3 DEF TickMsg
  <2>2. tickCount' \in 0 .. MaxTicks
    BY <1>1, <1>4, <2>1
  <2>3. Empty \in Infos
    BY DEF Empty, Infos
  <2>4. \A k \in 0 .. 2 : \A n \in pipe'[k] : n \in Msg
    BY <1>2 DEF Inv, TypeOK
  <2>5. \A n \in confirmed' : n \in TickMsg
    BY <1>1, <1>3 DEF Inv, TypeOK
  <2> QED BY <1>1, <1>2, <1>4, <1>5, <2>2, <2>3, <2>4, <2>5 DEF Inv, TypeOK, blockVars, l1Vars
<1>7. PipeInv'
  <2> SUFFICES ASSUME NEW k \in 0 .. 2, NEW n \in pipe'[k]
               PROVE  TickInPipe(n)' /\ AckInPipe(n)'
    BY DEF PipeInv
  <2>1. TickInPipe(n) /\ AckInPipe(n) /\ n \in Msg
    BY <1>2 DEF Inv, PipeInv, TypeOK
  <2>2. n.type = "tick" => n.id \in Nat
    BY <2>1 DEF Msg, TickMsg, TickAckMsg, UnjailMsg
  <2> QED BY <1>1, <1>4, <2>1, <2>2 DEF TickInPipe, AckInPipe, l1Vars
<1>8. ConfirmedInv'
  <2>1. \A n \in confirmed : n.id <= tickCount /\ n.id \in Nat
    BY DEF Inv, ConfirmedInv, TypeOK, TickMsg
  <2>2. \A n \in confirmed' : n.id <= tickCount'
    BY <1>1, <1>4, <2>1
  <2>3. \A n, o \in confirmed' : n.id = o.id => n = o
    BY <1>1, <1>4, <2>1 DEF Inv, ConfirmedInv
  <2>4. m \in confirmed' /\ m.id = tickCount' /\ m.infos = tick'
    BY <1>1, <1>5
  <2> QED BY <2>2, <2>3, <2>4 DEF ConfirmedInv
<1>9. MissedIsCounted' /\ TotalInv' /\ StakeChainInv'
  BY <1>1 DEF Inv, MissedIsCounted, TotalInv, StakeChainInv, blockVars, l1Vars
<1> QED BY <1>1, <1>3, <1>5, <1>6, <1>7, <1>8, <1>9 DEF Inv

(* The acknowledgement that is executed is of the tick in the tick data. *)
LEMMA AcknowledgedIsTick ==
  ASSUME Inv, NEW m \in Msg, AckInPipe(m), m.type = "tickAck", m.id = tickCount,
         tick # Empty
  PROVE  Len(l1Ticks) = tickCount /\ l1Ticks[tickCount] = tick
<1>1. tickCount \in DOMAIN l1Ticks /\ l1Ticks \in Seq(Infos) /\ tickCount \in Nat
  BY ParamAssumption DEF AckInPipe, Inv, TypeOK
<1>2. Len(l1Ticks) \in DOMAIN l1Ticks /\ tickCount <= Len(l1Ticks)
  BY <1>1
<1>3. Len(l1Ticks) <= tickCount
  <2>1. PICK n \in confirmed : n.id = Len(l1Ticks)
    BY <1>2 DEF Inv, StakeChainInv
  <2> QED BY <2>1 DEF Inv, ConfirmedInv
<1>4. l1Ticks[tickCount] = tick
  <2>1. PICK n \in confirmed : n.id = tickCount /\ n.infos = l1Ticks[tickCount]
    BY <1>1 DEF Inv, StakeChainInv
  <2>2. PICK o \in confirmed : o.id = tickCount /\ o.infos = tick
    BY DEF Inv, ConfirmedInv
  <2> QED BY <2>1, <2>2 DEF Inv, ConfirmedInv
<1> QED BY <1>1, <1>2, <1>3, <1>4

LEMMA PostHandleMsgTickAckKeepsInv ==
  ASSUME Inv, NEW m \in pipe[2], PostHandleMsgTickAck(m)
  PROVE  Inv' /\ Len(l1Ticks) = tickCount /\ l1Ticks[tickCount] = tick /\ tick' = Empty
<1>1. /\ m.type = "tickAck" /\ m.id = tickCount /\ tick # Empty /\ tick' = Empty
      /\ sequences' = sequences \cup {m}
      /\ UNCHANGED <<buffer, total, tickCount, confirmed>>
  BY DEF PostHandleMsgTickAck
<1>2. /\ DOMAIN pipe' = 0 .. 2 /\ \A k \in 0 .. 2 : pipe'[k] \subseteq pipe[k]
      /\ m \in Msg /\ AckInPipe(m) /\ UNCHANGED <<blockVars, l1Vars>>
  BY ExecutedLeaves DEF PostHandleMsgTickAck
<1>3. m \in TickAckMsg
  BY <1>1, <1>2 DEF Msg, TickMsg, TickAckMsg, UnjailMsg
<1>4. power' \in [ValidatorID -> Nat]
  <2>1. power \in [ValidatorID -> Nat] /\ tick \in Infos
    BY DEF Inv, TypeOK
  <2>2. \A v \in ValidatorID : Amount(tick, v) \in Nat
    BY <2>1, AmountType
  <2>3. \A p, a \in Nat : Slashed(p, a) \in Nat
    BY DEF Slashed
  <2>4. power' = [v \in ValidatorID |-> Slashed(power[v], Amount(tick, v))]
    BY DEF PostHandleMsgTickAck
  <2> QED BY <2>1, <2>2, <2>3, <2>4
<1>5. jailed' \in [ValidatorID -> BOOLEAN]
  <2>1. \A v \in ValidatorID : tick[v] # None => tick[v].jailed \in BOOLEAN
    BY DEF Inv, TypeOK, Infos, Info
  <2>2. \A v \in ValidatorID : jailed[v] \in BOOLEAN
    BY DEF Inv, TypeOK
  <2>3. jailed' = [v \in ValidatorID |-> IF tick[v] = None THEN jailed[v] ELSE tick[v].jailed]
    BY DEF PostHandleMsgTickAck
  <2> QED BY <2>1, <2>2, <2>3, Zenon
<1>6. TypeOK'
  <2>1. Empty \in Infos
    BY DEF Empty, Infos
  <2>2. \A k \in 0 .. 2 : \A n \in pipe'[k] : n \in Msg
    BY <1>2 DEF Inv, TypeOK
  <2>3. \A s \in sequences' : s \in TickAckMsg \cup UnjailMsg
    BY <1>1, <1>3 DEF Inv, TypeOK
  <2> QED BY <1>1, <1>2, <1>4, <1>5, <2>1, <2>2, <2>3 DEF Inv, TypeOK, blockVars, l1Vars
<1>7. PipeInv'
  BY <1>1, <1>2 DEF Inv, PipeInv, TickInPipe, AckInPipe, l1Vars
<1>8. MissedIsCounted' /\ TotalInv' /\ StakeChainInv' /\ ConfirmedInv'
  BY <1>1, <1>2 DEF Inv, MissedIsCounted, TotalInv, StakeChainInv, ConfirmedInv,
                    blockVars, l1Vars
<1>9. Len(l1Ticks) = tickCount /\ l1Ticks[tickCount] = tick
  BY <1>1, <1>2, AcknowledgedIsTick
<1> QED BY <1>1, <1>6, <1>7, <1>8, <1>9 DEF Inv

LEMMA PostHandleMsgUnjailKeepsInv ==
  ASSUME Inv, NEW m \in pipe[2], PostHandleMsgUnjail(m)
  PROVE  Inv'
<1>1. /\ m.type = "unjail" /\ sequences' = sequences \cup {m}
      /\ jailed' = [jailed EXCEPT ![m.id] = FALSE]
      /\ UNCHANGED <<power, buffer, total, tickVars>>
  BY DEF PostHandleMsgUnjail
<1>2. /\ DOMAIN pipe' = 0 .. 2 /\ \A k \in 0 .. 2 : pipe'[k] \subseteq pipe[k]
      /\ m \in Msg /\ UNCHANGED <<blockVars, l1Vars>>
  BY ExecutedLeaves DEF PostHandleMsgUnjail
<1>3. m \in UnjailMsg
  BY <1>1, <1>2 DEF Msg, TickMsg, TickAckMsg, UnjailMsg
<1>4. TypeOK'
  <2>1. \A k \in 0 .. 2 : \A n \in pipe'[k] : n \in Msg
    BY <1>2 DEF Inv, TypeOK
  <2>2. \A s \in sequences' : s \in TickAckMsg \cup UnjailMsg
    BY <1>1, <1>3 DEF Inv, TypeOK
  <2>3. jailed' \in [ValidatorID -> BOOLEAN]
    BY <1>1 DEF Inv, TypeOK
  <2> QED BY <1>1, <1>2, <2>1, <2>2, <2>3 DEF Inv, TypeOK, blockVars, tickVars, l1Vars
<1>5. PipeInv' /\ MissedIsCounted' /\ TotalInv' /\ StakeChainInv' /\ ConfirmedInv'
  BY <1>1, <1>2 DEF Inv, PipeInv, TickInPipe, AckInPipe, MissedIsCounted, TotalInv,
                    StakeChainInv, ConfirmedInv, blockVars, tickVars, l1Vars
<1> QED BY <1>4, <1>5 DEF Inv

LEMMA SideTxDroppedKeepsInv ==
  ASSUME Inv, NEW m \in pipe[2], SideTxDropped(m)
  PROVE  Inv'
<1>1. UNCHANGED <<power, jailed, buffer, total, tickVars, sequences>>
  BY DEF SideTxDropped
<1>2. /\ DOMAIN pipe' = 0 .. 2 /\ \A k \in 0 .. 2 : pipe'[k] \subseteq pipe[k]
      /\ UNCHANGED <<blockVars, l1Vars>>
  BY ExecutedLeaves DEF SideTxDropped
<1>3. \A k \in 0 .. 2 : \A n \in pipe'[k] : n \in Msg
  BY <1>2 DEF Inv, TypeOK
<1>4. TypeOK'
  BY <1>1, <1>2, <1>3 DEF Inv, TypeOK, blockVars, tickVars, l1Vars
<1>5. PipeInv' /\ MissedIsCounted' /\ TotalInv' /\ StakeChainInv' /\ ConfirmedInv'
  BY <1>1, <1>2 DEF Inv, PipeInv, TickInPipe, AckInPipe, MissedIsCounted, TotalInv,
                    StakeChainInv, ConfirmedInv, blockVars, tickVars, l1Vars
<1> QED BY <1>4, <1>5 DEF Inv

-----------------------------------------------------------------------------
(* The environment.                                                          *)

LEMMA NextBlockKeepsInv ==
  ASSUME Inv, NEW byzantine \in SUBSET DoubleSigners, NEW voters \in VoterSets,
         NextBlock(byzantine, voters)
  PROVE  Inv'
<1>1. /\ height' = IF height <= SignedBlocksWindow THEN height + 1 ELSE height
      /\ evidence' = byzantine /\ votes' = voters
      /\ pipe' = [k \in 0 .. 2 |-> IF k = 0 THEN {} ELSE pipe[k - 1]]
      /\ UNCHANGED <<signing, power, jailed, buffer, total, tickVars, sequences, l1Vars>>
  BY DEF NextBlock
<1>2. /\ height' \in 0 .. SignedBlocksWindow + 1
      /\ evidence' \subseteq ValidatorID /\ votes' \subseteq ValidatorID
  BY <1>1, ParamAssumption DEF Inv, TypeOK
<1>3. \A k \in 0 .. 2 : pipe'[k] # {} => k - 1 \in 0 .. 2 /\ pipe'[k] = pipe[k - 1]
  BY <1>1
<1>4. TypeOK'
  <2>1. DOMAIN pipe' = 0 .. 2 /\ \A k \in 0 .. 2 : \A m \in pipe'[k] : m \in Msg
    BY <1>1, <1>3 DEF Inv, TypeOK
  <2> QED BY <1>1, <1>2, <2>1 DEF Inv, TypeOK, tickVars, l1Vars
<1>5. PipeInv'
  BY <1>1, <1>3 DEF Inv, PipeInv, TickInPipe, AckInPipe, tickVars, l1Vars
<1>6. MissedIsCounted' /\ TotalInv' /\ StakeChainInv' /\ ConfirmedInv'
  BY <1>1 DEF Inv, MissedIsCounted, TotalInv, StakeChainInv, ConfirmedInv, tickVars, l1Vars
<1> QED BY <1>4, <1>5, <1>6 DEF Inv

LEMMA SubmitTickKeepsInv ==
  ASSUME Inv, NEW m \in confirmed, SubmitTick(m)
  PROVE  Inv'
<1>1. /\ m.id = Len(l1Ticks) + 1 /\ l1Ticks' = Append(l1Ticks, m.infos)
      /\ UNCHANGED <<blockVars, power, jailed, buffer, total, tickVars, sequences, pipe,
                     l1Unjails>>
  BY DEF SubmitTick
<1>2. l1Ticks \in Seq(Infos) /\ m.infos \in Infos
  BY DEF Inv, TypeOK, TickMsg
<1>3. /\ l1Ticks' \in Seq(Infos)
      /\ DOMAIN l1Ticks' = DOMAIN l1Ticks \cup {m.id}
      /\ l1Ticks'[m.id] = m.infos
      /\ \A n \in DOMAIN l1Ticks : l1Ticks'[n] = l1Ticks[n]
  BY <1>1, <1>2
<1>4. TypeOK'
  BY <1>1, <1>3 DEF Inv, TypeOK, blockVars, tickVars
<1>5. StakeChainInv'
  BY <1>1, <1>3 DEF Inv, StakeChainInv, tickVars
<1>6. PipeInv' /\ MissedIsCounted' /\ TotalInv' /\ ConfirmedInv'
  BY <1>1, <1>3 DEF Inv, PipeInv, TickInPipe, AckInPipe, MissedIsCounted, TotalInv,
                    ConfirmedInv, blockVars, tickVars
<1> QED BY <1>4, <1>5, <1>6 DEF Inv

LEMMA UnjailKeepsInv ==
  ASSUME Inv, NEW v \in ValidatorID, Unjail(v)
  PROVE  Inv'
<1>1. /\ l1Unjails[v] < MaxUnjails /\ l1Unjails' = [l1Unjails EXCEPT ![v] = @ + 1]
      /\ UNCHANGED <<blockVars, power, jailed, buffer, total, tickVars, sequences, pipe,
                     l1Ticks>>
  BY DEF Unjail
<1>2. l1Unjails' \in [ValidatorID -> 0 .. MaxUnjails]
  BY <1>1, ParamAssumption DEF Inv, TypeOK
<1>3. TypeOK'
  BY <1>1, <1>2 DEF Inv, TypeOK, blockVars, tickVars
<1>4. PipeInv' /\ MissedIsCounted' /\ TotalInv' /\ StakeChainInv' /\ ConfirmedInv'
  BY <1>1 DEF Inv, PipeInv, TickInPipe, AckInPipe, MissedIsCounted, TotalInv,
              StakeChainInv, ConfirmedInv, blockVars, tickVars
<1> QED BY <1>3, <1>4 DEF Inv

-----------------------------------------------------------------------------
(* What one step does to the tick data. *)
KeepsTick ==
  tick # Empty /\ tick' # tick =>
    tick' = Empty /\ Len(l1Ticks) = tickCount /\ l1Ticks[tickCount] = tick

LEMMA NextKeepsInv ==
  ASSUME Inv, [Next]_vars
  PROVE  Inv' /\ KeepsTick
<1>1. CASE \E v \in evidence : HandleDoubleSign(v)
  BY <1>1, HandleDoubleSignKeepsInv DEF HandleDoubleSign, tickVars, KeepsTick
<1>2. CASE \E v \in votes, signed \in BOOLEAN : HandleValidatorSignature(v, signed)
  BY <1>2, HandleValidatorSignatureKeepsInv DEF HandleValidatorSignature, tickVars, KeepsTick
<1>3. CASE \E m \in Ticks : HandlerMsgTick(m)
  BY <1>3, HandlerMsgTickKeepsInv DEF HandlerMsgTick, Deliver, tickVars, KeepsTick
<1>4. CASE \E m \in TickAcks : HandleMsgTickAck(m)
  BY <1>4, HandleMsgTickAckKeepsInv DEF HandleMsgTickAck, Deliver, tickVars, KeepsTick
<1>5. CASE \E m \in Unjails : HandleMsgUnjail(m)
  BY <1>5, HandleMsgUnjailKeepsInv DEF HandleMsgUnjail, Deliver, tickVars, KeepsTick
<1>6. CASE \E m \in pipe[2] : PostHandleMsgTick(m)
  BY <1>6, PostHandleMsgTickKeepsInv DEF KeepsTick
<1>7. CASE \E m \in pipe[2] : PostHandleMsgTickAck(m)
  BY <1>7, PostHandleMsgTickAckKeepsInv DEF KeepsTick
<1>8. CASE \E m \in pipe[2] : PostHandleMsgUnjail(m)
  BY <1>8, PostHandleMsgUnjailKeepsInv DEF PostHandleMsgUnjail, tickVars, KeepsTick
<1>9. CASE \E m \in pipe[2] : SideTxDropped(m)
  BY <1>9, SideTxDroppedKeepsInv DEF SideTxDropped, tickVars, KeepsTick
<1>10. CASE \E byzantine \in SUBSET DoubleSigners, voters \in VoterSets :
               NextBlock(byzantine, voters)
  BY <1>10, NextBlockKeepsInv DEF NextBlock, tickVars, KeepsTick
<1>11. CASE \E m \in confirmed : SubmitTick(m)
  BY <1>11, SubmitTickKeepsInv DEF SubmitTick, tickVars, KeepsTick
<1>12. CASE \E v \in ValidatorID : Unjail(v)
  BY <1>12, UnjailKeepsInv DEF Unjail, tickVars, KeepsTick
<1>13. CASE UNCHANGED vars
  BY <1>13 DEF Inv, TypeOK, MissedIsCounted, TotalInv, PipeInv, TickInPipe, AckInPipe,
               ConfirmedInv, StakeChainInv, KeepsTick, vars, blockVars, tickVars, l1Vars
<1> QED BY <1>1, <1>2, <1>3, <1>4, <1>5, <1>6, <1>7, <1>8, <1>9, <1>10, <1>11, <1>12,
          <1>13 DEF Next

THEOREM InvHolds == Spec => []Inv
BY InitInv, NextKeepsInv, PTL DEF Spec

(* Powers stay natural numbers, although the amount of an info was computed from
   a power that earlier ticks lower before it is subtracted (Keeper.Slash), and
   so does the counter of missed blocks, although bits can go without it. *)
THEOREM SlashingTypeCorrect == Spec => []TypeOK
<1>1. Inv => TypeOK
  BY DEF Inv
<1> QED BY <1>1, InvHolds, PTL

(* The counter of missed blocks covers the bits that are set, whosever window
   starts anew, and is their number for a validator whose bits no other ID's
   prefix reaches (Keeper.clearValidatorMissedBlockBitArray). *)
THEOREM MissedCounted == Spec => []MissedIsCounted
<1>1. Inv => MissedIsCounted
  BY DEF Inv
<1> QED BY <1>1, InvHolds, PTL

(* The tick data stay what was approved and go with their own acknowledgement,
   whatever other ticks and acknowledgements wait for their votes. *)
THEOREM TickDataKept == Spec => TickKept
<1>1. Inv /\ [Next]_vars =>
        [tick # Empty /\ tick' # tick =>
          /\ tick' = Empty
          /\ Len(l1Ticks) = tickCount /\ l1Ticks[tickCount] = tick]_vars
  BY NextKeepsInv DEF KeepsTick
<1> QED BY <1>1, InvHolds, PTL DEF Spec, TickKept

-----------------------------------------------------------------------------
(* The total of the buffer.                                                  *)

Amounts(infos) == [v \in ValidatorID |-> Amount(infos, v)]

LEMMA TotalOfBuffer ==
  ASSUME NEW infos
  PROVE  SumFunction([v \in ValidatorID |-> Amount(infos, v)])
           = SumFunctionOnSet(Amounts(infos), ValidatorID)
<1>1. DOMAIN Amounts(infos) = ValidatorID
  BY DEF Amounts
<1>2. SumFunction(Amounts(infos)) = SumFunctionOnSet(Amounts(infos), ValidatorID)
  BY <1>1, Zenon DEF SumFunction
<1> QED BY <1>2 DEF Amounts

LEMMA EmptyBufferTotal == SumFunctionOnSet(Amounts(Empty), ValidatorID) = 0
<1>1. \A v \in ValidatorID : Amounts(Empty)[v] = 0
  BY DEF Amounts, Amount, Empty
<1> QED BY <1>1, SumZero, ParamAssumption

(* An infraction adds the same to the total and to the buffer. *)
LEMMA SlashInterimAdds ==
  ASSUME Inv, TotalIsBuffered, NEW v \in ValidatorID, NEW f \in 0 .. 100,
         SlashInterim(v, f)
  PROVE  TotalIsBuffered'
<1> DEFINE slashed == Percent(f, power[v])
<1>1. buffer \in Infos /\ total \in Nat /\ power[v] \in Nat
  BY DEF Inv, TypeOK
<1>2. slashed \in Nat
  BY <1>1, PercentType
<1>3. buffer' \in Infos /\ total' = total + slashed
  BY SlashInterimKeeps DEF SlashInterim
<1>4. \A w \in ValidatorID : Amounts(buffer)[w] \in Int /\ Amounts(buffer')[w] \in Int
  BY <1>1, <1>3, AmountType DEF Amounts
<1>5. \A w \in ValidatorID \ {v} : Amounts(buffer')[w] = Amounts(buffer)[w]
  BY <1>1 DEF SlashInterim, Infos, Amounts, Amount
<1>6. Amounts(buffer')[v] = Amounts(buffer)[v] + slashed
  <2> DEFINE amount == Amount(buffer, v) + slashed
             jail   == amount >= Percent(JailFractionLimit, power[v])
             info   == [amount |-> amount, jailed |-> jail]
  <2>1. buffer'[v] = info
    BY <1>1 DEF SlashInterim, Infos
  <2>2. amount \in Nat /\ jail \in BOOLEAN
    BY <1>1, <1>2, AmountType
  <2>3. info # None /\ info.amount = amount
    <3> HIDE DEF amount, jail
    <3>1. info \in Info
      BY <2>2 DEF Info
    <3> QED BY <3>1, NoneAssumption
  <2> HIDE DEF info
  <2> QED BY <2>1, <2>3 DEF Amounts, Amount
<1> HIDE DEF slashed
<1>7. SumFunctionOnSet(Amounts(buffer'), ValidatorID)
        = SumFunctionOnSet(Amounts(buffer), ValidatorID) + Amounts(buffer')[v] - Amounts(buffer)[v]
  BY <1>4, <1>5, SumChange, ParamAssumption
<1>8. total' = SumFunctionOnSet(Amounts(buffer'), ValidatorID)
  BY <1>1, <1>2, <1>3, <1>4, <1>6, <1>7, TotalOfBuffer DEF TotalIsBuffered
<1> QED BY <1>8, TotalOfBuffer DEF TotalIsBuffered

LEMMA NextKeepsTotal ==
  ASSUME Inv, TotalIsBuffered, [Next]_vars
  PROVE  TotalIsBuffered'
<1>1. CASE \E v \in ValidatorID, f \in 0 .. 100 : SlashInterim(v, f)
  BY <1>1, SlashInterimAdds
<1>2. CASE buffer' = Empty /\ total' = 0
  <2>1. SumFunctionOnSet(Amounts(buffer'), ValidatorID) = 0
    BY <1>2, EmptyBufferTotal
  <2> QED BY <1>2, <2>1, TotalOfBuffer DEF TotalIsBuffered
<1>3. CASE UNCHANGED <<buffer, total>>
  BY <1>3 DEF TotalIsBuffered, Amount
<1>4. evidence \subseteq ValidatorID /\ votes \subseteq ValidatorID
  BY DEF Inv, TypeOK
<1>5. SlashFractionDoubleSign \in 0 .. 100 /\ SlashFractionDowntime \in 0 .. 100
  BY ParamAssumption
<1>6. CASE \E v \in evidence : HandleDoubleSign(v)
  BY <1>1, <1>3, <1>4, <1>5, <1>6 DEF HandleDoubleSign
<1>7. CASE \E v \in votes, signed \in BOOLEAN : HandleValidatorSignature(v, signed)
  <2>1. PICK v \in votes, signed \in BOOLEAN : HandleValidatorSignature(v, signed)
    BY <1>7
  <2>2. SlashInterim(v, SlashFractionDowntime) \/ UNCHANGED <<buffer, total>>
    BY <2>1, Zenon DEF HandleValidatorSignature
  <2> QED BY <1>1, <1>3, <1>4, <1>5, <2>2
<1>8. CASE \E m \in pipe[2] : PostHandleMsgTick(m)
  BY <1>2, <1>8 DEF PostHandleMsgTick
<1>9. CASE \E m \in pipe[2] : \/ PostHandleMsgTickAck(m) \/ PostHandleMsgUnjail(m)
                              \/ SideTxDropped(m)
  BY <1>3, <1>9 DEF PostHandleMsgTickAck, PostHandleMsgUnjail, SideTxDropped
<1>10. CASE \E m : Deliver(m)
  BY <1>3, <1>10 DEF Deliver
<1>11. CASE \/ \E byzantine \in SUBSET DoubleSigners, voters \in VoterSets :
                 NextBlock(byzantine, voters)
            \/ \E m \in confirmed : SubmitTick(m)
            \/ \E v \in ValidatorID : Unjail(v)
  BY <1>3, <1>11 DEF NextBlock, SubmitTick, Unjail
<1>12. CASE UNCHANGED vars
  BY <1>3, <1>12 DEF vars
<1> QED BY <1>6, <1>7, <1>8, <1>9, <1>10, <1>11, <1>12
        DEF Next, HandlerMsgTick, HandleMsgTickAck, HandleMsgUnjail

-----------------------------------------------------------------------------
(* The power after the ticks of the stake chain.  First that the recursion   *)
(* in PowerAfter defines a function, for any ticks.                          *)

PowerStep(p, n, ticks, v) ==
  IF n = 0 THEN GenesisPower[v] ELSE Slashed(p[n - 1], Amount(ticks[n], v))

IsPower(p, D, ticks, v) == p = [n \in D |-> PowerStep(p, n, ticks, v)]

(* Two such functions agree as long as their ticks do. *)
LEMMA PowersAgree ==
  ASSUME NEW v, NEW s, NEW t, NEW p, NEW q, NEW D, NEW E, NEW last \in Nat,
         0 .. last \subseteq D, 0 .. last \subseteq E, IsPower(p, D, s, v), IsPower(q, E, t, v),
         \A n \in 1 .. last : s[n] = t[n]
  PROVE  \A n \in 0 .. last : p[n] = q[n]
<1> DEFINE Good == {n \in Nat : n <= last => p[n] = q[n]}
<1>1. 0 \in Good
  <2>1. p[0] = PowerStep(p, 0, s, v) /\ q[0] = PowerStep(q, 0, t, v)
    BY DEF IsPower
  <2> QED BY <2>1 DEF PowerStep
<1>2. \A n \in Good : n + 1 \in Good
  <2> SUFFICES ASSUME NEW n \in Good, n + 1 <= last PROVE p[n + 1] = q[n + 1]
    OBVIOUS
  <2>1. n \in Nat /\ n + 1 \in 1 .. last /\ n + 1 \in D /\ n + 1 \in E /\ (n + 1) - 1 = n
    OBVIOUS
  <2>2. p[n] = q[n] /\ s[n + 1] = t[n + 1]
    BY <2>1
  <2>3. p[n + 1] = PowerStep(p, n + 1, s, v) /\ q[n + 1] = PowerStep(q, n + 1, t, v)
    BY <2>1 DEF IsPower
  <2> QED BY <2>1, <2>2, <2>3 DEF PowerStep
<1> HIDE DEF Good
<1>3. Good \in SUBSET Nat
  BY DEF Good
<1>4. Nat \subseteq Good
  BY <1>1, <1>2, <1>3, NatInductionOnSet
<1> QED BY <1>4 DEF Good

LEMMA PowerExists ==
  ASSUME NEW v, NEW ticks
  PROVE  \E p : IsPower(p, Nat, ticks, v)
<1> DEFINE Good == {n \in Nat : \E p : IsPower(p, 0 .. n, ticks, v)}
<1>1. 0 \in Good
  <2> DEFINE p == [n \in 0 .. 0 |-> GenesisPower[v]]
  <2>1. IsPower(p, 0 .. 0, ticks, v)
    BY DEF IsPower, PowerStep
  <2> QED BY <2>1
<1>2. \A n \in Good : n + 1 \in Good
  <2> SUFFICES ASSUME NEW n \in Nat, NEW p, IsPower(p, 0 .. n, ticks, v)
               PROVE  \E q : IsPower(q, 0 .. n + 1, ticks, v)
    OBVIOUS
  <2> DEFINE q == [m \in 0 .. n + 1 |->
                     IF m = n + 1 THEN PowerStep(p, m, ticks, v) ELSE p[m]]
  <2>1. \A m \in 0 .. n : q[m] = p[m] /\ p[m] = PowerStep(p, m, ticks, v)
    BY DEF IsPower
  <2>2. \A m \in 0 .. n + 1 : m # 0 => m - 1 \in 0 .. n
    OBVIOUS
  <2>3. \A m \in 0 .. n + 1 : q[m] = PowerStep(p, m, ticks, v)
    <3> SUFFICES ASSUME NEW m \in 0 .. n + 1, m # n + 1 PROVE q[m] = PowerStep(p, m, ticks, v)
      OBVIOUS
    <3>1. m \in 0 .. n
      OBVIOUS
    <3> QED BY <2>1, <3>1
  <2>4. q = [m \in 0 .. n + 1 |-> q[m]]
    OBVIOUS
  <2> HIDE DEF q
  <2>5. \A m \in 0 .. n + 1 : PowerStep(p, m, ticks, v) = PowerStep(q, m, ticks, v)
    BY <2>1, <2>2 DEF PowerStep
  <2> QED BY <2>3, <2>4, <2>5 DEF IsPower
<1> HIDE DEF Good
<1>3. Good \in SUBSET Nat
  BY DEF Good
<1>4. Nat \subseteq Good
  BY <1>1, <1>2, <1>3, NatInductionOnSet
<1> DEFINE upTo(n) == CHOOSE p : IsPower(p, 0 .. n, ticks, v)
           r == [n \in Nat |-> upTo(n)[n]]
<1>5. \A n \in Nat : IsPower(upTo(n), 0 .. n, ticks, v)
  BY <1>4 DEF Good
<1>6. \A n \in Nat : n # 0 => n - 1 \in Nat /\ r[n - 1] = upTo(n)[n - 1]
  <2> SUFFICES ASSUME NEW n \in Nat, n # 0 PROVE n - 1 \in Nat /\ r[n - 1] = upTo(n)[n - 1]
    OBVIOUS
  <2>1. n - 1 \in Nat /\ n - 1 \in 0 .. n - 1
    OBVIOUS
  <2>2. r[n - 1] = upTo(n - 1)[n - 1]
    BY <2>1
  <2>3. IsPower(upTo(n), 0 .. n, ticks, v) /\ IsPower(upTo(n - 1), 0 .. n - 1, ticks, v)
    BY <1>5, <2>1
  <2>4. 0 .. n - 1 \subseteq 0 .. n /\ 0 .. n - 1 \subseteq 0 .. n - 1
    OBVIOUS
  <2> HIDE DEF r, upTo
  <2> QED BY <2>1, <2>2, <2>3, <2>4, PowersAgree
<1>7. r = [n \in Nat |-> PowerStep(r, n, ticks, v)]
  <2> SUFFICES ASSUME NEW n \in Nat PROVE r[n] = PowerStep(r, n, ticks, v)
    OBVIOUS
  <2>1. r[n] = upTo(n)[n] /\ n \in 0 .. n
    OBVIOUS
  <2> HIDE DEF r
  <2>2. upTo(n)[n] = PowerStep(upTo(n), n, ticks, v)
    <3>1. IsPower(upTo(n), 0 .. n, ticks, v)
      BY <1>5
    <3> HIDE DEF upTo
    <3> QED BY <2>1, <3>1 DEF IsPower
  <2> HIDE DEF upTo
  <2> QED BY <1>6, <2>1, <2>2 DEF PowerStep
<1> HIDE DEF r, upTo
<1> QED BY <1>7 DEF IsPower

LEMMA PowerAfterIsPower ==
  ASSUME NEW v
  PROVE  IsPower(PowerAfter(v), Nat, l1Ticks, v) /\ IsPower(PowerAfter(v), Nat, l1Ticks, v)'
<1>1. PowerAfter(v) = CHOOSE p : IsPower(p, Nat, l1Ticks, v)
  BY DEF PowerAfter, IsPower, PowerStep
<1>2. PowerAfter(v)' = CHOOSE p : IsPower(p, Nat, l1Ticks', v)
  BY DEF PowerAfter, IsPower, PowerStep
<1>3. IsPower(PowerAfter(v), Nat, l1Ticks, v)
  BY <1>1, PowerExists, Zenon
<1>4. IsPower(PowerAfter(v)', Nat, l1Ticks', v)
  BY <1>2, PowerExists, Zenon
<1>5. IsPower(PowerAfter(v), Nat, l1Ticks, v)' <=> IsPower(PowerAfter(v)', Nat, l1Ticks', v)
  BY DEF IsPower, PowerStep
<1> QED BY <1>3, <1>4, <1>5

(* The power after n ticks is not touched by what comes later. *)
LEMMA PowerAfterKept ==
  ASSUME NEW v, NEW n \in Nat, \A k \in 1 .. n : l1Ticks'[k] = l1Ticks[k]
  PROVE  PowerAfter(v)'[n] = PowerAfter(v)[n]
<1>1. IsPower(PowerAfter(v), Nat, l1Ticks, v)
  BY PowerAfterIsPower
<1>2. IsPower(PowerAfter(v)', Nat, l1Ticks', v)
  <2>1. IsPower(PowerAfter(v), Nat, l1Ticks, v)'
    BY PowerAfterIsPower
  <2> QED BY <2>1 DEF IsPower, PowerStep
<1>3. 0 .. n \subseteq Nat /\ n \in 0 .. n
  OBVIOUS
<1>4. \A p, q : IsPower(p, Nat, l1Ticks', v) /\ IsPower(q, Nat, l1Ticks, v) => p[n] = q[n]
  BY <1>3, PowersAgree
<1> QED BY <1>1, <1>2, <1>4

LEMMA PowerAfterNone ==
  ASSUME NEW v
  PROVE  PowerAfter(v)[0] = GenesisPower[v]
BY PowerAfterIsPower DEF IsPower, PowerStep

LEMMA PowerAfterNext ==
  ASSUME NEW v, NEW n \in Nat \ {0}
  PROVE  PowerAfter(v)[n] = Slashed(PowerAfter(v)[n - 1], Amount(l1Ticks[n], v))
BY PowerAfterIsPower DEF IsPower, PowerStep

LEMMA InitMirrors == Init => PowerMirrorsStakeChain
BY PowerAfterNone, ParamAssumption DEF Init, PowerMirrorsStakeChain, Applied

(* A step that only lets the stake chain take more ticks. *)
LEMMA GrowthKeepsMirror ==
  ASSUME Inv, PowerMirrorsStakeChain, UNCHANGED <<power, tick, tickCount>>,
         Len(l1Ticks') \in Nat, Len(l1Ticks) <= Len(l1Ticks'), Len(l1Ticks') <= tickCount,
         \A k \in 1 .. Len(l1Ticks) : l1Ticks'[k] = l1Ticks[k]
  PROVE  PowerMirrorsStakeChain'
<1>1. Applied' = Applied /\ Applied <= Len(l1Ticks)
  BY DEF PowerMirrorsStakeChain, Applied
<1>2. Len(l1Ticks) \in Nat /\ Applied \in Nat
  <2>1. tick # Empty => tickCount >= 1
    BY DEF Inv, ConfirmedInv, TypeOK, TickMsg
  <2> QED BY <2>1, ParamAssumption DEF Inv, TypeOK, Applied
<1>3. \A v : PowerAfter(v)'[Applied] = PowerAfter(v)[Applied]
  <2>1. \A k \in 1 .. Applied : l1Ticks'[k] = l1Ticks[k]
    BY <1>1, <1>2
  <2> QED BY <1>2, <2>1, PowerAfterKept
<1>4. Applied <= Len(l1Ticks')
  BY <1>1, <1>2
<1> QED BY <1>1, <1>3, <1>4 DEF PowerMirrorsStakeChain

LEMMA NextKeepsMirror ==
  ASSUME Inv, PowerMirrorsStakeChain, [Next]_vars
  PROVE  PowerMirrorsStakeChain'
<1>0. /\ l1Ticks \in Seq(Infos) /\ Len(l1Ticks) \in Nat /\ tickCount \in Nat
      /\ Applied <= Len(l1Ticks) /\ Len(l1Ticks) <= tickCount
  BY ParamAssumption DEF Inv, TypeOK, PowerMirrorsStakeChain
<1>1. CASE UNCHANGED <<power, tick, tickCount, l1Ticks>>
  BY <1>0, <1>1, GrowthKeepsMirror
<1>2. CASE \E m \in confirmed : SubmitTick(m)
  <2>1. PICK m \in confirmed : SubmitTick(m)
    BY <1>2
  <2>2. /\ m.id = Len(l1Ticks) + 1 /\ m.id <= tickCount /\ m.infos \in Infos
        /\ l1Ticks' = Append(l1Ticks, m.infos)
        /\ UNCHANGED <<power, tick, tickCount>>
    BY <2>1 DEF SubmitTick, Inv, ConfirmedInv, TypeOK, TickMsg, tickVars
  <2>3. Len(l1Ticks') = m.id /\ \A k \in 1 .. Len(l1Ticks) : l1Ticks'[k] = l1Ticks[k]
    BY <1>0, <2>2
  <2>4. Len(l1Ticks') \in Nat /\ Len(l1Ticks) <= Len(l1Ticks') /\ Len(l1Ticks') <= tickCount
    BY <1>0, <2>2, <2>3
  <2> QED BY <2>2, <2>3, <2>4, GrowthKeepsMirror
<1>3. CASE \E m \in pipe[2] : PostHandleMsgTick(m)
  <2>1. /\ tick = Empty /\ tick' # Empty /\ tickCount' = tickCount + 1
        /\ UNCHANGED <<power, l1Ticks>>
    BY <1>3, PostHandleMsgTickKeepsInv DEF PostHandleMsgTick, Executed, l1Vars
  <2>2. Applied' = Applied /\ Applied = tickCount
    BY <1>0, <2>1 DEF Applied
  <2>3. \A v : PowerAfter(v)'[Applied] = PowerAfter(v)[Applied]
    BY <1>0, <2>1, <2>2, PowerAfterKept
  <2> QED BY <1>0, <2>1, <2>2, <2>3 DEF PowerMirrorsStakeChain
<1>4. CASE \E m \in pipe[2] : PostHandleMsgTickAck(m)
  <2>1. PICK m \in pipe[2] : PostHandleMsgTickAck(m)
    BY <1>4
  <2>2. /\ Len(l1Ticks) = tickCount /\ l1Ticks[tickCount] = tick /\ tick' = Empty
        /\ tick # Empty /\ UNCHANGED <<tickCount, l1Ticks>>
        /\ power' = [v \in ValidatorID |-> Slashed(power[v], Amount(tick, v))]
    BY <2>1, PostHandleMsgTickAckKeepsInv DEF PostHandleMsgTickAck, Executed, l1Vars
  <2>3. tickCount >= 1
    BY <2>2 DEF Inv, ConfirmedInv, TypeOK, TickMsg
  <2>4. Applied = tickCount - 1 /\ Applied' = tickCount
    BY <2>2 DEF Applied
  <2>5. ASSUME NEW v \in ValidatorID PROVE power'[v] = PowerAfter(v)'[tickCount]
    <3>1. PowerAfter(v)'[tickCount] = PowerAfter(v)[tickCount]
      BY <1>0, <2>2, PowerAfterKept
    <3>2. PowerAfter(v)[tickCount] = Slashed(PowerAfter(v)[tickCount - 1], Amount(tick, v))
      BY <1>0, <2>2, <2>3, PowerAfterNext
    <3>3. power[v] = PowerAfter(v)[tickCount - 1]
      BY <2>4 DEF PowerMirrorsStakeChain
    <3> QED BY <2>2, <3>1, <3>2, <3>3
  <2> QED BY <1>0, <2>2, <2>4, <2>5 DEF PowerMirrorsStakeChain
<1>5. CASE \E m : Deliver(m)
  BY <1>1, <1>5 DEF Deliver, tickVars, l1Vars
<1>6. CASE \/ \E v \in evidence : HandleDoubleSign(v)
           \/ \E v \in votes, signed \in BOOLEAN : HandleValidatorSignature(v, signed)
  BY <1>1, <1>6 DEF HandleDoubleSign, HandleValidatorSignature, tickVars, l1Vars
<1>7. CASE \E m \in pipe[2] : PostHandleMsgUnjail(m) \/ SideTxDropped(m)
  BY <1>1, <1>7 DEF PostHandleMsgUnjail, SideTxDropped, Executed, tickVars, l1Vars
<1>8. CASE \/ \E byzantine \in SUBSET DoubleSigners, voters \in VoterSets :
                NextBlock(byzantine, voters)
           \/ \E v \in ValidatorID : Unjail(v)
  BY <1>1, <1>8 DEF NextBlock, Unjail, tickVars, l1Vars
<1>9. CASE UNCHANGED vars
  BY <1>1, <1>9 DEF vars, tickVars, l1Vars
<1> QED BY <1>2, <1>3, <1>4, <1>5, <1>6, <1>7, <1>8, <1>9
        DEF Next, HandlerMsgTick, HandleMsgTickAck, HandleMsgUnjail

-----------------------------------------------------------------------------
(* The total that allows a tick is the sum of the amounts of the buffer, for
   any number of validators, whatever infractions and ticks interleave
   (Keeper.UpdateTotalSlashedAmount, Keeper.FlushBufferValSlashingInfos). *)
THEOREM TotalBuffered == Spec => []TotalIsBuffered
<1>1. Init => TotalIsBuffered
  BY TotalOfBuffer, EmptyBufferTotal DEF Init, TotalIsBuffered
<1>2. Inv /\ TotalIsBuffered /\ [Next]_vars => TotalIsBuffered'
  BY NextKeepsTotal
<1> QED BY <1>1, <1>2, InvHolds, PTL DEF Spec

(* The powers of the records are the genesis powers after all ticks the stake
   chain took and this chain has seen acknowledged, each subtracted once, in
   order and with the amounts the stake chain took. *)
THEOREM PowerMirrored == Spec => []PowerMirrorsStakeChain
<1>1. Inv /\ PowerMirrorsStakeChain /\ [Next]_vars => PowerMirrorsStakeChain'
  BY NextKeepsMirror
<1> QED BY InitMirrors, <1>1, InvHolds, PTL DEF Spec

=============================================================================
