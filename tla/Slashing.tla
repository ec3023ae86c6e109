-------------------------------- MODULE Slashing --------------------------------
(***************************************************************************)
(* The slashing module (slashing/): missed blocks and double signs are     *)
(* turned into slashing infos that gather in a buffer; a tick moves the    *)
(* buffer to the tick data and takes them to the stake chain; when the     *)
(* acknowledgement of the stake chain comes back, the validators' records  *)
(* lose the power and are jailed.                                          *)
(*                                                                         *)
(* A block first handles the evidence and the votes of the last commit,    *)
(* then the side transactions delivered two blocks ago, then delivers new  *)
(* ones.  Slashing is enabled, evidence is young enough, and a validator   *)
(* is known by its ID; what it stakes changes by slashing only.  The slash *)
(* limit only decides when the bridges are told to send a tick: here they  *)
(* may send one at any time, as the handler asks for no limit.             *)
(***************************************************************************)
EXTENDS Integers, FiniteSets, Sequences, Functions, SequencesExt

CONSTANTS
    ValidatorID,
    IDBytes,                  \* ValidatorID.Bytes: the decimal digits of the ID
    IndexBytes,               \* the index of a bit in a key, low byte first
    GenesisPower,             \* the power of the validators at genesis
    SignedBlocksWindow,       \* params.SignedBlocksWindow
    MinSigned,                \* MinSignedPerWindow(ctx), in blocks
    SlashFractionDowntime,    \* params, in percent
    SlashFractionDoubleSign,
    JailFractionLimit,
    None,                     \* nothing under a key of the store
    VoterSets,                \* bound: validators whose votes a commit holds
    DoubleSigners,            \* bound: validators that sign twice
    MaxMissed,                \* bound: what the counter of missed blocks may reach
    MaxTicks,                 \* bound: ticks
    MaxUnjails,               \* bound: unjail events of a validator
    MaxTxs                    \* bound: side transactions per block

ASSUME ParamAssumption ==
    /\ IsFiniteSet(ValidatorID)
    /\ GenesisPower \in [ValidatorID -> Nat \ {0}]
    /\ SignedBlocksWindow \in Nat \ {0} /\ MinSigned \in 0 .. SignedBlocksWindow
    /\ {SlashFractionDowntime, SlashFractionDoubleSign, JailFractionLimit} \subseteq 0 .. 100
    /\ VoterSets \subseteq SUBSET ValidatorID /\ DoubleSigners \subseteq ValidatorID
    /\ {MaxMissed, MaxTicks, MaxUnjails, MaxTxs} \subseteq Nat

Index == 0 .. SignedBlocksWindow - 1

\* hmTypes.ValidatorSlashingInfo, by validator.
Info  == [amount: Nat, jailed: BOOLEAN]
Infos == [ValidatorID -> Info \cup {None}]
Empty == [v \in ValidatorID |-> None]

ASSUME NoneAssumption == None \notin Info

Amount(infos, v) == IF infos[v] = None THEN 0 ELSE infos[v].amount

TickMsg    == [type: {"tick"}, id: 1 .. MaxTicks, infos: Infos]
TickAckMsg == [type: {"tickAck"}, id: 1 .. MaxTicks]
UnjailMsg  == [type: {"unjail"}, id: ValidatorID, event: 1 .. MaxUnjails]
Msg        == TickMsg \cup TickAckMsg \cup UnjailMsg

VARIABLES
    height,      \* of the block, as far as the minimum height goes
    evidence,    \* double signs the block still has to handle
    votes,       \* votes of the last commit the block still has to handle
    signing,     \* ValidatorSigningInfoKey, ValidatorMissedBlockBitArrayKey
    power,       \* the staking records: VotingPower
    jailed,      \* the staking records: Jailed
    buffer,      \* BufferValSlashingInfoKey
    total,       \* TotalSlashedAmountKey
    tick,        \* TickValSlashingInfoKey
    tickCount,   \* TickCountKey
    sequences,   \* SlashingSequenceKey: events of the stake chain seen
    pipe,        \* side transactions, by the blocks since their delivery
    confirmed,   \* ticks the validators approved: their signatures exist
    l1Ticks,     \* the stake chain's contract: the ticks it took
    l1Unjails    \* the stake chain's contract: unjail events of a validator

blockVars == <<height, evidence, votes, signing>>
tickVars  == <<tick, tickCount, confirmed>>
l1Vars    == <<l1Ticks, l1Unjails>>
vars == <<blockVars, power, jailed, buffer, total, tickVars, sequences, pipe, l1Vars>>

\* The counter has no bound of its own: bits can go without it, see
\* clearValidatorMissedBlockBitArray.
SigningInfo == [index: Index, missed: Nat, bits: SUBSET Index]

TypeOK ==
    /\ height \in 0 .. SignedBlocksWindow + 1
    /\ evidence \subseteq ValidatorID /\ votes \subseteq ValidatorID
    /\ signing \in [ValidatorID -> SigningInfo]
    /\ power \in [ValidatorID -> Nat]
    /\ jailed \in [ValidatorID -> BOOLEAN]
    /\ buffer \in Infos
    /\ total \in Nat
    /\ tick \in Infos
    /\ tickCount \in 0 .. MaxTicks
    /\ \A s \in sequences : s \in TickAckMsg \cup UnjailMsg
    /\ DOMAIN pipe = 0 .. 2 /\ \A k \in 0 .. 2 : \A m \in pipe[k] : m \in Msg
    /\ \A m \in confirmed : m \in TickMsg
    /\ l1Ticks \in Seq(Infos)
    /\ l1Unjails \in [ValidatorID -> 0 .. MaxUnjails]

Fresh == [index |-> 0, missed |-> 0, bits |-> {}]

Init ==
    /\ height = 0
    /\ evidence = {} /\ votes = {}
    /\ signing = [v \in ValidatorID |-> Fresh]
    /\ power = GenesisPower
    /\ jailed = [v \in ValidatorID |-> FALSE]
    /\ buffer = Empty
    /\ total = 0
    /\ tick = Empty
    /\ tickCount = 0
    /\ sequences = {}
    /\ pipe = [k \in 0 .. 2 |-> {}]
    /\ confirmed = {}
    /\ l1Ticks = <<>>
    /\ l1Unjails = [v \in ValidatorID |-> 0]

-----------------------------------------------------------------------------
(* Infractions.                                                            *)

Percent(f, n) == (f * n) \div 100

\* "if val is already in jailed state (in buffer or fixed), don't slash".
Slashable(v) == ~ jailed[v] /\ ~ (buffer[v] # None /\ buffer[v].jailed)

\* Mutant: the total keeps only the last amount.
SlashInterim_LastAmount(v, fraction) ==
    LET slashed == Percent(fraction, power[v])
        amount  == Amount(buffer, v) + slashed IN
    /\ buffer' = [buffer EXCEPT ![v] =
                     [amount |-> amount,
                      jailed |-> amount >= Percent(JailFractionLimit, power[v])]]
    /\ total' = amount

\* SlashInterim, IsJailLimitExceeded, UpdateTotalSlashedAmount.
SlashInterim(v, fraction) ==
    LET slashed == Percent(fraction, power[v])
        amount  == Amount(buffer, v) + slashed IN
    /\ buffer' = [buffer EXCEPT ![v] =
                     [amount |-> amount,
                      jailed |-> amount >= Percent(JailFractionLimit, power[v])]]
    /\ total' = total + slashed

\* The lists of a block are handled in their order, here any fixed one.
First(S) == CHOOSE v \in S : TRUE

HandleDoubleSign(v) ==
    /\ v = First(evidence)
    /\ evidence' = evidence \ {v}
    /\ IF Slashable(v)
       THEN SlashInterim(v, SlashFractionDoubleSign)
       ELSE UNCHANGED <<buffer, total>>
    /\ UNCHANGED <<height, votes, signing, power, jailed, tickVars, sequences, pipe, l1Vars>>

\* The bit of the block in the window, and the counter that follows it.
Signed(info, signed) ==
    LET previous == info.index \in info.bits IN
    [index  |-> (info.index + 1) % SignedBlocksWindow,
     missed |-> CASE ~ previous /\ ~ signed -> info.missed + 1
                  [] previous /\ signed     -> info.missed - 1
                  [] OTHER                  -> info.missed,
     bits   |-> IF signed THEN info.bits \ {info.index} ELSE info.bits \cup {info.index}]

\* GetValidatorMissedBlockBitArrayKey: the key of a bit, after its first byte.
BitKey(v, i) == IDBytes[v] \o IndexBytes[i]

\* All bits whose key begins with the ID of v: those of v, those of a validator
\* whose ID begins with the same digits, and those of a validator whose ID and
\* the bytes of the index happen to read so.
ClearedBits(v) ==
    [w \in ValidatorID |-> {i \in Index : IsPrefix(IDBytes[v], BitKey(w, i))}]

\* Mutant: the counter and the index start anew, the bits stay.
clearValidatorMissedBlockBitArray_KeepsBits(v) ==
    [signing EXCEPT ![v] = [Fresh EXCEPT !.bits = signing[v].bits]]

\* The slashed validator starts a new window; others only lose their bits.
clearValidatorMissedBlockBitArray(v) ==
    [w \in ValidatorID |->
        IF w = v THEN Fresh
        ELSE [signing[w] EXCEPT !.bits = @ \ ClearedBits(v)[w]]]

\* A validator that missed too many blocks of the window is slashed and starts
\* a new window.
HandleValidatorSignature(v, signed) ==
    LET info     == Signed(signing[v], signed)
        downtime == /\ height > SignedBlocksWindow
                    /\ info.missed > SignedBlocksWindow - MinSigned IN
    /\ evidence = {}
    /\ v = First(votes)
    /\ info.missed <= MaxMissed
    /\ votes' = votes \ {v}
    /\ IF downtime /\ Slashable(v)
       THEN /\ SlashInterim(v, SlashFractionDowntime)
            /\ signing' = clearValidatorMissedBlockBitArray(v)
       ELSE /\ signing' = [signing EXCEPT ![v] = info]
            /\ UNCHANGED <<buffer, total>>
    /\ UNCHANGED <<height, evidence, power, jailed, tickVars, sequences, pipe, l1Vars>>

-----------------------------------------------------------------------------
(* Delivery.                                                               *)

Deliver(m) ==
    /\ evidence = {} /\ votes = {} /\ pipe[2] = {}
    /\ Cardinality(pipe[0]) < MaxTxs
    /\ pipe' = [pipe EXCEPT ![0] = @ \cup {m}]
    /\ UNCHANGED <<blockVars, power, jailed, buffer, total, tickVars, sequences, l1Vars>>

\* Mutant: the tick data may still wait for their acknowledgement.
HandlerMsgTick_NoWait(m) ==
    /\ total > 0
    /\ m.type = "tick"
    /\ m.id = tickCount + 1
    /\ m.infos = buffer
    /\ Deliver(m)

\* A tick carries the infos of the buffer; the tick data must have been
\* acknowledged.
HandlerMsgTick(m) ==
    /\ total > 0
    /\ m.type = "tick"
    /\ m.id = tickCount + 1
    /\ m.infos = buffer
    /\ tick = Empty
    /\ Deliver(m)

HandleMsgTickAck(m) ==
    /\ m.type = "tickAck"
    /\ m \notin sequences
    /\ m.id = tickCount
    /\ Deliver(m)

HandleMsgUnjail(m) ==
    /\ m.type = "unjail"
    /\ m \notin sequences
    /\ jailed[m.id]
    /\ Deliver(m)

-----------------------------------------------------------------------------
(* Post handlers.  What a message says of the stake chain was there when   *)
(* it was sent, and stays.                                                 *)

Executed(m) ==
    /\ evidence = {} /\ votes = {}
    /\ m \in pipe[2]
    /\ pipe' = [pipe EXCEPT ![2] = @ \ {m}]
    /\ UNCHANGED <<blockVars, l1Vars>>

\* Mutant: the buffer is not compared again.
PostHandleMsgTick_StaleBuffer(m) ==
    /\ m.type = "tick"
    /\ Executed(m)
    /\ m.id = tickCount + 1
    /\ tick' = [v \in ValidatorID |-> IF buffer[v] # None THEN buffer[v] ELSE tick[v]]
    /\ buffer' = Empty
    /\ total' = 0
    /\ tickCount' = tickCount + 1
    /\ confirmed' = confirmed \cup {m}
    /\ UNCHANGED <<power, jailed, sequences>>

\* The buffer is copied over the tick data, whether these are empty or not.
PostHandleMsgTick(m) ==
    /\ m.type = "tick"
    /\ Executed(m)
    /\ m.id = tickCount + 1
    /\ m.infos = buffer
    /\ tick' = [v \in ValidatorID |-> IF buffer[v] # None THEN buffer[v] ELSE tick[v]]
    /\ buffer' = Empty
    /\ total' = 0
    /\ tickCount' = tickCount + 1
    /\ confirmed' = confirmed \cup {m}
    /\ UNCHANGED <<power, jailed, sequences>>

\* Mutant: the power may fall below zero.
Slashed_Negative(p, amount) == p - amount

\* Slash: the power of a record never falls below zero.
Slashed(p, amount) == IF p >= amount THEN p - amount ELSE 0

\* SlashAndJailTickValSlashingInfos: the record's jail status becomes that of
\* the info.
PostHandleMsgTickAck(m) ==
    /\ m.type = "tickAck"
    /\ Executed(m)
    /\ m.id = tickCount
    /\ m \notin sequences
    /\ tick # Empty
    /\ power' = [v \in ValidatorID |-> Slashed(power[v], Amount(tick, v))]
    /\ jailed' = [v \in ValidatorID |-> IF tick[v] = None THEN jailed[v] ELSE tick[v].jailed]
    /\ tick' = Empty
    /\ sequences' = sequences \cup {m}
    /\ UNCHANGED <<buffer, total, tickCount, confirmed>>

PostHandleMsgUnjail(m) ==
    /\ m.type = "unjail"
    /\ Executed(m)
    /\ m \notin sequences
    /\ jailed' = [jailed EXCEPT ![m.id] = FALSE]
    /\ sequences' = sequences \cup {m}
    /\ UNCHANGED <<power, buffer, total, tickVars>>

\* No quorum of Yes, or the post handler returned an error.
SideTxDropped(m) ==
    /\ Executed(m)
    /\ UNCHANGED <<power, jailed, buffer, total, tickVars, sequences>>

-----------------------------------------------------------------------------
(* The environment.                                                        *)

\* The next block brings evidence, and votes of those who are in Tendermint's
\* set, which lags behind the records.
NextBlock(byzantine, voters) ==
    /\ evidence = {} /\ votes = {} /\ pipe[2] = {}
    /\ height' = IF height <= SignedBlocksWindow THEN height + 1 ELSE height
    /\ evidence' = byzantine
    /\ votes' = voters
    /\ pipe' = [k \in 0 .. 2 |-> IF k = 0 THEN {} ELSE pipe[k - 1]]
    /\ UNCHANGED <<signing, power, jailed, buffer, total, tickVars, sequences, l1Vars>>

\* External: the stake chain takes the approved ticks in the order of their
\* nonces.
SubmitTick(m) ==
    /\ m \in confirmed
    /\ m.id = Len(l1Ticks) + 1
    /\ l1Ticks' = Append(l1Ticks, m.infos)
    /\ UNCHANGED <<blockVars, power, jailed, buffer, total, tickVars, sequences, pipe, l1Unjails>>

\* External: the owner of a validator that some tick jailed asks to unjail it.
Unjail(v) ==
    /\ l1Unjails[v] < MaxUnjails
    /\ \E n \in DOMAIN l1Ticks : l1Ticks[n][v] # None /\ l1Ticks[n][v].jailed
    /\ l1Unjails' = [l1Unjails EXCEPT ![v] = @ + 1]
    /\ UNCHANGED <<blockVars, power, jailed, buffer, total, tickVars, sequences, pipe, l1Ticks>>

-----------------------------------------------------------------------------

\* What the bridges send: the buffer they read, and the events of the stake chain.
Ticks    == IF tickCount < MaxTicks
            THEN {[type |-> "tick", id |-> tickCount + 1, infos |-> buffer]} ELSE {}
TickAcks == [type: {"tickAck"}, id: DOMAIN l1Ticks]
Unjails  == UNION {[type: {"unjail"}, id: {v}, event: 1 .. l1Unjails[v]] : v \in ValidatorID}

Next ==
    \/ \E v \in evidence : HandleDoubleSign(v)
    \/ \E v \in votes, signed \in BOOLEAN : HandleValidatorSignature(v, signed)
    \/ \E m \in Ticks : HandlerMsgTick(m)
    \/ \E m \in TickAcks : HandleMsgTickAck(m)
    \/ \E m \in Unjails : HandleMsgUnjail(m)
    \/ \E m \in pipe[2] : PostHandleMsgTick(m)
    \/ \E m \in pipe[2] : PostHandleMsgTickAck(m)
    \/ \E m \in pipe[2] : PostHandleMsgUnjail(m)
    \/ \E m \in pipe[2] : SideTxDropped(m)
    \/ \E byzantine \in SUBSET DoubleSigners, voters \in VoterSets :
          NextBlock(byzantine, voters)
    \/ \E m \in confirmed : SubmitTick(m)
    \/ \E v \in ValidatorID : Unjail(v)

Spec == Init /\ [][Next]_vars

-----------------------------------------------------------------------------
(* Properties.                                                             *)

\* The total that allows a tick is the sum of what is buffered, whatever
\* infractions come between a tick's delivery and its execution.
TotalIsBuffered == total = SumFunction([v \in ValidatorID |-> Amount(buffer, v)])

\* Nobody else's new window clears bits of the validator.
Alone(v) == \A w \in ValidatorID \ {v} : ClearedBits(w)[v] = {}

\* No bit is set that the counter of missed blocks does not count; and unless
\* its bits may go with those of another validator, the counter is the number
\* of bits set, also after the window started anew.
MissedIsCounted ==
    \A v \in ValidatorID :
        /\ Cardinality(signing[v].bits) <= signing[v].missed
        /\ Alone(v) => signing[v].missed = Cardinality(signing[v].bits)

\* How many of its ticks the stake chain's acknowledgements have brought back.
Applied == IF tick = Empty THEN tickCount ELSE tickCount - 1

\* The power of a validator after the first n ticks of the stake chain.
PowerAfter(v) ==
    LET p[n \in Nat] == IF n = 0 THEN GenesisPower[v]
                        ELSE Slashed(p[n - 1], Amount(l1Ticks[n], v))
    IN p

\* The records show the ticks the stake chain took, each of them once, in order
\* and with the amounts it took, although an acknowledgement applies whatever
\* the tick data hold when it is executed.
PowerMirrorsStakeChain ==
    /\ Applied <= Len(l1Ticks) /\ Len(l1Ticks) <= tickCount
    /\ \A v \in ValidatorID : power[v] = PowerAfter(v)[Applied]

\* The tick data are never overwritten: they are the tick on its way, as it was
\* approved, and go when its acknowledgement is executed.
TickKept ==
    [][tick # Empty /\ tick' # tick =>
          /\ tick' = Empty
          /\ Len(l1Ticks) = tickCount /\ l1Ticks[tickCount] = tick]_vars

\* "Validators must submit a transaction to unjail itself after having been
\* jailed" (slashing/handler.go): a jailed validator stays in jail unless an
\* unjail event is executed.
JailedUntilUnjail ==
    [][\A v \in ValidatorID :
          jailed[v] /\ ~ jailed'[v] =>
              \E s \in sequences' \ sequences : s.type = "unjail" /\ s.id = v]_vars
===============================================================================
