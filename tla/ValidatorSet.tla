----------------------------- MODULE ValidatorSet -----------------------------
(***************************************************************************)
(* The validator set and its proposer: types/validator-set.go, a copy of   *)
(* Tendermint's that belongs to the application, with EndBlocker           *)
(* (app/app.go), which brings the validators of the staking store into the *)
(* set and tells Tendermint, and with the two transactions that rotate the *)
(* proposer.                                                               *)
(*                                                                         *)
(* The proposer of this set proposes checkpoints.  Priorities decide who   *)
(* it is: every rotation adds each validator's power to its priority and   *)
(* takes the total from the highest, which becomes the proposer.           *)
(*                                                                         *)
(* Validator records change as in module Staking, of which only start,     *)
(* end, power and jail are kept.  Signers are integers in the order of     *)
(* their addresses.                                                        *)
(***************************************************************************)
EXTENDS Integers, FiniteSets, FiniteSetsExt, Functions

CONSTANTS
    Signer,               \* addresses, as the integers of their order
    GenesisPower,         \* the validators of the genesis file and their power
    MaxTotalVotingPower,  \* the code's MaxInt64 / 8
    SlashDivisor,         \* one over the fraction that is slashed
    MaxAckCount           \* bound: acknowledged checkpoints, and epochs

ASSUME SignerAssumption == Signer \subseteq Nat /\ IsFiniteSet(Signer)
ASSUME GenesisAssumption ==
    /\ DOMAIN GenesisPower \subseteq Signer
    /\ DOMAIN GenesisPower # {}
    /\ GenesisPower \in [DOMAIN GenesisPower -> Nat \ {0}]
    /\ SumFunction(GenesisPower) <= MaxTotalVotingPower  \* or NewValidatorSet panics
ASSUME BoundAssumption ==
    /\ MaxTotalVotingPower \in Nat
    /\ SlashDivisor \in Nat \ {0}
    /\ MaxAckCount \in Nat

PriorityWindowSizeFactor == 2
Epochs == 1 .. MaxAckCount + 1    \* the stake chain counts from one

VARIABLES
    validators,  \* staking store: the record of every signer that has one
    bound,       \* the signers that are some validator ID's present signer
    ackCount,    \* acknowledged checkpoints of the stake chain
    set,         \* CurrentValidatorSetKey: power and priority of the members, proposer
    tendermint,  \* Tendermint's validators and their power
    inBlock,     \* transactions were executed since the last EndBlock
    refused      \* the last EndBlock could not apply its updates

vars == <<validators, bound, ackCount, set, tendermint, inBlock, refused>>

Record == [start: Epochs \cup {0}, end: Epochs \cup {0}, power: Nat, jailed: BOOLEAN]

-----------------------------------------------------------------------------
(* types/validator-set.go                                                  *)

Members(vals) == DOMAIN vals.power
TotalVotingPower(vals) == SumFunction(vals.power)
Spread(vals) == Max(Range(vals.priority)) - Min(Range(vals.priority))

\* Go's division, which truncates.
Quotient(a, b) == IF a >= 0 THEN a \div b ELSE -((-a) \div b)

\* Priorities further apart than twice the total power are divided by the
\* ratio, rounded up.
RescalePriorities(vals) ==
    LET diffMax == PriorityWindowSizeFactor * TotalVotingPower(vals)
        ratio   == (Spread(vals) + diffMax - 1) \div diffMax
    IN  IF Spread(vals) > diffMax
        THEN [vals EXCEPT !.priority =
                 [s \in Members(vals) |-> Quotient(@[s], ratio)]]
        ELSE vals

\* Mutant: the average is rounded up.
ShiftByAvgProposerPriority_RoundUp(vals) ==
    LET n == Cardinality(Members(vals))
        avg == (SumFunction(vals.priority) + n - 1) \div n
    IN  [vals EXCEPT !.priority = [s \in Members(vals) |-> @[s] - avg]]

\* big.Int's Div, like TLA+'s, rounds the average down.
ShiftByAvgProposerPriority(vals) ==
    LET avg == SumFunction(vals.priority) \div Cardinality(Members(vals))
    IN  [vals EXCEPT !.priority = [s \in Members(vals) |-> @[s] - avg]]

\* CompareProposerPriority: the lower address wins a tie.
ValWithMostPriority(priority) ==
    CHOOSE s \in DOMAIN priority : \A t \in DOMAIN priority :
        \/ priority[t] < priority[s]
        \/ priority[t] = priority[s] /\ s <= t

IncrementProposerPriority(vals) ==
    LET shifted == ShiftByAvgProposerPriority(RescalePriorities(vals))
        raised  == [s \in Members(vals) |-> shifted.priority[s] + vals.power[s]]
        mostest == ValWithMostPriority(raised)
    IN  [power    |-> vals.power,
         priority |-> [raised EXCEPT ![mostest] = @ - TotalVotingPower(vals)],
         proposer |-> mostest]

Updates(changes) == {s \in DOMAIN changes : changes[s] > 0}
Removals(changes) == {s \in DOMAIN changes : changes[s] = 0}

\* verifyUpdates: the total after the updates of U; removals do not count.
UpdatedTotal(vals, changes, U) ==
    TotalVotingPower(vals)
      + SumFunction([s \in U |-> IF s \in Members(vals) THEN changes[s] - vals.power[s]
                                                        ELSE changes[s]])

\* The errors of UpdateWithChangeSet.  The updates are added up in the order of
\* addresses and no partial sum may exceed the maximum.
UpdateError(vals, changes) ==
    \/ \E s \in DOMAIN changes : changes[s] > MaxTotalVotingPower
    \/ ~ Removals(changes) \subseteq Members(vals)
    \/ \E s \in Updates(changes) :
          UpdatedTotal(vals, changes, {t \in Updates(changes) : t <= s})
             > MaxTotalVotingPower
    \/ Updates(changes) \subseteq Members(vals) /\ Removals(changes) = Members(vals)

\* Mutant: newcomers start with priority zero.
NewPriority_Zero(total) == 0

\* computeNewPriorities: nobody gains by leaving and coming back.
NewPriority(total) == -(total + total \div 8)

\* applyUpdates, applyRemovals: what has power 0 goes, the rest is overridden.
Applied(power, changes) ==
    [s \in (DOMAIN power \cup Updates(changes)) \ Removals(changes) |->
        IF s \in DOMAIN changes THEN changes[s] ELSE power[s]]

UpdateWithChangeSet(vals, changes) ==
    LET total == UpdatedTotal(vals, changes, Updates(changes))
        power == Applied(vals.power, changes)
        priority == [s \in DOMAIN power |->
                        IF s \in Members(vals) THEN vals.priority[s]
                                               ELSE NewPriority(total)]
    IN  ShiftByAvgProposerPriority(RescalePriorities(
            [power |-> power, priority |-> priority, proposer |-> vals.proposer]))

-----------------------------------------------------------------------------
IsCurrentValidator(v) ==
    /\ ~v.jailed
    /\ v.start <= ackCount + 1
    /\ v.end = 0 \/ v.end > ackCount + 1
    /\ v.power > 0

CurrentValidators == {s \in DOMAIN validators : IsCurrentValidator(validators[s])}

\* Mutant: a change of power alone is not noticed.
GetUpdatedValidators_JoinLeave ==
    LET changed(s) == (s \in Members(set)) # (s \in CurrentValidators)
    IN  [s \in {s \in DOMAIN validators : changed(s)} |->
            IF s \in CurrentValidators THEN validators[s].power ELSE 0]

\* The signers that leave (power 0), come in or have another power.
GetUpdatedValidators ==
    LET changed(s) == \/ (s \in Members(set)) # (s \in CurrentValidators)
                      \/ s \in Members(set) /\ validators[s].power # set.power[s]
    IN  [s \in {s \in DOMAIN validators : changed(s)} |->
            IF s \in CurrentValidators THEN validators[s].power ELSE 0]

-----------------------------------------------------------------------------
\* InitGenesis: a new set, incremented by NewValidatorSet and by InitGenesis.
GenesisSet ==
    LET none == [power |-> [s \in {} |-> 0], priority |-> [s \in {} |-> 0],
                 proposer |-> 0]
    IN  IncrementProposerPriority(IncrementProposerPriority(
            UpdateWithChangeSet(none, GenesisPower)))

Init ==
    /\ validators = [s \in DOMAIN GenesisPower |->
                        [start |-> 0, end |-> 0, power |-> GenesisPower[s],
                         jailed |-> FALSE]]
    /\ bound = DOMAIN GenesisPower
    /\ ackCount = 0
    /\ set = GenesisSet
    /\ tendermint = GenesisPower
    /\ inBlock = FALSE
    /\ refused = FALSE

-----------------------------------------------------------------------------
(* Transactions that change validator records.                             *)

\* PostHandleMsgValidatorJoin: the power is one whatever was staked.
Join(s, start) ==
    /\ s \notin DOMAIN validators
    /\ validators' = [t \in DOMAIN validators \cup {s} |->
                         IF t = s THEN [start |-> start, end |-> 0, power |-> 1,
                                        jailed |-> FALSE]
                                  ELSE validators[t]]
    /\ bound' = bound \cup {s}
    /\ inBlock' = TRUE
    /\ UNCHANGED <<ackCount, set, tendermint, refused>>

\* PostHandleMsgSignerUpdate: the old signer's record stays, without power.
SignerUpdate(s, t) ==
    /\ s \in bound
    /\ t \notin DOMAIN validators
    /\ validators' = [u \in DOMAIN validators \cup {t} |->
                         IF u = t THEN validators[s]
                         ELSE IF u = s THEN [validators[s] EXCEPT !.end = ackCount,
                                                                  !.power = 0]
                         ELSE validators[u]]
    /\ bound' = (bound \ {s}) \cup {t}
    /\ inBlock' = TRUE
    /\ UNCHANGED <<ackCount, set, tendermint, refused>>

\* PostHandleMsgValidatorExit: the stake chain fixes the epoch.
Exit(s, end) ==
    /\ s \in bound
    /\ validators[s].end = 0
    /\ validators' = [validators EXCEPT ![s].end = end]
    /\ inBlock' = TRUE
    /\ UNCHANGED <<bound, ackCount, set, tendermint, refused>>

\* SlashInterim's amount, truncated, and Keeper.Slash with it, for one entry of
\* an acknowledged tick.  The jail flag is set either way.
Slash(s, jailed) ==
    /\ s \in bound
    /\ validators' = [validators EXCEPT ![s].power = @ - @ \div SlashDivisor,
                                        ![s].jailed = jailed]
    /\ inBlock' = TRUE
    /\ UNCHANGED <<bound, ackCount, set, tendermint, refused>>

Unjail(s) ==
    /\ s \in bound
    /\ validators[s].jailed
    /\ validators' = [validators EXCEPT ![s].jailed = FALSE]
    /\ inBlock' = TRUE
    /\ UNCHANGED <<bound, ackCount, set, tendermint, refused>>

-----------------------------------------------------------------------------
(* Rotation.                                                               *)

\* The end of PostHandleMsgCheckpointAck for the stake chain.
CheckpointAck ==
    /\ ackCount < MaxAckCount
    /\ ackCount' = ackCount + 1
    /\ set' = IncrementProposerPriority(set)
    /\ inBlock' = TRUE
    /\ UNCHANGED <<validators, bound, tendermint, refused>>

\* Mutant: the new proposer is stored, the priorities are not.
NoAck_OnCopy ==
    /\ set' = [set EXCEPT !.proposer = IncrementProposerPriority(set).proposer]
    /\ inBlock' = TRUE
    /\ UNCHANGED <<validators, bound, ackCount, tendermint, refused>>

\* The end of handleMsgCheckpointNoAck.
NoAck ==
    /\ set' = IncrementProposerPriority(set)
    /\ inBlock' = TRUE
    /\ UNCHANGED <<validators, bound, ackCount, tendermint, refused>>

-----------------------------------------------------------------------------
\* Mutant: Tendermint is told of updates that were refused.
EndBlock_TellRefused ==
    LET changes == GetUpdatedValidators
    IN  /\ inBlock
        /\ inBlock' = FALSE
        /\ refused' = UpdateError(set, changes)
        /\ set' = IF DOMAIN changes = {} \/ UpdateError(set, changes)
                  THEN set
                  ELSE IncrementProposerPriority(UpdateWithChangeSet(set, changes))
        /\ tendermint' = Applied(tendermint, changes)
        /\ UNCHANGED <<validators, bound, ackCount>>

\* app.EndBlocker: refused updates leave everything as it was, to be tried again
\* at the end of the next block.
EndBlock ==
    LET changes == GetUpdatedValidators
    IN  /\ inBlock
        /\ inBlock' = FALSE
        /\ refused' = UpdateError(set, changes)
        /\ IF DOMAIN changes = {} \/ UpdateError(set, changes)
           THEN UNCHANGED <<set, tendermint>>
           ELSE /\ set' = IncrementProposerPriority(UpdateWithChangeSet(set, changes))
                /\ tendermint' = Applied(tendermint, changes)
        /\ UNCHANGED <<validators, bound, ackCount>>

Next ==
    \/ \E s \in Signer, e \in Epochs : Join(s, e) \/ Exit(s, e)
    \/ \E s, t \in Signer : SignerUpdate(s, t)
    \/ \E s \in Signer, jailed \in BOOLEAN : Slash(s, jailed)
    \/ \E s \in Signer : Unjail(s)
    \/ CheckpointAck
    \/ NoAck
    \/ EndBlock

Spec == Init /\ [][Next]_vars

\* Blocks go on, and checkpoints are acknowledged or no-acks are sent.  Either
\* step can be taken in every state or after one step of the other.
FairSpec == Spec /\ []<><<NoAck>>_vars /\ []<><<EndBlock>>_vars
-----------------------------------------------------------------------------
(* Properties.                                                             *)

TypeOK ==
    /\ DOMAIN validators \subseteq Signer
    /\ validators \in [DOMAIN validators -> Record]
    /\ bound \subseteq DOMAIN validators
    /\ ackCount \in 0 .. MaxAckCount
    /\ Members(set) \subseteq DOMAIN validators
    /\ set \in [power: [Members(set) -> 1 .. MaxTotalVotingPower],
                priority: [Members(set) -> Int],
                proposer: Signer]
    /\ DOMAIN tendermint \subseteq Signer
    /\ tendermint \in [DOMAIN tendermint -> Nat \ {0}]
    /\ inBlock \in BOOLEAN
    /\ refused \in BOOLEAN

\* At the end of every block whose updates were not refused the set holds the
\* current validators with their power, whatever joins, exits, new signers,
\* slashes, releases and epochs came together in the block or were refused
\* before it.
SetIsCurrent ==
    ~inBlock /\ ~refused =>
        set.power = [s \in CurrentValidators |-> validators[s].power]

\* Tendermint, which only ever hears of changes, has the powers of the set, also
\* while updates are refused.
ConsensusAgrees == tendermint = set.power

\* Priorities stay centred and close together, although members and powers
\* change.  With a total of at most MaxInt64 / 8 none of them, nor what is
\* computed on the way, can reach the bounds of int64, where safeAddClip and
\* safeSubClip would favour someone.
PrioritiesBounded ==
    /\ SumFunction(set.priority) \in 0 .. Cardinality(Members(set)) - 1
    /\ Spread(set) <= (PriorityWindowSizeFactor + 1) * TotalVotingPower(set)

\* "Validators can't un-bond and then re-bond to reset their priority"
\* (computeNewPriorities): a newcomer is not the first proposer of its set when
\* the older members stay and keep their power.  (When all who were ahead leave,
\* or the total falls, it can be.)  Nor does the proposer stay when it leaves the
\* set: nobody waits for checkpoints of a validator that is gone.
OldMembersKeep ==
    \A s \in Members(set) : s \in Members(set)' /\ set.power[s] <= set'.power[s]

NewcomersWait ==
    [][/\ set'.proposer \in Members(set)'
       /\ OldMembersKeep => set'.proposer \in Members(set)]_vars

\* Once members and powers do not change any more, every member is proposer again
\* and again, however small its power and wherever the changes left it.
EverybodyProposes ==
    <>[][UNCHANGED set.power]_vars =>
        \A s \in Signer : []<>(s \in Members(set) => set.proposer = s)
===============================================================================
