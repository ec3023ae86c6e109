----------------------------- MODULE SideChannel -----------------------------
(***************************************************************************)
(* The side-transaction pipeline (app/side_tx_processor.go and the         *)
(* sidechannel module).                                                    *)
(*                                                                         *)
(* A transaction that needs a fact of a root chain is delivered in block h *)
(* and stored.  Every validator then looks at the root chain on its own    *)
(* and signs Yes or Skip.  BeginSideBlock of block h + 2 receives the      *)
(* signatures, tallies them against the validators of the last commit, and *)
(* runs the post handler with the outcome.  What is left over is run with  *)
(* Skip.                                                                   *)
(*                                                                         *)
(* The tally loop is split into one step per signature; nothing else of    *)
(* the node runs in between (phase "results").  Tendermint, which orders   *)
(* the blocks and carries the signatures, is the environment: it may drop, *)
(* repeat or reorder signatures but cannot forge one of an honest          *)
(* validator.                                                              *)
(***************************************************************************)
EXTENDS Integers, FiniteSets

CONSTANTS
    Validator,      \* addresses that can be in a validator set
    Byzantine,      \* the ones that sign whatever they like
    PowerOf,        \* PowerOf[S]: the total voting power of a set of validators
    ValidatorSets,  \* the sets a last commit may carry
    Tx,             \* side transactions (one message each, StdTx.GetMsgs)
    NoTx,           \* "no transaction"
    MaxHeight       \* bound: the number of blocks explored

\* A sum of non-negative powers (abci.Validator.Power).
ASSUME PowerAssumption ==
    /\ PowerOf \in [SUBSET Validator -> Nat]
    /\ PowerOf[{}] = 0
    /\ \A S \in SUBSET Validator, v \in Validator :
          v \notin S => PowerOf[S \cup {v}] = PowerOf[S] + PowerOf[{v}]
    /\ \A S, T \in SUBSET Validator : S \subseteq T => PowerOf[S] <= PowerOf[T]

\* Tendermint's own assumption: less than a third of the power is Byzantine.
ASSUME ByzantineAssumption ==
    /\ Byzantine \subseteq Validator
    /\ ValidatorSets \subseteq (SUBSET Validator) \ {{}}
    /\ \A vs \in ValidatorSets : 3 * PowerOf[vs \cap Byzantine] < PowerOf[vs]

ASSUME BoundAssumption == MaxHeight \in Nat /\ NoTx \notin Tx

SideTxResultType == {"Yes", "No", "Skip"}
Heights          == 1 .. MaxHeight

VARIABLES
    height,      \* ctx.BlockHeader().Height
    phase,       \* where in the block the node is
    validators,  \* sidechannel store: ValidatorsKey(height) -> validators, {} if absent
    txs,         \* sidechannel store: TxsStoreKey(height) -> stored txs
    delivered,   \* the height a tx was delivered at, 0 before
    confirmed,   \* txs whose root chain event is confirmed
    voted,       \* the results each honest validator has signed for each tx
    tally,       \* the local variables of the loop over SideTxResults
    run,         \* how often, when and with what outcome runTx was called
    effects      \* txs whose post handler's writes reached the store

vars == <<height, phase, validators, txs, delivered, confirmed, voted, tally,
          run, effects>>

Phases == {"commit", "results", "cleanup", "deliver"}

NoTally == [tx |-> NoTx, signed |-> [r \in SideTxResultType |-> 0],
            used |-> {}, yesBy |-> {}]
NotRun  == [count |-> 0, at |-> 0, result |-> "Skip", yesBy |-> {}, vals |-> {}]

TypeOK ==
    /\ height \in 0 .. MaxHeight
    /\ phase \in Phases
    /\ validators \in [Heights -> SUBSET Validator]
    /\ txs \in [Heights -> SUBSET Tx]
    /\ delivered \in [Tx -> 0 .. MaxHeight]
    /\ confirmed \subseteq Tx
    /\ voted \in [Validator -> [Tx -> SUBSET SideTxResultType]]
    /\ tally \in [tx: Tx \cup {NoTx}, signed: [SideTxResultType -> Nat],
                  used: SUBSET Validator, yesBy: SUBSET Validator]
    /\ run \in [Tx -> [count: Nat, at: 0 .. MaxHeight, result: SideTxResultType,
                       yesBy: SUBSET Validator, vals: SUBSET Validator]]
    /\ effects \subseteq Tx

Init ==
    /\ height = 0
    /\ phase = "commit"
    /\ validators = [h \in Heights |-> {}]
    /\ txs = [h \in Heights |-> {}]
    /\ delivered = [t \in Tx |-> 0]
    /\ confirmed = {}
    /\ voted = [v \in Validator |-> [t \in Tx |-> {}]]
    /\ tally = NoTally
    /\ run = [t \in Tx |-> NotRun]
    /\ effects = {}

-----------------------------------------------------------------------------
(* The root chain and the validators' observation of it.                   *)

\* External: the event a side transaction reports gets its confirmations.
Confirm(t) ==
    /\ phase = "commit"
    /\ t \notin confirmed
    /\ confirmed' = confirmed \cup {t}
    /\ UNCHANGED <<height, phase, validators, txs, delivered, voted, tally, run,
                   effects>>

\* DeliverSideTxHandler: the module's side handler runs in a context that is
\* thrown away; an error is a Skip, and a node that lags behind may not see the
\* event yet.  A restarted node evaluates, and signs, again.
SideResults(t) == IF t \in confirmed THEN {"Yes", "Skip"} ELSE {"Skip"}

DeliverSideTx(v, t) ==
    /\ phase = "commit"
    /\ v \in Validator \ Byzantine
    /\ \E h \in Heights : t \in txs[h]
    /\ \E r \in SideResults(t) :
          voted' = [voted EXCEPT ![v][t] = @ \cup {r}]
    /\ UNCHANGED <<height, phase, validators, txs, delivered, confirmed, tally,
                   run, effects>>

-----------------------------------------------------------------------------
(* The block.                                                              *)

\* sidechannel BeginBlock: the validators of the last commit, of which the
\* first block has none.
BeginBlock(vs) ==
    /\ phase = "commit"
    /\ height < MaxHeight
    /\ IF height = 0 THEN vs = {} ELSE vs \in ValidatorSets
    /\ height' = height + 1
    /\ phase' = "results"
    /\ validators' = IF vs = {} THEN validators
                                ELSE [validators EXCEPT ![height + 1] = vs]
    /\ UNCHANGED <<txs, delivered, confirmed, voted, tally, run, effects>>

\* BeginSideBlocker has nothing to do in the first two blocks or without
\* stored validators.
HasSideBlock == height > 2 /\ validators[height] # {}

SkipSideBlock ==
    /\ phase = "results"
    /\ ~HasSideBlock
    /\ phase' = "deliver"
    /\ UNCHANGED <<height, validators, txs, delivered, confirmed, voted, tally,
                   run, effects>>

TargetHeight == height - 2

\* Mutant: the tx stays in the store while its result is processed.
StartResult_KeepTx(t) ==
    /\ phase = "results"
    /\ HasSideBlock
    /\ tally = NoTally
    /\ t \in txs[TargetHeight]
    /\ tally' = [NoTally EXCEPT !.tx = t]
    /\ UNCHANGED <<height, phase, validators, txs, delivered, confirmed, voted, run,
                   effects>>

\* A SideTxResult names a stored tx: it is removed before anything runs.
StartResult(t) ==
    /\ phase = "results"
    /\ HasSideBlock
    /\ tally = NoTally
    /\ t \in txs[TargetHeight]
    /\ txs' = [txs EXCEPT ![TargetHeight] = @ \ {t}]
    /\ tally' = [NoTally EXCEPT !.tx = t]
    /\ UNCHANGED <<height, phase, validators, delivered, confirmed, voted, run,
                   effects>>

\* Mutant: no usedValidator map.
Counts_Twice(v) == v \in validators[height]

\* A signature counts when its address is in the validator set and has not
\* been counted for this tx.
Counts(v) == v \in validators[height] /\ v \notin tally.used

\* The next signature of SideTxResult.Sigs.
CountSig(v, r) ==
    /\ phase = "results"
    /\ tally.tx # NoTx
    /\ v \in Byzantine \/ r \in voted[v][tally.tx]
    /\ Counts(v)
    /\ tally' = [tally EXCEPT !.signed[r] = @ + PowerOf[{v}],
                              !.used = @ \cup {v},
                              !.yesBy = IF r = "Yes" THEN @ \cup {v} ELSE @]
    /\ UNCHANGED <<height, phase, validators, txs, delivered, confirmed, voted,
                   run, effects>>

\* Mutant: the + 1 is lost.
Threshold_TwoThirds(total) == (total * 2) \div 3

\* totalPower*2/3 + 1, in integer division.
Threshold(total) == (total * 2) \div 3 + 1

Outcome(signed, total) ==
    IF signed["Yes"] >= Threshold(total) THEN "Yes"
    ELSE IF signed["No"] >= Threshold(total) THEN "No"
    ELSE "Skip"

\* Every post handler refuses a tx that was not approved; an approved one may
\* still fail (an error or a recovered panic).
PostSucceeds(r) == IF r = "Yes" THEN BOOLEAN ELSE {FALSE}

\* runTx: the handler writes to a cached store, kept only if it succeeds.
RunTx(t, r, yesBy) ==
    \E ok \in PostSucceeds(r) :
        /\ run' = [run EXCEPT ![t] = [count |-> @.count + 1, at |-> height,
                                      result |-> r, yesBy |-> yesBy,
                                      vals |-> validators[height]]]
        /\ effects' = IF ok THEN effects \cup {t} ELSE effects

FinishResult ==
    /\ phase = "results"
    /\ tally.tx # NoTx
    /\ RunTx(tally.tx, Outcome(tally.signed, PowerOf[validators[height]]),
             tally.yesBy)
    /\ tally' = NoTally
    /\ UNCHANGED <<height, phase, validators, txs, delivered, confirmed, voted>>

EndResults ==
    /\ phase = "results"
    /\ HasSideBlock
    /\ tally = NoTally
    /\ phase' = "cleanup"
    /\ UNCHANGED <<height, validators, txs, delivered, confirmed, voted, tally,
                   run, effects>>

\* Stored txs without a SideTxResult are removed and run with Skip.
RunLeftover(t) ==
    /\ phase = "cleanup"
    /\ t \in txs[TargetHeight]
    /\ txs' = [txs EXCEPT ![TargetHeight] = @ \ {t}]
    /\ RunTx(t, "Skip", {})
    /\ UNCHANGED <<height, phase, validators, delivered, confirmed, voted, tally>>

\* Mutant: the side block ends without the clean-up of the leftovers.
EndSideBlock_NoCleanup ==
    /\ phase = "cleanup"
    /\ phase' = "deliver"
    /\ UNCHANGED <<height, validators, txs, delivered, confirmed, voted, tally,
                   run, effects>>

EndSideBlock ==
    /\ phase = "cleanup"
    /\ txs[TargetHeight] = {}
    /\ phase' = "deliver"
    /\ UNCHANGED <<height, validators, txs, delivered, confirmed, voted, tally,
                   run, effects>>

\* DeliverTx and PostDeliverTxHandler.  The account sequence admits a tx once;
\* one whose handler fails, or of the first two blocks, is not stored.
PostDeliverTx(t, ok) ==
    /\ phase = "deliver"
    /\ delivered[t] = 0
    /\ delivered' = [delivered EXCEPT ![t] = height]
    /\ txs' = IF ok /\ height > 2 THEN [txs EXCEPT ![height] = @ \cup {t}] ELSE txs
    /\ UNCHANGED <<height, phase, validators, confirmed, voted, tally, run, effects>>

\* sidechannel EndBlock forgets the block's validators; the application's
\* EndBlocker returns before it when the validator set cannot be updated.
EndBlock(updated) ==
    /\ phase = "deliver"
    /\ phase' = "commit"
    /\ validators' = IF updated THEN [validators EXCEPT ![height] = {}] ELSE validators
    /\ UNCHANGED <<height, txs, delivered, confirmed, voted, tally, run, effects>>

\* The last explored block is committed: nothing follows it.
Done ==
    /\ phase = "commit"
    /\ height = MaxHeight
    /\ UNCHANGED vars

BlockStep ==
    \/ \E vs \in ValidatorSets \cup {{}} : BeginBlock(vs)
    \/ SkipSideBlock
    \/ \E t \in Tx : StartResult(t)
    \/ FinishResult
    \/ EndResults
    \/ \E t \in Tx : RunLeftover(t)
    \/ EndSideBlock
    \/ \E updated \in BOOLEAN : EndBlock(updated)

Next ==
    \/ BlockStep
    \/ \E v \in Validator, r \in SideTxResultType : CountSig(v, r)
    \/ \E t \in Tx, ok \in BOOLEAN : PostDeliverTx(t, ok)
    \/ \E t \in Tx : Confirm(t)
    \/ \E v \in Validator, t \in Tx : DeliverSideTx(v, t)
    \/ Done

Spec == Init /\ [][Next]_vars

\* Consensus keeps producing blocks (Tendermint's liveness); nothing obliges a
\* validator to sign or a client to send.
FairSpec == Spec /\ WF_vars(BlockStep)

-----------------------------------------------------------------------------
(* Properties.                                                             *)

\* Between blocks only the txs of the last two blocks are pending: nothing is
\* forgotten in the store when its two blocks are over (BeginSideBlocker's
\* cleanup of the target height).
NoStaleTx ==
    phase = "commit" =>
        \A h \in Heights : txs[h] # {} => h \in {height - 1, height}

\* A stored tx runs at most once, whatever the SideTxResults repeat, and only
\* in the second block after the one it was delivered in.
RunsOnceOnTime ==
    \A t \in Tx :
        /\ run[t].count <= 1
        /\ run[t].count = 1 => run[t].at = delivered[t] + 2 /\ delivered[t] > 2
        /\ run[t].count = 1 => \A h \in Heights : t \notin txs[h]

\* A tx is approved exactly when distinct validators of the current set with
\* more than two thirds of its power signed Yes: no rounding and no signature
\* counted twice tips the tally.
ApprovedByQuorum ==
    \A t \in Tx :
        run[t].count > 0 =>
            /\ run[t].yesBy \subseteq run[t].vals
            /\ (run[t].result = "Yes") <=>
                  (3 * PowerOf[run[t].yesBy] > 2 * PowerOf[run[t].vals])

\* The post handler of a tx takes effect only if the root chain event it
\* reports is confirmed, even though Byzantine validators sign anything and
\* signatures are replayed.
EffectConfirmed == effects \subseteq confirmed

\* Every stored tx is eventually run: no side transaction waits forever.
EventuallyRun ==
    \A t \in Tx :
        (\E h \in 1 .. MaxHeight - 2 : t \in txs[h]) ~> (run[t].count > 0)
=============================================================================
