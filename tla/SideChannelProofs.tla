-------------------------- MODULE SideChannelProofs --------------------------
(***************************************************************************)
(* Proofs about SideChannel, for any validators, powers, validator sets    *)
(* with less than a third of Byzantine power, transactions and bound.      *)
(*                                                                         *)
(* The inductive invariant IInv says where a transaction is: not yet       *)
(* delivered, stored at the height it was delivered at, under tally two    *)
(* blocks later, or run; and what the tally's counters mean.               *)
(***************************************************************************)
EXTENDS SideChannel, TLAPS

\* Where in the block the node is.
PhaseInv ==
    /\ phase # "commit" => height > 0
    /\ phase = "cleanup" => height > 2
    /\ phase = "results" /\ height > 2 => validators[height] # {}
    /\ tally.tx # NoTx => phase = "results" /\ HasSideBlock

\* The stored validators are those of some last commit.
ValidatorsInv == \A h \in Heights : validators[h] = {} \/ validators[h] \in ValidatorSets

\* A stored tx waits at the height it was delivered at and has not run.
StoredInv ==
    \A h \in Heights : \A t \in txs[h] :
        /\ h > 2
        /\ delivered[t] = h
        /\ run[t].count = 0
        /\ tally.tx # t

\* The heights at which txs can be stored in each phase of a block.
WindowInv ==
    \A h \in Heights : txs[h] # {} =>
        /\ phase \in {"results", "cleanup"} => h \in {height - 2, height - 1}
        /\ phase \in {"deliver", "commit"}  => h \in {height - 1, height}

\* The tx under tally is two blocks old; the Yes counter is the power of the
\* distinct validators of the set that signed Yes.
TallyInv ==
    tally.tx # NoTx =>
        /\ delivered[tally.tx] > 2
        /\ delivered[tally.tx] = height - 2
        /\ run[tally.tx].count = 0
        /\ tally.used \subseteq validators[height]
        /\ tally.yesBy \subseteq tally.used
        /\ tally.signed["Yes"] = PowerOf[tally.yesBy]
        /\ \A v \in tally.yesBy \ Byzantine : "Yes" \in voted[v][tally.tx]

\* An honest validator signs Yes only for a confirmed event.
HonestInv ==
    \A v \in Validator \ Byzantine, t \in Tx :
        "Yes" \in voted[v][t] => t \in confirmed

RunInv ==
    \A t \in Tx :
        /\ run[t].count <= 1
        /\ run[t].count = 1 => run[t].at = delivered[t] + 2 /\ delivered[t] > 2

IInv == /\ TypeOK /\ PhaseInv /\ ValidatorsInv /\ StoredInv /\ WindowInv
        /\ TallyInv /\ HonestInv /\ RunInv /\ ApprovedByQuorum /\ EffectConfirmed

-----------------------------------------------------------------------------
(* Facts about quorums.                                                    *)

\* The integer threshold is the least count above two thirds.
LEMMA ThresholdExact ==
    ASSUME NEW total \in Nat, NEW yes \in Nat
    PROVE  (yes >= Threshold(total)) <=> (3 * yes > 2 * total)
  BY DEF Threshold

\* A quorum of a validator set has an honest member.
LEMMA QuorumHonest ==
    ASSUME NEW vs \in ValidatorSets, NEW S \in SUBSET vs,
           3 * PowerOf[S] > 2 * PowerOf[vs]
    PROVE  \E v \in S : v \notin Byzantine
<1>1. vs \in SUBSET Validator /\ S \in SUBSET Validator
         /\ vs \cap Byzantine \in SUBSET Validator
  BY ByzantineAssumption
<1>2. PowerOf[S] \in Nat /\ PowerOf[vs] \in Nat /\ PowerOf[vs \cap Byzantine] \in Nat
  BY <1>1, PowerAssumption
<1>3. 3 * PowerOf[vs \cap Byzantine] < PowerOf[vs]
  BY ByzantineAssumption
<1>4. SUFFICES ASSUME S \subseteq Byzantine PROVE FALSE
  OBVIOUS
<1>5. S \subseteq vs \cap Byzantine
  BY <1>4
<1>6. PowerOf[S] <= PowerOf[vs \cap Byzantine]
  BY <1>1, <1>5, PowerAssumption
<1>7. QED
  BY <1>2, <1>3, <1>6

-----------------------------------------------------------------------------
(* Initial states.                                                         *)

LEMMA InitIInv == Init => IInv
<1>1. SUFFICES ASSUME Init PROVE IInv
  OBVIOUS
<1>2. TypeOK
  BY <1>1, BoundAssumption DEF Init, TypeOK, Heights, Phases, NoTally, NotRun, SideTxResultType
<1>3. PhaseInv /\ ValidatorsInv /\ StoredInv /\ WindowInv
  BY <1>1 DEF Init, PhaseInv, ValidatorsInv, StoredInv, WindowInv, NoTally
<1>4. TallyInv /\ HonestInv /\ RunInv /\ ApprovedByQuorum /\ EffectConfirmed
  BY <1>1 DEF Init, TallyInv, HonestInv, RunInv, ApprovedByQuorum, EffectConfirmed,
              NoTally, NotRun
<1>5. QED
  BY <1>2, <1>3, <1>4 DEF IInv

-----------------------------------------------------------------------------
(* Steps outside the side block.                                           *)

LEMMA ConfirmStep ==
    ASSUME IInv, NEW t \in Tx, Confirm(t)
    PROVE  IInv'
<1>1. TypeOK'
  BY DEF IInv, TypeOK, Confirm
<1>2. PhaseInv' /\ ValidatorsInv' /\ StoredInv' /\ WindowInv' /\ TallyInv' /\ RunInv'
  BY DEF IInv, Confirm, PhaseInv, ValidatorsInv, StoredInv, WindowInv, TallyInv,
         RunInv, HasSideBlock
<1>3. HonestInv' /\ EffectConfirmed'
  BY DEF IInv, Confirm, HonestInv, EffectConfirmed
<1>4. ApprovedByQuorum'
  BY DEF IInv, Confirm, ApprovedByQuorum
<1>5. QED
  BY <1>1, <1>2, <1>3, <1>4 DEF IInv

LEMMA DeliverSideTxStep ==
    ASSUME IInv, NEW v \in Validator, NEW t \in Tx, DeliverSideTx(v, t)
    PROVE  IInv'
<1>1. PICK r \in SideResults(t) : voted' = [voted EXCEPT ![v][t] = @ \cup {r}]
  BY DEF DeliverSideTx
<1>2. r \in SideTxResultType /\ (r = "Yes" => t \in confirmed)
  BY <1>1 DEF SideResults, SideTxResultType
<1>3. TypeOK'
  BY <1>1, <1>2 DEF IInv, TypeOK, DeliverSideTx
<1>4. PhaseInv' /\ ValidatorsInv' /\ StoredInv' /\ WindowInv' /\ RunInv'
      /\ ApprovedByQuorum' /\ EffectConfirmed'
  BY DEF IInv, DeliverSideTx, PhaseInv, ValidatorsInv, StoredInv, WindowInv,
         RunInv, ApprovedByQuorum, EffectConfirmed, HasSideBlock
<1>5. TallyInv'
  <2>1. tally.tx = NoTx
    BY DEF IInv, DeliverSideTx, PhaseInv
  <2>2. QED
    BY <2>1 DEF DeliverSideTx, TallyInv
<1>6. HonestInv'
  BY <1>1, <1>2 DEF IInv, TypeOK, DeliverSideTx, HonestInv
<1>7. QED
  BY <1>3, <1>4, <1>5, <1>6 DEF IInv

LEMMA BeginBlockStep ==
    ASSUME IInv, NEW vs \in ValidatorSets \cup {{}}, BeginBlock(vs)
    PROVE  IInv'
<1>1. /\ phase = "commit" /\ phase' = "results"
      /\ height \in Nat /\ height' = height + 1 /\ height' \in Heights
      /\ tally.tx = NoTx /\ tally' = tally
  BY BoundAssumption DEF IInv, TypeOK, BeginBlock, PhaseInv, Heights
<1>2. validators' \in [Heights -> SUBSET Validator]
  BY <1>1, ByzantineAssumption DEF IInv, TypeOK, BeginBlock
<1>3. TypeOK'
  BY <1>1, <1>2 DEF IInv, TypeOK, BeginBlock, Phases, Heights
<1>4. PhaseInv'
  <2>1. height' > 2 => validators'[height'] # {}
    BY <1>1, ByzantineAssumption DEF IInv, TypeOK, BeginBlock
  <2>2. QED
    BY <1>1, <2>1 DEF PhaseInv
<1>5. ValidatorsInv'
  BY <1>1 DEF IInv, TypeOK, BeginBlock, ValidatorsInv
<1>6. StoredInv' /\ HonestInv' /\ RunInv' /\ ApprovedByQuorum' /\ EffectConfirmed'
  BY DEF IInv, BeginBlock, StoredInv, HonestInv, RunInv, ApprovedByQuorum,
         EffectConfirmed
<1>7. WindowInv'
  BY <1>1 DEF IInv, BeginBlock, WindowInv
<1>8. TallyInv'
  BY <1>1 DEF TallyInv
<1>9. QED
  BY <1>3, <1>4, <1>5, <1>6, <1>7, <1>8 DEF IInv

LEMMA PostDeliverTxStep ==
    ASSUME IInv, NEW t \in Tx, NEW ok \in BOOLEAN, PostDeliverTx(t, ok)
    PROVE  IInv'
<1>1. height \in Heights /\ phase = "deliver" /\ tally.tx = NoTx /\ delivered[t] = 0
  BY DEF IInv, TypeOK, PostDeliverTx, PhaseInv, Heights
<1>2. TypeOK'
  BY <1>1 DEF IInv, TypeOK, PostDeliverTx, Heights
<1>3. PhaseInv' /\ ValidatorsInv' /\ HonestInv' /\ ApprovedByQuorum' /\ EffectConfirmed'
  BY DEF IInv, PostDeliverTx, PhaseInv, ValidatorsInv, HonestInv, ApprovedByQuorum,
         EffectConfirmed, HasSideBlock
<1>4. run[t].count = 0
  <2>1. run[t].count \in Nat
    BY DEF IInv, TypeOK
  <2>2. run[t].count <= 1 /\ (run[t].count = 1 => delivered[t] > 2)
    BY DEF IInv, RunInv
  <2>3. QED
    BY <1>1, <2>1, <2>2
<1>5. StoredInv'
  <2>1. SUFFICES ASSUME NEW h \in Heights, NEW u \in txs'[h]
                 PROVE  h > 2 /\ delivered'[u] = h /\ run[u].count = 0
    BY <1>1, <1>2, BoundAssumption DEF TypeOK, PostDeliverTx, StoredInv
  <2>2. CASE u \in txs[h]
    <3>1. h > 2 /\ delivered[u] = h /\ run[u].count = 0 /\ h \in Nat
      BY <2>2 DEF IInv, StoredInv, Heights
    <3>2. u # t
      BY <1>1, <3>1
    <3>3. QED
      BY <3>1, <3>2 DEF PostDeliverTx
  <2>3. CASE u \notin txs[h]
    <3>1. u = t /\ h = height /\ height > 2
      BY <1>1, <2>1, <2>3 DEF IInv, TypeOK, PostDeliverTx
    <3>2. QED
      BY <1>4, <3>1 DEF IInv, TypeOK, PostDeliverTx
  <2>4. QED
    BY <2>2, <2>3
<1>6. WindowInv'
  BY <1>1 DEF IInv, TypeOK, PostDeliverTx, WindowInv
<1>7. TallyInv'
  BY <1>1 DEF PostDeliverTx, TallyInv
<1>8. RunInv'
  BY <1>1, <1>4 DEF IInv, TypeOK, PostDeliverTx, RunInv
<1>9. QED
  BY <1>2, <1>3, <1>5, <1>6, <1>7, <1>8 DEF IInv

LEMMA EndBlockStep ==
    ASSUME IInv, NEW updated \in BOOLEAN, EndBlock(updated)
    PROVE  IInv'
<1>1. phase = "deliver" /\ phase' = "commit" /\ tally.tx = NoTx /\ height \in Heights
  BY DEF IInv, TypeOK, EndBlock, PhaseInv, Heights
<1>2. TypeOK'
  BY <1>1 DEF IInv, TypeOK, EndBlock, Phases
<1>3. PhaseInv' /\ TallyInv'
  BY <1>1 DEF EndBlock, PhaseInv, TallyInv
<1>4. ValidatorsInv'
  BY <1>1 DEF IInv, TypeOK, EndBlock, ValidatorsInv
<1>5. StoredInv' /\ HonestInv' /\ RunInv' /\ ApprovedByQuorum' /\ EffectConfirmed'
  BY DEF IInv, EndBlock, StoredInv, HonestInv, RunInv, ApprovedByQuorum,
         EffectConfirmed
<1>6. WindowInv'
  BY <1>1 DEF IInv, EndBlock, WindowInv
<1>7. QED
  BY <1>2, <1>3, <1>4, <1>5, <1>6 DEF IInv

-----------------------------------------------------------------------------
(* Steps of the side block.                                                *)

LEMMA SkipSideBlockStep ==
    ASSUME IInv, SkipSideBlock
    PROVE  IInv'
<1>1. /\ phase = "results" /\ phase' = "deliver" /\ tally.tx = NoTx
      /\ height \in Heights /\ ~(height > 2)
  BY DEF IInv, TypeOK, SkipSideBlock, PhaseInv, HasSideBlock, Heights
<1>2. TypeOK'
  BY <1>1 DEF IInv, TypeOK, SkipSideBlock, Phases
<1>3. PhaseInv' /\ TallyInv'
  BY <1>1 DEF SkipSideBlock, PhaseInv, TallyInv, Heights
<1>4. ValidatorsInv' /\ StoredInv' /\ HonestInv' /\ RunInv' /\ ApprovedByQuorum'
      /\ EffectConfirmed'
  BY DEF IInv, SkipSideBlock, ValidatorsInv, StoredInv, HonestInv, RunInv,
         ApprovedByQuorum, EffectConfirmed
<1>5. WindowInv'
  <2>1. SUFFICES ASSUME NEW h \in Heights, txs[h] # {} PROVE FALSE
    BY DEF SkipSideBlock, WindowInv
  <2>2. h > 2
    BY <2>1 DEF IInv, StoredInv
  <2>3. h \in {height - 2, height - 1}
    BY <1>1, <2>1 DEF IInv, WindowInv
  <2>4. QED
    BY <1>1, <2>2, <2>3 DEF Heights
<1>6. QED
  BY <1>2, <1>3, <1>4, <1>5 DEF IInv

LEMMA StartResultStep ==
    ASSUME IInv, NEW t \in Tx, StartResult(t)
    PROVE  IInv'
<1>1. /\ phase = "results" /\ height \in Heights /\ height > 2
      /\ validators[height] # {} /\ TargetHeight \in Heights
      /\ t \in txs[TargetHeight] /\ t # NoTx /\ tally.tx = NoTx
  BY BoundAssumption DEF IInv, TypeOK, StartResult, HasSideBlock, PhaseInv,
     TargetHeight, Heights, NoTally
<1>2. /\ tally'.tx = t /\ tally'.used = {} /\ tally'.yesBy = {}
      /\ tally'.signed = [r \in SideTxResultType |-> 0]
  BY DEF StartResult, NoTally
<1>3. /\ TargetHeight > 2 /\ delivered[t] = TargetHeight /\ run[t].count = 0
  BY <1>1 DEF IInv, StoredInv
<1>4. TypeOK'
  BY <1>1 DEF IInv, TypeOK, StartResult, NoTally
<1>5. PhaseInv'
  BY <1>1 DEF StartResult, PhaseInv, HasSideBlock, Heights
<1>6. ValidatorsInv' /\ HonestInv' /\ RunInv' /\ ApprovedByQuorum' /\ EffectConfirmed'
  BY DEF IInv, StartResult, ValidatorsInv, HonestInv, RunInv, ApprovedByQuorum,
         EffectConfirmed
<1>7. StoredInv'
  <2>1. SUFFICES ASSUME NEW h \in Heights, NEW u \in txs'[h]
                 PROVE  h > 2 /\ delivered[u] = h /\ run[u].count = 0 /\ u # t
    BY <1>2 DEF StartResult, StoredInv
  <2>2. u \in txs[h] /\ (h = TargetHeight => u # t)
    BY <1>1, <2>1 DEF IInv, TypeOK, StartResult
  <2>3. h > 2 /\ delivered[u] = h /\ run[u].count = 0
    BY <2>2 DEF IInv, StoredInv
  <2>4. QED
    BY <1>3, <2>2, <2>3
<1>8. WindowInv'
  BY <1>1 DEF IInv, TypeOK, StartResult, WindowInv
<1>9. TallyInv'
  <2>1. delivered[t] = height - 2 /\ delivered[t] > 2
    BY <1>3 DEF TargetHeight
  <2>2. tally'.signed["Yes"] = PowerOf[tally'.yesBy]
    BY <1>2, PowerAssumption DEF SideTxResultType
  <2>3. QED
    BY <1>2, <1>3, <2>1, <2>2 DEF StartResult, TallyInv
<1>10. QED
  BY <1>4, <1>5, <1>6, <1>7, <1>8, <1>9 DEF IInv

LEMMA CountSigStep ==
    ASSUME IInv, NEW v \in Validator, NEW r \in SideTxResultType, CountSig(v, r)
    PROVE  IInv'
<1>1. /\ phase = "results" /\ tally.tx # NoTx /\ tally.tx \in Tx
      /\ v \in Byzantine \/ r \in voted[v][tally.tx]
      /\ v \in validators[height] /\ v \notin tally.used
  BY DEF IInv, TypeOK, CountSig, Counts
<1>2. /\ tally.signed \in [SideTxResultType -> Nat]
      /\ tally.used \in SUBSET Validator /\ tally.yesBy \in SUBSET Validator
  BY DEF IInv, TypeOK
<1>3. PowerOf[{v}] \in Nat
  BY PowerAssumption
<1>4. /\ tally'.tx = tally.tx /\ tally'.used = tally.used \cup {v}
      /\ tally'.signed = [tally.signed EXCEPT ![r] = @ + PowerOf[{v}]]
      /\ tally'.yesBy = IF r = "Yes" THEN tally.yesBy \cup {v} ELSE tally.yesBy
  BY DEF IInv, TypeOK, CountSig
<1>5. TypeOK'
  <2>1. tally'.signed \in [SideTxResultType -> Nat]
    BY <1>2, <1>3, <1>4
  <2>2. tally' = [tx |-> tally'.tx, signed |-> tally'.signed, used |-> tally'.used,
                  yesBy |-> tally'.yesBy]
    BY DEF IInv, TypeOK, CountSig
  <2>3. tally' \in [tx: Tx \cup {NoTx}, signed: [SideTxResultType -> Nat],
                    used: SUBSET Validator, yesBy: SUBSET Validator]
    BY <1>1, <1>2, <1>4, <2>1, <2>2
  <2>4. QED
    BY <2>3 DEF IInv, TypeOK, CountSig
<1>6. PhaseInv' /\ ValidatorsInv' /\ StoredInv' /\ WindowInv' /\ HonestInv' /\ RunInv'
      /\ ApprovedByQuorum' /\ EffectConfirmed'
  BY <1>4 DEF IInv, CountSig, PhaseInv, HasSideBlock, ValidatorsInv, StoredInv,
              WindowInv, HonestInv, RunInv, ApprovedByQuorum, EffectConfirmed
<1>7. TallyInv'
  <2>1. /\ tally.used \subseteq validators[height] /\ tally.yesBy \subseteq tally.used
        /\ tally.signed["Yes"] = PowerOf[tally.yesBy]
        /\ \A w \in tally.yesBy \ Byzantine : "Yes" \in voted[w][tally.tx]
        /\ delivered[tally.tx] > 2 /\ delivered[tally.tx] = height - 2
        /\ run[tally.tx].count = 0
    BY <1>1 DEF IInv, TallyInv
  <2>2. tally'.signed["Yes"] = PowerOf[tally'.yesBy]
    <3>1. CASE r = "Yes"
      <4>1. v \notin tally.yesBy
        BY <1>1, <2>1
      <4>2. PowerOf[tally.yesBy \cup {v}] = PowerOf[tally.yesBy] + PowerOf[{v}]
        BY <1>2, <4>1, PowerAssumption
      <4>3. QED
        BY <1>2, <1>4, <2>1, <3>1, <4>2 DEF SideTxResultType
    <3>2. CASE r # "Yes"
      BY <1>2, <1>4, <2>1, <3>2 DEF SideTxResultType
    <3>3. QED
      BY <3>1, <3>2
  <2>3. \A w \in tally'.yesBy \ Byzantine : "Yes" \in voted[w][tally.tx]
    BY <1>1, <1>4, <2>1
  <2>4. tally'.used \subseteq validators[height] /\ tally'.yesBy \subseteq tally'.used
    BY <1>1, <1>4, <2>1
  <2>5. QED
    BY <1>4, <2>1, <2>2, <2>3, <2>4 DEF CountSig, TallyInv
<1>8. QED
  BY <1>5, <1>6, <1>7 DEF IInv

LEMMA FinishResultStep ==
    ASSUME IInv, FinishResult
    PROVE  IInv'
<1> DEFINE t == tally.tx
           vs == validators[height]
           r  == Outcome(tally.signed, PowerOf[vs])
<1>1. /\ phase = "results" /\ t \in Tx /\ height \in Heights /\ height > 2 /\ vs # {}
      /\ vs \in ValidatorSets /\ vs \in SUBSET Validator
  <2>1. phase = "results" /\ t \in Tx /\ height > 2 /\ vs # {}
    BY DEF IInv, TypeOK, FinishResult, PhaseInv, HasSideBlock
  <2>2. height \in Heights
    BY <2>1, BoundAssumption DEF IInv, TypeOK, Heights
  <2>3. QED
    BY <2>1, <2>2 DEF IInv, TypeOK, ValidatorsInv
<1>2. /\ delivered[t] > 2 /\ delivered[t] = height - 2 /\ run[t].count = 0
      /\ tally.yesBy \subseteq vs /\ tally.signed["Yes"] = PowerOf[tally.yesBy]
      /\ \A v \in tally.yesBy \ Byzantine : "Yes" \in voted[v][t]
  BY <1>1 DEF IInv, TallyInv, FinishResult
<1>3. PowerOf[vs] \in Nat /\ PowerOf[tally.yesBy] \in Nat
  BY <1>1, <1>2, PowerAssumption
<1>4. r \in SideTxResultType
  BY DEF Outcome, SideTxResultType
<1>5. (r = "Yes") <=> (3 * PowerOf[tally.yesBy] > 2 * PowerOf[vs])
  <2>1. (r = "Yes") <=> (tally.signed["Yes"] >= Threshold(PowerOf[vs]))
    BY DEF Outcome
  <2>2. QED
    BY <1>2, <1>3, <2>1, ThresholdExact
<1>6. /\ run' = [run EXCEPT ![t] = [count |-> @.count + 1, at |-> height, result |-> r,
                                   yesBy |-> tally.yesBy, vals |-> vs]]
      /\ effects' = effects \/ (r = "Yes" /\ effects' = effects \cup {t})
  BY DEF FinishResult, RunTx, PostSucceeds
<1>7. /\ run'[t] = [count |-> 1, at |-> height, result |-> r,
                   yesBy |-> tally.yesBy, vals |-> vs]
      /\ \A u \in Tx \ {t} : run'[u] = run[u]
  BY <1>1, <1>2, <1>6 DEF IInv, TypeOK
<1>8. TypeOK'
  <2>1. run' \in [Tx -> [count: Nat, at: 0 .. MaxHeight, result: SideTxResultType,
                        yesBy: SUBSET Validator, vals: SUBSET Validator]]
    <3>1. run'[t] \in [count: Nat, at: 0 .. MaxHeight, result: SideTxResultType,
                      yesBy: SUBSET Validator, vals: SUBSET Validator]
      BY <1>1, <1>2, <1>4, <1>7 DEF Heights
    <3>2. QED
      BY <1>1, <1>6, <1>7, <3>1 DEF IInv, TypeOK
  <2>2. effects' \subseteq Tx
    BY <1>1, <1>6 DEF IInv, TypeOK
  <2>3. QED
    BY <2>1, <2>2 DEF IInv, TypeOK, FinishResult, NoTally
<1>9. PhaseInv' /\ ValidatorsInv' /\ WindowInv' /\ HonestInv' /\ TallyInv'
  BY <1>1 DEF IInv, FinishResult, PhaseInv, HasSideBlock, ValidatorsInv, WindowInv,
              HonestInv, TallyInv, NoTally
<1>10. StoredInv'
  <2>1. SUFFICES ASSUME NEW h \in Heights, NEW u \in txs[h]
                 PROVE  h > 2 /\ delivered[u] = h /\ run'[u].count = 0 /\ NoTx # u
    BY DEF FinishResult, StoredInv, NoTally
  <2>2. h > 2 /\ delivered[u] = h /\ run[u].count = 0 /\ u # t /\ u \in Tx
    BY DEF IInv, TypeOK, StoredInv
  <2>3. QED
    BY <1>7, <2>2, BoundAssumption
<1>11. RunInv'
  <2>1. height = delivered[t] + 2
    BY <1>1, <1>2 DEF IInv, TypeOK
  <2>2. QED
    BY <1>2, <1>7, <2>1 DEF IInv, FinishResult, RunInv
<1>12. ApprovedByQuorum'
  BY <1>2, <1>5, <1>7 DEF IInv, ApprovedByQuorum
<1>13. EffectConfirmed'
  <2>1. r = "Yes" => t \in confirmed
    <3>1. SUFFICES ASSUME r = "Yes" PROVE t \in confirmed
      OBVIOUS
    <3>2. PICK v \in tally.yesBy : v \notin Byzantine
      BY <1>1, <1>2, <1>5, <3>1, QuorumHonest
    <3>3. "Yes" \in voted[v][t] /\ v \in Validator
      BY <1>1, <1>2, <3>2
    <3>4. QED
      BY <1>1, <3>2, <3>3 DEF IInv, HonestInv
  <2>2. QED
    BY <1>6, <2>1 DEF IInv, FinishResult, EffectConfirmed
<1>14. QED
  BY <1>8, <1>9, <1>10, <1>11, <1>12, <1>13 DEF IInv

LEMMA EndResultsStep ==
    ASSUME IInv, EndResults
    PROVE  IInv'
<1>1. phase = "results" /\ phase' = "cleanup" /\ tally.tx = NoTx /\ height > 2
  BY DEF EndResults, HasSideBlock, NoTally
<1>2. TypeOK'
  BY <1>1 DEF IInv, TypeOK, EndResults, Phases
<1>3. PhaseInv' /\ WindowInv' /\ TallyInv'
  BY <1>1 DEF IInv, EndResults, PhaseInv, WindowInv, TallyInv
<1>4. ValidatorsInv' /\ StoredInv' /\ HonestInv' /\ RunInv' /\ ApprovedByQuorum'
      /\ EffectConfirmed'
  BY DEF IInv, EndResults, ValidatorsInv, StoredInv, HonestInv, RunInv,
         ApprovedByQuorum, EffectConfirmed
<1>5. QED
  BY <1>2, <1>3, <1>4 DEF IInv

LEMMA RunLeftoverStep ==
    ASSUME IInv, NEW t \in Tx, RunLeftover(t)
    PROVE  IInv'
<1>1. /\ phase = "cleanup" /\ height \in Heights /\ height > 2 /\ tally.tx = NoTx
      /\ TargetHeight \in Heights /\ TargetHeight = height - 2 /\ t \in txs[TargetHeight]
      /\ validators[height] \in SUBSET Validator
  <2>1. /\ phase = "cleanup" /\ height > 2 /\ tally.tx = NoTx
        /\ TargetHeight = height - 2 /\ t \in txs[TargetHeight]
    BY DEF IInv, RunLeftover, PhaseInv, TargetHeight
  <2>2. height \in Heights /\ height - 2 \in Heights
    BY <2>1, BoundAssumption DEF IInv, TypeOK, Heights
  <2>3. QED
    BY <2>1, <2>2 DEF IInv, TypeOK
<1>2. delivered[t] = height - 2 /\ delivered[t] > 2 /\ run[t].count = 0
  BY <1>1 DEF IInv, StoredInv
<1>3. /\ run' = [run EXCEPT ![t] = [count |-> @.count + 1, at |-> height,
                                   result |-> "Skip", yesBy |-> {},
                                   vals |-> validators[height]]]
      /\ effects' = effects
  BY DEF RunLeftover, RunTx, PostSucceeds
<1>3a. /\ run'[t] = [count |-> 1, at |-> height, result |-> "Skip",
                    yesBy |-> {}, vals |-> validators[height]]
       /\ \A u \in Tx \ {t} : run'[u] = run[u]
  BY <1>2, <1>3 DEF IInv, TypeOK
<1>4. TypeOK'
  <2>1. run'[t] \in [count: Nat, at: 0 .. MaxHeight, result: SideTxResultType,
                    yesBy: SUBSET Validator, vals: SUBSET Validator]
    BY <1>1, <1>3, <1>3a DEF Heights, SideTxResultType
  <2>2. run' \in [Tx -> [count: Nat, at: 0 .. MaxHeight, result: SideTxResultType,
                        yesBy: SUBSET Validator, vals: SUBSET Validator]]
    BY <1>3, <1>3a, <2>1 DEF IInv, TypeOK
  <2>3. QED
    BY <1>1, <1>3, <1>3a, <2>2 DEF IInv, TypeOK, RunLeftover
<1>5. PhaseInv' /\ ValidatorsInv' /\ HonestInv' /\ EffectConfirmed' /\ TallyInv'
  BY <1>1, <1>3, <1>3a DEF IInv, RunLeftover, PhaseInv, HasSideBlock, ValidatorsInv,
                    HonestInv, EffectConfirmed, TallyInv
<1>6. StoredInv'
  <2>1. SUFFICES ASSUME NEW h \in Heights, NEW u \in txs'[h]
                 PROVE  h > 2 /\ delivered[u] = h /\ run'[u].count = 0 /\ tally.tx # u
    BY DEF RunLeftover, StoredInv
  <2>2. u \in txs[h] /\ u \in Tx /\ (h = TargetHeight => u # t)
    BY <1>1, <2>1 DEF IInv, TypeOK, RunLeftover
  <2>3. h > 2 /\ delivered[u] = h /\ run[u].count = 0 /\ tally.tx # u
    BY <2>2 DEF IInv, StoredInv
  <2>4. u # t
    BY <1>1, <1>2, <2>2, <2>3
  <2>5. QED
    BY <1>3, <1>3a, <2>2, <2>3, <2>4
<1>7. WindowInv'
  BY <1>1 DEF IInv, TypeOK, RunLeftover, WindowInv
<1>8. RunInv'
  <2>1. height = delivered[t] + 2
    BY <1>1, <1>2 DEF IInv, TypeOK
  <2>2. QED
    BY <1>2, <1>3, <1>3a, <2>1 DEF IInv, RunLeftover, RunInv
<1>9. ApprovedByQuorum'
  <2>1. ~(3 * PowerOf[{}] > 2 * PowerOf[validators[height]])
    BY <1>1, PowerAssumption
  <2>2. QED
    BY <1>3, <1>3a, <2>1 DEF IInv, ApprovedByQuorum
<1>10. QED
  BY <1>4, <1>5, <1>6, <1>7, <1>8, <1>9 DEF IInv

LEMMA EndSideBlockStep ==
    ASSUME IInv, EndSideBlock
    PROVE  IInv'
<1>1. /\ phase = "cleanup" /\ phase' = "deliver" /\ tally.tx = NoTx /\ height > 2
      /\ txs[height - 2] = {}
  BY DEF IInv, EndSideBlock, PhaseInv, TargetHeight
<1>2. TypeOK'
  BY <1>1 DEF IInv, TypeOK, EndSideBlock, Phases
<1>3. PhaseInv' /\ TallyInv'
  BY <1>1 DEF IInv, TypeOK, EndSideBlock, PhaseInv, TallyInv
<1>4. ValidatorsInv' /\ StoredInv' /\ HonestInv' /\ RunInv' /\ ApprovedByQuorum'
      /\ EffectConfirmed'
  BY DEF IInv, EndSideBlock, ValidatorsInv, StoredInv, HonestInv, RunInv,
         ApprovedByQuorum, EffectConfirmed
<1>5. WindowInv'
  BY <1>1 DEF IInv, EndSideBlock, WindowInv
<1>6. QED
  BY <1>2, <1>3, <1>4, <1>5 DEF IInv

-----------------------------------------------------------------------------
(* The theorems.                                                           *)

LEMMA StepIInv == IInv /\ [Next]_vars => IInv'
<1>1. SUFFICES ASSUME IInv, [Next]_vars PROVE IInv'
  OBVIOUS
<1>2. CASE UNCHANGED vars
  BY <1>1, <1>2 DEF vars, IInv, TypeOK, PhaseInv, HasSideBlock, ValidatorsInv, StoredInv,
     WindowInv, TallyInv, HonestInv, RunInv, ApprovedByQuorum, EffectConfirmed
<1>3. CASE BlockStep
  BY <1>1, <1>3, BeginBlockStep, SkipSideBlockStep, StartResultStep, FinishResultStep,
     EndResultsStep, RunLeftoverStep, EndSideBlockStep, EndBlockStep DEF BlockStep
<1>4. CASE Next /\ ~BlockStep
  BY <1>1, <1>2, <1>4, CountSigStep, PostDeliverTxStep, ConfirmStep, DeliverSideTxStep
     DEF Next, Done
<1>5. QED
  BY <1>1, <1>2, <1>3, <1>4

LEMMA InvariantIInv == Spec => []IInv
  BY InitIInv, StepIInv, PTL DEF Spec

\* The variables of the pipeline keep their types.
THEOREM TypeCorrect == Spec => []TypeOK
<1>1. IInv => TypeOK
  BY DEF IInv
<1>2. QED
  BY <1>1, InvariantIInv, PTL

\* BeginSideBlocker leaves nothing older than two blocks in the store.
THEOREM NothingStale == Spec => []NoStaleTx
<1>1. IInv => NoStaleTx
  BY DEF IInv, WindowInv, NoStaleTx
<1>2. QED
  BY <1>1, InvariantIInv, PTL

\* A side transaction runs at most once, in its block plus two.
THEOREM ExactlyOnce == Spec => []RunsOnceOnTime
<1>1. IInv => RunsOnceOnTime
  BY DEF IInv, StoredInv, RunInv, RunsOnceOnTime
<1>2. QED
  BY <1>1, InvariantIInv, PTL

\* The integer tally approves exactly on a two-thirds quorum of signers.
THEOREM QuorumSound == Spec => []ApprovedByQuorum
<1>1. IInv => ApprovedByQuorum
  BY DEF IInv
<1>2. QED
  BY <1>1, InvariantIInv, PTL

\* With less than a third of Byzantine power, a post handler takes effect only
\* for a confirmed root chain event.
THEOREM OnlyConfirmedEffects == Spec => []EffectConfirmed
<1>1. IInv => EffectConfirmed
  BY DEF IInv
<1>2. QED
  BY <1>1, InvariantIInv, PTL
=============================================================================
