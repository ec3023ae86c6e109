----------------------------- MODULE StakingProofs -----------------------------
(***************************************************************************)
(* Proofs about Staking, for any validators, signers, root chains, buffer  *)
(* time and bounds.                                                        *)
(*                                                                         *)
(* The post handlers check neither the nonce nor the validator's ID again. *)
(* That they apply the right event follows from three facts together: an   *)
(* event that waits in the pipe is at most one ahead of the store          *)
(* (PipeInv), all earlier ones are marked as seen                          *)
(* (StoreMirrorsStakeChain), and the stake chain uses a signer for one     *)
(* validator only (FreshInv).                                              *)
(***************************************************************************)
EXTENDS Staking, SequenceTheorems, TLAPS

\* How the stake chain's events of a validator follow each other.
EventsInv ==
    \A id \in ValidatorID, n \in Nonces :
        n <= l1Nonce[id] =>
            LET e == events[id][n] IN
            /\ e \in Event
            /\ e.type = "validatorJoin" <=> n = 1
            /\ e.type = "validatorJoin" => e.endEpoch = 0
            /\ e.type = "signerUpdate" =>
                  /\ e.signer # events[id][n - 1].signer
                  /\ e.startEpoch = events[id][n - 1].startEpoch
                  /\ e.endEpoch = events[id][n - 1].endEpoch
            /\ e.type = "validatorExit" =>
                  /\ e.signer = events[id][n - 1].signer
                  /\ e.startEpoch = events[id][n - 1].startEpoch

\* A signer belongs to one validator.
FreshInv ==
    \A i, j \in ValidatorID, n, k \in Nonces :
        n <= l1Nonce[i] /\ k <= l1Nonce[j] /\ events[i][n].signer = events[j][k].signer
            => i = j

\* The signer of an ID has a record of that ID.
SignerInv ==
    \A id \in ValidatorID :
        /\ signerOf[id] # None => /\ validators[signerOf[id]] # None
                                  /\ validators[signerOf[id]].id = id
        /\ id \in Genesis => signerOf[id] # None

\* An event on its way exists, and is at most the next one.
PipeInv ==
    \A k \in 0 .. 2 : \A m \in pipe[k] :
        m.type = "event" => /\ m.nonce <= l1Nonce[m.id]
                            /\ m.nonce <= Nonce(m.id) + 1
                            /\ m.nonce = 1 => m.id \notin Genesis

\* No other root chain's contract is ahead of the store.
SyncedInv ==
    \A r \in SyncRoot, id \in ValidatorID : synced[r][id] <= Nonce(id)

IInv == /\ TypeOK /\ EventsInv /\ FreshInv /\ SignerInv /\ PipeInv /\ SyncedInv
        /\ StoreMirrorsStakeChain /\ OneSignerWithPower /\ QueueHoldsUnsynced

-----------------------------------------------------------------------------
(* Facts about the operators.                                              *)

\* The records of the store.
LEMMA StoreTypes ==
    ASSUME TypeOK, SignerInv, NEW id \in ValidatorID
    PROVE  /\ HasValidator(id) <=> signerOf[id] # None
           /\ HasValidator(id) => /\ signerOf[id] \in Signer
                                  /\ ValidatorOf(id) \in Validator
                                  /\ ValidatorOf(id).id = id
                                  /\ Nonce(id) = ValidatorOf(id).nonce
                                  /\ Nonce(id) \in Nonces
           /\ ~ HasValidator(id) => Nonce(id) = 0
           /\ Nonce(id) \in 0 .. MaxNonce
<1>1. HasValidator(id) <=> signerOf[id] # None
  BY DEF HasValidator, SignerInv
<1>2. ASSUME HasValidator(id)
      PROVE  /\ signerOf[id] \in Signer /\ ValidatorOf(id) \in Validator
             /\ ValidatorOf(id).id = id
  <2>1. signerOf[id] \in Signer
    BY <1>1, <1>2 DEF TypeOK
  <2>2. validators[signerOf[id]] \in Validator
    BY <1>2, <2>1 DEF TypeOK, HasValidator
  <2>3. QED
    BY <1>1, <1>2, <2>1, <2>2 DEF SignerInv, ValidatorOf
<1>3. HasValidator(id) => Nonce(id) = ValidatorOf(id).nonce /\ Nonce(id) \in Nonces
  BY <1>2 DEF Nonce, Validator
<1>4. ~ HasValidator(id) => Nonce(id) = 0
  BY DEF Nonce
<1>5. Nonce(id) \in 0 .. MaxNonce
  BY <1>3, <1>4, BoundAssumption DEF Nonces
<1>6. QED
  BY <1>1, <1>2, <1>3, <1>4, <1>5

\* Where signer and record of an ID are untouched, its nonce is.
LEMMA NonceUnchanged ==
    ASSUME TypeOK, NEW id \in ValidatorID, signerOf'[id] = signerOf[id],
           signerOf[id] # None => validators'[signerOf[id]] = validators[signerOf[id]]
    PROVE  Nonce(id)' = Nonce(id) /\ HasValidator(id)' = HasValidator(id)
  BY DEF Nonce, HasValidator, ValidatorOf

\* A message's fields.
LEMMA MsgFields ==
    ASSUME NEW m \in Msg
    PROVE  /\ m.id \in ValidatorID /\ m.nonce \in Nonces
           /\ m.type \in {"event", "sync", "syncAck"}
           /\ m.type = "event" => m \in EventMsg
           /\ m.type # "event" => m \in SyncMsg /\ m.root \in SyncRoot
           /\ SequenceOf(m) \in Sequence
  BY DEF Msg, EventMsg, SyncMsg, SequenceOf, Sequence

\* An event that was not seen is the next one.
LEMMA NextEvent ==
    ASSUME IInv, NEW m \in pipe[2], m.type = "event", SequenceOf(m) \notin sequences
    PROVE  /\ m \in Msg /\ m.id \in ValidatorID /\ m.nonce \in Nonces
           /\ m.nonce = Nonce(m.id) + 1
           /\ m.nonce <= l1Nonce[m.id]
           /\ EventOf(m) \in Event
<1>1. m \in Msg /\ 2 \in 0 .. 2
  BY DEF IInv, TypeOK
<1>2. m.id \in ValidatorID /\ m.nonce \in Nonces
  BY <1>1, MsgFields
<1>3. /\ m.nonce <= l1Nonce[m.id] /\ m.nonce <= Nonce(m.id) + 1
      /\ m.nonce = 1 => m.id \notin Genesis
  BY <1>1 DEF IInv, PipeInv
<1>4. ~ (m.nonce <= Nonce(m.id))
  BY <1>2, <1>3 DEF IInv, StoreMirrorsStakeChain, SequenceOf
<1>5. Nonce(m.id) \in 0 .. MaxNonce
  BY <1>2, StoreTypes DEF IInv
<1>6. m.nonce = Nonce(m.id) + 1
  BY <1>2, <1>3, <1>4, <1>5, BoundAssumption DEF Nonces
<1>7. EventOf(m) \in Event
  BY <1>2, <1>3 DEF IInv, EventsInv, EventOf
<1>8. QED
  BY <1>1, <1>2, <1>3, <1>6, <1>7

-----------------------------------------------------------------------------
(* Initial states.                                                         *)

LEMMA InitNonce ==
    ASSUME Init, NEW id \in ValidatorID
    PROVE  /\ Nonce(id) = IF id \in Genesis THEN 1 ELSE 0
           /\ signerOf[id] = IF id \in Genesis THEN GenesisSigner[id] ELSE None
           /\ id \in Genesis =>
                 /\ GenesisSigner[id] \in Signer
                 /\ validators[GenesisSigner[id]] =
                       [id |-> id, startEpoch |-> 0, endEpoch |-> 0, nonce |-> 1,
                        votingPower |-> 1]
                 /\ validators[GenesisSigner[id]] # None
<1>1. signerOf[id] = IF id \in Genesis THEN GenesisSigner[id] ELSE None
  BY DEF Init
<1>2. CASE id \in Genesis
  <2> DEFINE s == GenesisSigner[id]
             v(i) == [id |-> i, startEpoch |-> 0, endEpoch |-> 0, nonce |-> 1,
                      votingPower |-> 1]
  <2>1. s \in Signer
    BY <1>2, GenesisAssumption
  <2>2. (CHOOSE i \in Genesis : GenesisSigner[i] = s) = id
    BY <1>2, GenesisAssumption
  <2>3. validators[s] = v(CHOOSE i \in Genesis : GenesisSigner[i] = s)
    BY <1>2, <2>1 DEF Init
  <2>4. validators[s] = v(id)
    BY <2>2, <2>3
  <2>5. v(id) \in Validator
    BY BoundAssumption DEF Validator, Epoch, Nonces
  <2>6. validators[s] # None
    BY <2>4, <2>5, NoneAssumption
  <2>7. Nonce(id) = 1
    BY <1>1, <1>2, <2>1, <2>4, <2>6, NoneAssumption DEF Nonce, HasValidator, ValidatorOf
  <2>8. QED
    BY <1>1, <1>2, <2>1, <2>4, <2>6, <2>7
<1>3. CASE id \notin Genesis
  BY <1>1, <1>3 DEF Nonce, HasValidator
<1>4. QED
  BY <1>2, <1>3

LEMMA InitIInv == Init => IInv
<1>1. SUFFICES ASSUME Init PROVE IInv
  OBVIOUS
<1>2. 1 \in Nonces /\ 0 \in Epoch /\ 1 \in 0 .. MaxNonce /\ 0 \in 0 .. MaxNonce
  BY BoundAssumption DEF Nonces, Epoch
<1>3. TypeOK
  <2>1. \A s \in Signer : validators[s] \in Validator \cup {None}
    <3>1. TAKE s \in Signer
    <3>2. (\E id \in Genesis : GenesisSigner[id] = s) =>
             (CHOOSE id \in Genesis : GenesisSigner[id] = s) \in Genesis
      OBVIOUS
    <3>3. QED
      BY <1>1, <1>2, <3>2, GenesisAssumption DEF Init, Validator
  <2>2. validators \in [Signer -> Validator \cup {None}]
    BY <1>1, <2>1 DEF Init
  <2>3. events \in [ValidatorID -> [Nonces -> Event \cup {None}]]
    BY <1>1, <1>2, GenesisAssumption DEF Init, Event
  <2>4. signerOf \in [ValidatorID -> Signer \cup {None}]
    BY <1>1, GenesisAssumption DEF Init
  <2>5. l1Nonce \in [ValidatorID -> 0 .. MaxNonce]
        /\ synced \in [SyncRoot -> [ValidatorID -> 0 .. MaxNonce]]
    BY <1>1, <1>2 DEF Init, JoinedAtGenesis
  <2>6. queue \in [SyncRoot -> Seq(Record)]
    BY <1>1 DEF Init
  <2>7. QED
    BY <1>1, <1>2, <2>2, <2>3, <2>4, <2>5, <2>6 DEF Init, TypeOK
<1>4. \A id \in ValidatorID, n \in Nonces :
         n <= l1Nonce[id] => /\ id \in Genesis /\ n = 1
                             /\ events[id][n] \in Event
                             /\ events[id][n].type = "validatorJoin"
                             /\ events[id][n].signer = GenesisSigner[id]
                             /\ events[id][n].startEpoch = 0
                             /\ events[id][n].endEpoch = 0
  <2>1. TAKE id \in ValidatorID, n \in Nonces
  <2>2. HAVE n <= l1Nonce[id]
  <2>3. id \in Genesis /\ n = 1
    BY <1>1, <2>2, BoundAssumption DEF Init, JoinedAtGenesis, Nonces
  <2>4. events[id][n] = [type |-> "validatorJoin", signer |-> GenesisSigner[id],
                         startEpoch |-> 0, endEpoch |-> 0]
    BY <1>1, <2>3 DEF Init
  <2>5. QED
    BY <1>2, <2>3, <2>4, GenesisAssumption DEF Event
<1>5. EventsInv
  BY <1>4 DEF EventsInv
<1>6. FreshInv
  BY <1>4, GenesisAssumption DEF FreshInv
<1>7. \A id \in ValidatorID :
         /\ l1Nonce[id] = Nonce(id) /\ Nonce(id) = IF id \in Genesis THEN 1 ELSE 0
         /\ \A r \in SyncRoot : synced[r][id] = Nonce(id)
         /\ id \notin Genesis => signerOf[id] = None
  BY <1>1, InitNonce DEF Init, JoinedAtGenesis
<1>8. \A id \in Genesis :
         /\ id \in ValidatorID
         /\ signerOf[id] = GenesisSigner[id] /\ GenesisSigner[id] \in Signer
         /\ validators[GenesisSigner[id]] # None
         /\ ValidatorOf(id).id = id /\ ValidatorOf(id).votingPower = 1
         /\ ValidatorOf(id).startEpoch = 0 /\ ValidatorOf(id).endEpoch = 0
  <2>1. TAKE id \in Genesis
  <2>2. id \in ValidatorID
    BY GenesisAssumption
  <2>3. /\ signerOf[id] = GenesisSigner[id] /\ GenesisSigner[id] \in Signer
        /\ validators[GenesisSigner[id]] =
              [id |-> id, startEpoch |-> 0, endEpoch |-> 0, nonce |-> 1,
               votingPower |-> 1]
        /\ validators[GenesisSigner[id]] # None
    BY <1>1, <2>2, InitNonce
  <2>4. QED
    BY <2>2, <2>3 DEF ValidatorOf
<1>9. SignerInv
  <2> USE DEF SignerInv
  <2>1. TAKE id \in ValidatorID
  <2>2. QED
    BY <1>7, <1>8, NoneAssumption DEF ValidatorOf
<1>10. PipeInv /\ SyncedInv
  BY <1>1, <1>7 DEF Init, PipeInv, SyncedInv
<1>11. StoreMirrorsStakeChain
  <2> USE DEF StoreMirrorsStakeChain
  <2>1. TAKE id \in ValidatorID
  <2>2. sequences = {}
    BY <1>1 DEF Init
  <2>3. id \in Genesis => /\ events[id][1].signer = GenesisSigner[id]
                          /\ events[id][1].startEpoch = 0 /\ events[id][1].endEpoch = 0
    BY <1>2, <1>4, <1>7
  <2>4. \A n \in Nonces : ~ (n <= Nonce(id) /\ (n = 1 => id \notin Genesis))
    BY <1>7, BoundAssumption DEF Nonces
  <2>5. Nonce(id) <= l1Nonce[id]
    BY <1>7
  <2>6. Nonce(id) > 0 =>
           LET e == events[id][Nonce(id)] IN
           /\ signerOf[id] = e.signer
           /\ ValidatorOf(id).id = id
           /\ ValidatorOf(id).startEpoch = e.startEpoch
           /\ ValidatorOf(id).endEpoch = e.endEpoch
    BY <1>7, <1>8, <2>3
  <2>7. QED
    BY <2>2, <2>4, <2>5, <2>6
<1>12. OneSignerWithPower /\ QueueHoldsUnsynced
  <2>1. OneSignerWithPower
    <3> USE DEF OneSignerWithPower
    <3>1. TAKE s \in Signer
    <3>2. validators[s] # None => \E id \in Genesis : GenesisSigner[id] = s
      BY <1>1 DEF Init
    <3>3. QED
      BY <1>8, <3>2 DEF ValidatorOf
  <2>2. \A r \in SyncRoot, id \in ValidatorID : synced[r][id] + 1 .. Nonce(id) = {}
    BY <1>7
  <2>3. QueueHoldsUnsynced
    BY <1>1, <2>2 DEF Init, QueueHoldsUnsynced, Waiting
  <2>4. QED
    BY <2>1, <2>3
<1>13. QED
  BY <1>3, <1>5, <1>6, <1>9, <1>10, <1>11, <1>12 DEF IInv
-----------------------------------------------------------------------------
(* Steps that leave the store alone.                                       *)

\* Without a new event applied, the store's part of the invariant is untouched.
LEMMA StoreUnchanged ==
    ASSUME IInv, UNCHANGED <<validators, signerOf>>
    PROVE  /\ SignerInv' /\ OneSignerWithPower'
           /\ \A id \in ValidatorID : /\ Nonce(id)' = Nonce(id)
                                      /\ ValidatorOf(id)' = ValidatorOf(id)
<1>1. SignerInv' /\ OneSignerWithPower'
  BY DEF IInv, SignerInv, OneSignerWithPower
<1>2. \A id \in ValidatorID : Nonce(id)' = Nonce(id) /\ ValidatorOf(id)' = ValidatorOf(id)
  BY DEF Nonce, HasValidator, ValidatorOf
<1>3. QED
  BY <1>1, <1>2

\* Nor is what compares it with the stake chain.
LEMMA StakeChainUnchanged ==
    ASSUME IInv, UNCHANGED <<l1Nonce, events, validators, signerOf, sequences>>
    PROVE  EventsInv' /\ FreshInv' /\ StoreMirrorsStakeChain'
<1>1. EventsInv' /\ FreshInv'
  BY DEF IInv, EventsInv, FreshInv
<1>2. StoreMirrorsStakeChain'
  BY StoreUnchanged DEF IInv, StoreMirrorsStakeChain
<1>3. QED
  BY <1>1, <1>2

\* The queues keep their records when only ages change.
LEMMA QueueUnchanged ==
    ASSUME IInv, UNCHANGED <<validators, signerOf, synced>>,
           \A r \in SyncRoot :
               /\ DOMAIN queue'[r] = DOMAIN queue[r]
               /\ \A i \in DOMAIN queue[r] : /\ queue'[r][i].id = queue[r][i].id
                                             /\ queue'[r][i].nonce = queue[r][i].nonce
    PROVE  QueueHoldsUnsynced' /\ SyncedInv'
<1>1. SyncedInv'
  BY StoreUnchanged DEF IInv, SyncedInv
<1>2. \A r \in SyncRoot, id \in ValidatorID : Waiting(r, id)' = Waiting(r, id)
  BY DEF Waiting
<1>3. \A r \in SyncRoot, id \in ValidatorID : \A i \in Waiting(r, id) :
         queue'[r][i].nonce = queue[r][i].nonce
  BY DEF Waiting
<1>4. QueueHoldsUnsynced'
  BY <1>2, <1>3, StoreUnchanged DEF IInv, QueueHoldsUnsynced
<1>5. QED
  BY <1>1, <1>4

\* Nor does anything on its way go stale.
LEMMA PipeUnchanged ==
    ASSUME IInv, UNCHANGED <<l1Nonce, validators, signerOf>>,
           pipe' \in [0 .. 2 -> SUBSET Msg],
           \A k \in 0 .. 2 : \A m \in pipe'[k] : \E j \in 0 .. 2 : m \in pipe[j]
    PROVE  PipeInv'
<1>1. \A k \in 0 .. 2 : \A m \in pipe'[k] : m \in Msg
  OBVIOUS
<1>2. \A k \in 0 .. 2 : \A m \in pipe'[k] : Nonce(m.id)' = Nonce(m.id)
  BY <1>1, MsgFields, StoreUnchanged
<1>3. QED
  BY <1>2 DEF IInv, PipeInv

-----------------------------------------------------------------------------
(* The stake chain.                                                        *)

LEMMA EmitStep ==
    ASSUME IInv, NEW id \in ValidatorID, NEW e \in Event, Emit(id, e),
           e.type = "validatorJoin" <=> l1Nonce[id] = 0,
           e.type = "validatorJoin" => e.endEpoch = 0,
           e.type = "signerUpdate" =>
              /\ e.signer # events[id][l1Nonce[id]].signer
              /\ e.startEpoch = events[id][l1Nonce[id]].startEpoch
              /\ e.endEpoch = events[id][l1Nonce[id]].endEpoch,
           e.type = "validatorExit" =>
              /\ e.signer = events[id][l1Nonce[id]].signer
              /\ e.startEpoch = events[id][l1Nonce[id]].startEpoch,
           \A j \in ValidatorID, k \in Nonces :
              k <= l1Nonce[j] /\ events[j][k].signer = e.signer => j = id
    PROVE  IInv'
<1> DEFINE N == l1Nonce[id] + 1
<1>1. l1Nonce \in [ValidatorID -> 0 .. MaxNonce]
      /\ events \in [ValidatorID -> [Nonces -> Event \cup {None}]]
  BY DEF IInv, TypeOK
<1>2. l1Nonce[id] \in Nat /\ N \in Nonces
  BY <1>1, BoundAssumption DEF Emit, Nonces
<1>3. l1Nonce' = [l1Nonce EXCEPT ![id] = N] /\ events' = [events EXCEPT ![id][N] = e]
      /\ UNCHANGED <<ackCount, validators, signerOf, sequences, queue, pipe, notified,
                     synced>>
  BY DEF Emit, heimdallVars
<1>4. TypeOK'
  <2>1. l1Nonce' \in [ValidatorID -> 0 .. MaxNonce]
    BY <1>1, <1>2, <1>3, BoundAssumption DEF Nonces
  <2>2. events' \in [ValidatorID -> [Nonces -> Event \cup {None}]]
    BY <1>1, <1>2, <1>3
  <2>3. QED
    BY <1>3, <2>1, <2>2 DEF IInv, TypeOK
<1>5. \A j \in ValidatorID, k \in Nonces :
         k <= l1Nonce'[j] => \/ k <= l1Nonce[j] /\ events'[j][k] = events[j][k]
                             \/ j = id /\ k = N /\ events'[j][k] = e
  <2>1. TAKE j \in ValidatorID, k \in Nonces
  <2>2. CASE j # id
    BY <1>1, <1>3, <2>2
  <2>3. CASE j = id
    <3>1. l1Nonce'[j] = N /\ events'[j] = [events[id] EXCEPT ![N] = e]
      BY <1>1, <1>3, <2>3
    <3>2. k <= N => k <= l1Nonce[id] \/ k = N
      BY <1>2 DEF Nonces
    <3>3. N \in Nonces /\ ~ (N <= l1Nonce[id])
      BY <1>2
    <3>4. events[id] \in [Nonces -> Event \cup {None}]
      BY <1>1
    <3>5. QED
      BY <2>3, <3>1, <3>2, <3>3, <3>4
  <2>4. QED
    BY <2>2, <2>3
<1>6. \A k \in Nonces : k <= l1Nonce'[id] => events'[id][k - 1] = events[id][k - 1]
  BY <1>1, <1>2, <1>3 DEF Nonces
<1>7. EventsInv'
  <2> SUFFICES ASSUME NEW j \in ValidatorID, NEW k \in Nonces, k <= l1Nonce'[j]
               PROVE  LET x == events'[j][k] IN
                      /\ x \in Event
                      /\ x.type = "validatorJoin" <=> k = 1
                      /\ x.type = "validatorJoin" => x.endEpoch = 0
                      /\ x.type = "signerUpdate" =>
                            /\ x.signer # events'[j][k - 1].signer
                            /\ x.startEpoch = events'[j][k - 1].startEpoch
                            /\ x.endEpoch = events'[j][k - 1].endEpoch
                      /\ x.type = "validatorExit" =>
                            /\ x.signer = events'[j][k - 1].signer
                            /\ x.startEpoch = events'[j][k - 1].startEpoch
    BY DEF EventsInv
  <2>1. events'[j][k - 1] = events[j][k - 1]
    BY <1>1, <1>3, <1>6
  <2>2. CASE k <= l1Nonce[j] /\ events'[j][k] = events[j][k]
    BY <2>1, <2>2 DEF IInv, EventsInv
  <2>3. CASE j = id /\ k = N /\ events'[j][k] = e
    <3>1. k - 1 = l1Nonce[id] /\ (k = 1 <=> l1Nonce[id] = 0)
      BY <1>2, <2>3
    <3>2. QED
      BY <2>1, <2>3, <3>1
  <2>4. QED
    BY <1>5, <2>2, <2>3
<1>8. FreshInv'
  BY <1>5 DEF IInv, FreshInv
<1>9. PipeInv'
  <2>1. \A j \in ValidatorID : l1Nonce[j] \in Nat /\ l1Nonce[j] <= l1Nonce'[j]
    BY <1>1, <1>3
  <2>2. \A k \in 0 .. 2 : \A m \in pipe[k] : m.id \in ValidatorID /\ m.nonce \in Nat
    BY MsgFields DEF IInv, TypeOK, Nonces
  <2>3. \A j \in ValidatorID : Nonce(j)' = Nonce(j)
    BY <1>3, StoreUnchanged
  <2>4. l1Nonce' \in [ValidatorID -> Nat]
    BY <1>1, <1>2, <1>3
  <2>5. QED
    BY <1>3, <2>1, <2>2, <2>3, <2>4 DEF IInv, PipeInv
<1>10. QueueHoldsUnsynced' /\ SyncedInv'
  BY <1>3, QueueUnchanged
<1>11. StoreMirrorsStakeChain'
  <2>1. \A j \in ValidatorID : /\ Nonce(j)' = Nonce(j) /\ ValidatorOf(j)' = ValidatorOf(j)
                               /\ Nonce(j) \in 0 .. MaxNonce
    BY <1>3, StoreUnchanged, StoreTypes DEF IInv
  <2>2. \A j \in ValidatorID : /\ l1Nonce[j] \in Nat /\ l1Nonce'[j] \in Nat
                               /\ l1Nonce[j] <= l1Nonce'[j]
    BY <1>1, <1>2, <1>3
  <2>3. \A j \in ValidatorID : Nonce(j) > 0 => events'[j][Nonce(j)] = events[j][Nonce(j)]
    BY <1>1, <1>2, <1>3, <2>1, <2>2, BoundAssumption DEF IInv, StoreMirrorsStakeChain, Nonces
  <2> SUFFICES ASSUME NEW j \in ValidatorID
               PROVE  /\ Nonce(j)' <= l1Nonce'[j]
                      /\ Nonce(j)' > 0 =>
                            LET x == events'[j][Nonce(j)'] IN
                            /\ signerOf'[j] = x.signer
                            /\ ValidatorOf(j)'.id = j
                            /\ ValidatorOf(j)'.startEpoch = x.startEpoch
                            /\ ValidatorOf(j)'.endEpoch = x.endEpoch
                      /\ \A n \in Nonces :
                            [id |-> j, nonce |-> n] \in sequences' <=>
                                n <= Nonce(j)' /\ (n = 1 => j \notin Genesis)
    BY DEF StoreMirrorsStakeChain
  <2>4. Nonce(j) <= l1Nonce[j]
    BY DEF IInv, StoreMirrorsStakeChain
  <2>5. Nonce(j)' <= l1Nonce'[j]
    BY <2>1, <2>2, <2>4
  <2>6. QED
    BY <1>3, <2>1, <2>3, <2>5 DEF IInv, StoreMirrorsStakeChain
<1>12. QED
  BY <1>3, <1>4, <1>7, <1>8, <1>9, <1>10, <1>11, StoreUnchanged DEF IInv

\* The event before a new one.
LEMMA LatestEvent ==
    ASSUME IInv, NEW id \in ValidatorID, l1Nonce[id] > 0
    PROVE  /\ l1Nonce[id] \in Nonces /\ events[id][l1Nonce[id]] \in Event
           /\ \A j \in ValidatorID, k \in Nonces :
                 k <= l1Nonce[j] /\ events[j][k].signer = events[id][l1Nonce[id]].signer
                    => j = id
<1>1. l1Nonce[id] \in Nonces /\ l1Nonce[id] <= l1Nonce[id]
  BY BoundAssumption DEF IInv, TypeOK, Nonces
<1>2. QED
  BY <1>1 DEF IInv, EventsInv, FreshInv

LEMMA UnusedFacts ==
    ASSUME IInv, NEW s, Unused(s)
    PROVE  \A j \in ValidatorID, k \in Nonces : k <= l1Nonce[j] => events[j][k].signer # s
<1>1. \A j \in ValidatorID, k \in Nonces : k <= l1Nonce[j] => k \in 1 .. l1Nonce[j]
  BY BoundAssumption DEF IInv, TypeOK, Nonces
<1>2. QED
  BY <1>1 DEF Unused

LEMMA StakedStep ==
    ASSUME IInv, NEW id \in ValidatorID, NEW s \in Signer, NEW epoch \in Epoch,
           Staked(id, s, epoch)
    PROVE  IInv'
<1> DEFINE e == [type |-> "validatorJoin", signer |-> s, startEpoch |-> epoch, endEpoch |-> 0]
<1>1. e \in Event
  BY BoundAssumption DEF Event, Epoch
<1>2. l1Nonce[id] = 0 /\ Unused(s) /\ Emit(id, e)
  BY DEF Staked
<1>3. \A j \in ValidatorID, k \in Nonces : k <= l1Nonce[j] => events[j][k].signer # e.signer
  BY <1>2, UnusedFacts
<1>4. e.type = "validatorJoin" /\ e.endEpoch = 0
  OBVIOUS
<1> HIDE DEF e
<1>5. QED
  BY <1>1, <1>2, <1>3, <1>4, EmitStep

LEMMA SignerChangeStep ==
    ASSUME IInv, NEW id \in ValidatorID, NEW s \in Signer, SignerChange(id, s)
    PROVE  IInv'
<1> DEFINE last == events[id][l1Nonce[id]]
           e    == [last EXCEPT !.type = "signerUpdate", !.signer = s]
<1>1. l1Nonce[id] > 0 /\ Unused(s) /\ Emit(id, e)
  BY DEF SignerChange
<1>2. l1Nonce[id] \in Nonces /\ last \in Event
  BY <1>1, LatestEvent
<1>3. /\ e \in Event /\ e.type = "signerUpdate" /\ e.signer = s
      /\ e.startEpoch = last.startEpoch /\ e.endEpoch = last.endEpoch
  BY <1>2 DEF Event
<1>4. \A j \in ValidatorID, k \in Nonces : k <= l1Nonce[j] => events[j][k].signer # e.signer
  BY <1>1, <1>3, UnusedFacts
<1>5. e.signer # last.signer
  BY <1>2, <1>4 DEF Nonces
<1> HIDE DEF e
<1>6. QED
  BY <1>1, <1>2, <1>3, <1>4, <1>5, EmitStep

LEMMA UnstakeInitStep ==
    ASSUME IInv, NEW id \in ValidatorID, NEW epoch \in Epoch, UnstakeInit(id, epoch)
    PROVE  IInv'
<1> DEFINE last == events[id][l1Nonce[id]]
           e    == [last EXCEPT !.type = "validatorExit", !.endEpoch = epoch]
<1>1. l1Nonce[id] > 0 /\ Emit(id, e)
  BY DEF UnstakeInit
<1>2. /\ l1Nonce[id] \in Nonces /\ last \in Event
      /\ \A j \in ValidatorID, k \in Nonces :
            k <= l1Nonce[j] /\ events[j][k].signer = last.signer => j = id
  BY <1>1, LatestEvent
<1>3. /\ e \in Event /\ e.type = "validatorExit" /\ e.signer = last.signer
      /\ e.startEpoch = last.startEpoch
  BY <1>2 DEF Event
<1> HIDE DEF e
<1>4. QED
  BY <1>1, <1>2, <1>3, EmitStep

-----------------------------------------------------------------------------
(* Delivery.                                                               *)

LEMMA DeliverStep ==
    ASSUME IInv, NEW m \in Msg, Deliver(m),
           m.type = "event" => /\ m.nonce <= l1Nonce[m.id]
                               /\ m.nonce <= Nonce(m.id) + 1
                               /\ m.nonce = 1 => m.id \notin Genesis
    PROVE  IInv'
<1>1. pipe' = [pipe EXCEPT ![0] = @ \cup {m}]
      /\ UNCHANGED <<l1Nonce, events, ackCount, validators, signerOf, sequences, queue,
                     notified, synced>>
  BY DEF Deliver, l1Vars, heimdallVars
<1>2. pipe \in [0 .. 2 -> SUBSET Msg]
  BY DEF IInv, TypeOK
<1>3. pipe' \in [0 .. 2 -> SUBSET Msg]
  BY <1>1, <1>2
<1>4. TypeOK'
  BY <1>1, <1>3 DEF IInv, TypeOK
<1>5. PipeInv'
  <2>1. \A k \in 0 .. 2 : \A x \in pipe'[k] : x = m \/ x \in pipe[k]
    BY <1>1, <1>2
  <2>2. \A k \in 0 .. 2 : \A x \in pipe'[k] : x \in Msg
    BY <1>3
  <2>3. \A k \in 0 .. 2 : \A x \in pipe'[k] : Nonce(x.id)' = Nonce(x.id)
    BY <1>1, <2>2, MsgFields, StoreUnchanged
  <2>4. QED
    BY <1>1, <2>1, <2>3 DEF IInv, PipeInv
<1>6. QueueHoldsUnsynced' /\ SyncedInv'
  BY <1>1, QueueUnchanged
<1>7. QED
  BY <1>1, <1>4, <1>5, <1>6, StoreUnchanged, StakeChainUnchanged DEF IInv

\* What the bridges send.
LEMMA EventMsgFacts ==
    ASSUME IInv, NEW m \in EventMsgs
    PROVE  m \in Msg /\ m.type = "event" /\ m.id \in ValidatorID /\ m.nonce \in Nonces
           /\ m.nonce <= l1Nonce[m.id]
<1>1. PICK id \in ValidatorID :
         m \in [type : {"event"}, id : {id}, nonce : 1 .. l1Nonce[id]]
  BY DEF EventMsgs
<1>2. l1Nonce[id] \in 0 .. MaxNonce
  BY DEF IInv, TypeOK
<1>3. m.nonce \in Nonces /\ m.nonce <= l1Nonce[id] /\ m.id = id /\ m.type = "event"
  BY <1>1, <1>2, BoundAssumption DEF Nonces
<1>4. m \in EventMsg
  BY <1>1, <1>3 DEF EventMsg
<1>5. QED
  BY <1>3, <1>4 DEF Msg

\* The handlers of the stake chain's events.
HandlesEvent(m) ==
    HandleMsgValidatorJoin(m) \/ HandleMsgSignerUpdate(m) \/ HandleMsgValidatorExit(m)

LEMMA HandlesEventStep ==
    ASSUME IInv, NEW m \in EventMsgs, HandlesEvent(m)
    PROVE  IInv'
<1>1. /\ m \in Msg /\ m.type = "event" /\ m.id \in ValidatorID /\ m.nonce \in Nonces
      /\ m.nonce <= l1Nonce[m.id]
  BY EventMsgFacts
<1>2. /\ HasValidator(m.id) <=> signerOf[m.id] # None
      /\ HasValidator(m.id) => Nonce(m.id) = ValidatorOf(m.id).nonce /\ Nonce(m.id) \in Nonces
      /\ ~ HasValidator(m.id) => Nonce(m.id) = 0
  BY <1>1, StoreTypes DEF IInv
<1>3. EventOf(m).type = "validatorJoin" <=> m.nonce = 1
  BY <1>1 DEF IInv, EventsInv, EventOf
<1>4. CASE HandleMsgValidatorJoin(m)
  <2>1. signerOf[m.id] = None /\ EventOf(m).type = "validatorJoin" /\ Deliver(m)
    BY <1>4 DEF HandleMsgValidatorJoin, Delivering
  <2>2. m.id \notin Genesis /\ m.nonce <= Nonce(m.id) + 1
    BY <1>1, <1>2, <1>3, <2>1 DEF IInv, SignerInv
  <2>3. QED
    BY <1>1, <2>1, <2>2, DeliverStep
<1>5. CASE HandleMsgSignerUpdate(m) \/ HandleMsgValidatorExit(m)
  <2>1. /\ HasValidator(m.id) /\ m.nonce = ValidatorOf(m.id).nonce + 1
        /\ EventOf(m).type # "validatorJoin" /\ Deliver(m)
    BY <1>5 DEF HandleMsgSignerUpdate, HandleMsgValidatorExit, Delivering
  <2>2. m.nonce # 1 /\ m.nonce <= Nonce(m.id) + 1
    BY <1>1, <1>2, <1>3, <2>1 DEF Nonces
  <2>3. QED
    BY <1>1, <2>1, <2>2, DeliverStep
<1>6. QED
  BY <1>4, <1>5 DEF HandlesEvent

LEMMA HandlesSyncStep ==
    ASSUME IInv, NEW m \in SyncMsg, HandleMsgStakingSync(m) \/ HandleMsgStakingSyncAck(m)
    PROVE  IInv'
<1>1. m \in Msg /\ m.type # "event"
  BY DEF Msg, SyncMsg
<1>2. Deliver(m)
  BY DEF HandleMsgStakingSync, HandleMsgStakingSyncAck
<1>3. QED
  BY <1>1, <1>2, DeliverStep

-----------------------------------------------------------------------------
(* Execution of events.                                                    *)

\* An executed message leaves the pipe.
LEMMA ExecutedFacts ==
    ASSUME IInv, NEW m \in pipe[2], Executed(m)
    PROVE  /\ m \in Msg
           /\ pipe' \in [0 .. 2 -> SUBSET Msg]
           /\ \A k \in 0 .. 2 : pipe'[k] \subseteq pipe[k]
<1>1. pipe \in [0 .. 2 -> SUBSET Msg] /\ 2 \in 0 .. 2
  BY DEF IInv, TypeOK
<1>2. pipe' = [pipe EXCEPT ![2] = pipe[2] \ {m}]
  BY DEF Executed
<1>3. pipe' \in [0 .. 2 -> SUBSET Msg] /\ \A k \in 0 .. 2 : pipe'[k] \subseteq pipe[k]
  BY <1>1, <1>2
<1>4. QED
  BY <1>1, <1>3

\* No other validator's signer is the event's.
LEMMA OtherSigner ==
    ASSUME IInv, NEW m \in pipe[2], m.type = "event", SequenceOf(m) \notin sequences,
           NEW j \in ValidatorID, j # m.id
    PROVE  signerOf[j] # EventOf(m).signer
<1>1. m.id \in ValidatorID /\ m.nonce \in Nonces /\ m.nonce <= l1Nonce[m.id]
         /\ EventOf(m) \in Event
  BY NextEvent
<1>2. EventOf(m).signer # None
  BY <1>1, NoneAssumption DEF Event
<1>3. CASE signerOf[j] = None
  BY <1>2, <1>3
<1>4. CASE signerOf[j] # None
  <2>1. HasValidator(j) /\ Nonce(j) \in Nonces
    BY <1>4, StoreTypes DEF IInv
  <2>2. Nonce(j) <= l1Nonce[j] /\ signerOf[j] = events[j][Nonce(j)].signer
    BY <2>1, BoundAssumption DEF IInv, StoreMirrorsStakeChain, Nonces
  <2>3. QED
    BY <1>1, <2>1, <2>2 DEF IInv, FreshInv, EventOf
<1>5. QED
  BY <1>3, <1>4

\* The event before one that is not a join is the one the store shows.
LEMMA PreviousEvent ==
    ASSUME IInv, NEW m \in pipe[2], m.type = "event", SequenceOf(m) \notin sequences,
           HasValidator(m.id)
    PROVE  LET prev == events[m.id][m.nonce - 1] IN
           /\ signerOf[m.id] = prev.signer
           /\ ValidatorOf(m.id) \in Validator /\ ValidatorOf(m.id).id = m.id
           /\ signerOf[m.id] \in Signer
           /\ ValidatorOf(m.id).startEpoch = prev.startEpoch
           /\ ValidatorOf(m.id).endEpoch = prev.endEpoch
           /\ ValidatorOf(m.id).votingPower > 0
<1>1. m.id \in ValidatorID /\ m.nonce \in Nonces /\ m.nonce = Nonce(m.id) + 1
  BY NextEvent
<1>2. /\ signerOf[m.id] \in Signer /\ ValidatorOf(m.id) \in Validator
      /\ ValidatorOf(m.id).id = m.id /\ Nonce(m.id) \in Nonces
  BY <1>1, StoreTypes DEF IInv
<1>3. Nonce(m.id) > 0 /\ m.nonce - 1 = Nonce(m.id)
  BY <1>1, <1>2 DEF Nonces
<1>4. ValidatorOf(m.id).votingPower > 0
  <2>1. validators[signerOf[m.id]] # None
    BY DEF HasValidator
  <2>2. QED
    BY <1>2, <2>1 DEF IInv, OneSignerWithPower, ValidatorOf
<1>5. QED
  BY <1>1, <1>2, <1>3, <1>4 DEF IInv, StoreMirrorsStakeChain

\* The step in which the store takes over the next event of a validator.
Advances(id) ==
    /\ UNCHANGED <<l1Nonce, synced>>
    /\ Nonce(id)' = Nonce(id) + 1
    /\ \A j \in ValidatorID : j # id => Nonce(j)' = Nonce(j)

\* Whatever stores the event's validator under its signer, takes the power from
\* the validator's other signers and leaves the other validators alone keeps
\* the invariant and advances the validator by one event.
LEMMA AppliedStep ==
    ASSUME IInv, NEW m \in pipe[2], NEW type, Approved(m, type),
           validators' \in [Signer -> Validator \cup {None}],
           signerOf' = [signerOf EXCEPT ![m.id] = EventOf(m).signer],
           validators'[EventOf(m).signer] # None,
           validators'[EventOf(m).signer].id = m.id,
           validators'[EventOf(m).signer].nonce = m.nonce,
           validators'[EventOf(m).signer].startEpoch = EventOf(m).startEpoch,
           validators'[EventOf(m).signer].endEpoch = EventOf(m).endEpoch,
           validators'[EventOf(m).signer].votingPower > 0,
           \A s \in Signer \ {EventOf(m).signer} :
               \/ validators'[s] = validators[s]
                     /\ (validators[s] # None /\ validators[s].id = m.id =>
                            ~ (validators[s].votingPower > 0))
               \/ /\ validators'[s].id = m.id /\ ~ (validators'[s].votingPower > 0)
                  /\ validators[s] # None /\ validators[s].id = m.id
    PROVE  IInv' /\ Advances(m.id)
<1> DEFINE signer == EventOf(m).signer
<1>1. /\ m.type = "event" /\ SequenceOf(m) \notin sequences /\ EventOf(m).type = type
      /\ sequences' = sequences \cup {SequenceOf(m)} /\ queue' = Enqueued(m) /\ Executed(m)
      /\ UNCHANGED <<l1Nonce, events, ackCount, notified, synced>>
  BY DEF Approved, l1Vars
<1>2. /\ m \in Msg /\ m.id \in ValidatorID /\ m.nonce \in Nonces
      /\ m.nonce = Nonce(m.id) + 1 /\ m.nonce <= l1Nonce[m.id]
      /\ EventOf(m) \in Event /\ signer \in Signer /\ signer # None
  BY <1>1, NextEvent, NoneAssumption DEF Event
<1>3. signerOf'[m.id] = signer
      /\ \A j \in ValidatorID : j # m.id => signerOf'[j] = signerOf[j]
  BY <1>2 DEF IInv, TypeOK
<1>4. \A j \in ValidatorID : j # m.id /\ signerOf[j] # None =>
         signerOf[j] \in Signer /\ validators'[signerOf[j]] = validators[signerOf[j]]
  <2>1. TAKE j \in ValidatorID
  <2>2. HAVE j # m.id /\ signerOf[j] # None
  <2>3. signerOf[j] \in Signer \ {signer}
    BY <1>1, <2>2, OtherSigner DEF IInv, TypeOK
  <2>4. validators[signerOf[j]].id = j
    BY <2>2 DEF IInv, SignerInv
  <2>5. QED
    BY <2>2, <2>3, <2>4
<1>5. Nonce(m.id)' = m.nonce /\ ValidatorOf(m.id)' = validators'[signer]
  BY <1>2, <1>3 DEF Nonce, HasValidator, ValidatorOf
<1>6. \A j \in ValidatorID : j # m.id => Nonce(j)' = Nonce(j)
  BY <1>3, <1>4 DEF Nonce, HasValidator, ValidatorOf
<1>7. \A j \in ValidatorID : /\ Nonce(j) \in 0 .. MaxNonce
                             /\ Nonce(j) <= Nonce(j)' /\ Nonce(j)' \in 0 .. MaxNonce
  BY <1>2, <1>5, <1>6, StoreTypes, BoundAssumption DEF IInv, Nonces
<1>8. pipe' \in [0 .. 2 -> SUBSET Msg] /\ \A k \in 0 .. 2 : pipe'[k] \subseteq pipe[k]
  BY <1>1, ExecutedFacts
<1> DEFINE record == [id |-> m.id, nonce |-> m.nonce, age |-> StakingBufferTime]
<1>9. record \in Record
  BY <1>2, BoundAssumption DEF Record, Age
<1>10. \A r \in SyncRoot : queue'[r] = Append(queue[r], record) /\ queue[r] \in Seq(Record)
  BY <1>1 DEF Enqueued, IInv, TypeOK
<1>11. TypeOK'
  <2>1. queue' \in [SyncRoot -> Seq(Record)]
    BY <1>1, <1>9, <1>10 DEF Enqueued
  <2>2. sequences' \subseteq Sequence
    BY <1>1, <1>2 DEF IInv, TypeOK, SequenceOf, Sequence
  <2>3. signerOf' \in [ValidatorID -> Signer \cup {None}]
    BY <1>2 DEF IInv, TypeOK
  <2>4. QED
    BY <1>1, <1>8, <2>1, <2>2, <2>3 DEF IInv, TypeOK
<1>12. EventsInv' /\ FreshInv'
  BY <1>1 DEF IInv, EventsInv, FreshInv
<1>13. SignerInv'
  <2> SUFFICES ASSUME NEW j \in ValidatorID
               PROVE  /\ signerOf'[j] # None => /\ validators'[signerOf'[j]] # None
                                                /\ validators'[signerOf'[j]].id = j
                      /\ j \in Genesis => signerOf'[j] # None
    BY DEF SignerInv
  <2>1. CASE j = m.id
    BY <1>2, <1>3, <2>1
  <2>2. CASE j # m.id
    BY <1>3, <1>4, <2>2 DEF IInv, SignerInv
  <2>3. QED
    BY <2>1, <2>2
<1>14. PipeInv'
  <2> SUFFICES ASSUME NEW k \in 0 .. 2, NEW x \in pipe'[k], x.type = "event"
               PROVE  /\ x.nonce <= l1Nonce[x.id]
                      /\ x.nonce <= Nonce(x.id)' + 1
                      /\ x.nonce = 1 => x.id \notin Genesis
    BY <1>1 DEF PipeInv
  <2>1. x \in pipe[k] /\ x \in Msg
    BY <1>8
  <2>2. x.id \in ValidatorID /\ x.nonce \in Nonces
    BY <2>1, MsgFields
  <2>3. /\ x.nonce <= l1Nonce[x.id]
        /\ x.nonce <= Nonce(x.id) + 1
        /\ x.nonce = 1 => x.id \notin Genesis
    BY <2>1 DEF IInv, PipeInv
  <2>4. x.nonce <= Nonce(x.id)' + 1
    BY <1>7, <2>2, <2>3 DEF Nonces
  <2>5. QED
    BY <2>3, <2>4
<1>15. SyncedInv'
  <2> SUFFICES ASSUME NEW r \in SyncRoot, NEW j \in ValidatorID
               PROVE  synced[r][j] <= Nonce(j)'
    BY <1>1 DEF SyncedInv
  <2>1. synced[r][j] <= Nonce(j) /\ synced[r][j] \in 0 .. MaxNonce
    BY DEF IInv, TypeOK, SyncedInv
  <2>2. QED
    BY <1>7, <2>1, BoundAssumption
<1>16. StoreMirrorsStakeChain'
  <2> SUFFICES ASSUME NEW j \in ValidatorID
               PROVE  /\ Nonce(j)' <= l1Nonce[j]
                      /\ Nonce(j)' > 0 =>
                            LET e == events[j][Nonce(j)'] IN
                            /\ signerOf'[j] = e.signer
                            /\ ValidatorOf(j)'.id = j
                            /\ ValidatorOf(j)'.startEpoch = e.startEpoch
                            /\ ValidatorOf(j)'.endEpoch = e.endEpoch
                      /\ \A n \in Nonces :
                            [id |-> j, nonce |-> n] \in sequences' <=>
                                n <= Nonce(j)' /\ (n = 1 => j \notin Genesis)
    BY <1>1 DEF StoreMirrorsStakeChain
  <2>1. \A n \in Nonces :
           [id |-> j, nonce |-> n] \in sequences <=>
               n <= Nonce(j) /\ (n = 1 => j \notin Genesis)
    BY DEF IInv, StoreMirrorsStakeChain
  <2>2. \A n \in Nonces :
           [id |-> j, nonce |-> n] = SequenceOf(m) <=> j = m.id /\ n = m.nonce
    BY DEF SequenceOf
  <2>3. CASE j = m.id
    <3>1. m.nonce = 1 => m.id \notin Genesis
      BY <1>1 DEF IInv, TypeOK, PipeInv
    <3>2. \A n \in Nonces : n <= m.nonce <=> n <= Nonce(j) \/ n = m.nonce
      BY <1>2, <1>7, <2>3 DEF Nonces
    <3>3. \A n \in Nonces :
             [id |-> j, nonce |-> n] \in sequences' <=>
                 n <= Nonce(j)' /\ (n = 1 => j \notin Genesis)
      BY <1>1, <1>5, <2>1, <2>2, <2>3, <3>1, <3>2
    <3>4. QED
      BY <1>2, <1>3, <1>5, <2>3, <3>3 DEF EventOf
  <2>4. CASE j # m.id
    <3>1. Nonce(j)' = Nonce(j) /\ signerOf'[j] = signerOf[j]
      BY <1>3, <1>6, <2>4
    <3>2. Nonce(j) > 0 => signerOf[j] # None
      BY StoreTypes DEF IInv
    <3>3. Nonce(j) > 0 => ValidatorOf(j)' = ValidatorOf(j)
      BY <1>3, <1>4, <2>4, <3>2 DEF ValidatorOf
    <3>4. \A n \in Nonces :
             [id |-> j, nonce |-> n] \in sequences' <=> [id |-> j, nonce |-> n] \in sequences
      BY <1>1, <2>2, <2>4
    <3>5. QED
      BY <2>1, <3>1, <3>3, <3>4 DEF IInv, StoreMirrorsStakeChain
  <2>5. QED
    BY <2>3, <2>4
<1>17. OneSignerWithPower'
  <2> SUFFICES ASSUME NEW s \in Signer, validators'[s] # None
               PROVE  validators'[s].votingPower > 0 <=> signerOf'[validators'[s].id] = s
    BY DEF OneSignerWithPower
  <2>1. CASE s = signer
    BY <1>3, <2>1
  <2>2. CASE s # signer /\ validators'[s].id = m.id
    BY <1>3, <2>2
  <2>3. CASE s # signer /\ validators'[s].id # m.id
    <3>1. validators'[s] = validators[s] /\ validators[s] \in Validator
      BY <2>3 DEF IInv, TypeOK
    <3>2. validators[s].id \in ValidatorID
      BY <3>1 DEF Validator
    <3>3. QED
      BY <1>3, <2>3, <3>1, <3>2 DEF IInv, OneSignerWithPower
  <2>4. QED
    BY <2>1, <2>2, <2>3
<1>18. QueueHoldsUnsynced'
  <2> SUFFICES ASSUME NEW r \in SyncRoot, NEW id \in ValidatorID
               PROVE  /\ \A n \in synced[r][id] + 1 .. Nonce(id)' :
                            \E i \in Waiting(r, id)' : queue'[r][i].nonce = n
                      /\ \A i, j \in Waiting(r, id)' :
                            i < j => queue'[r][i].nonce < queue'[r][j].nonce
                      /\ \A i \in Waiting(r, id)' :
                            /\ queue'[r][i].nonce <= Nonce(id)'
                            /\ queue'[r][i].nonce > synced[r][id]
                                  \/ (i = 1 /\ queue'[r][i].nonce = synced[r][id])
    BY <1>1 DEF QueueHoldsUnsynced
  <2> DEFINE q == queue[r]
             l == Len(q)
  <2>1. q \in Seq(Record) /\ queue'[r] = Append(q, record)
    BY <1>10
  <2>2. /\ l \in Nat /\ DOMAIN q = 1 .. l /\ DOMAIN queue'[r] = 1 .. l + 1
        /\ \A i \in 1 .. l : queue'[r][i] = q[i] /\ q[i] \in Record
        /\ queue'[r][l + 1] = record
    BY <1>9, <2>1, AppendProperties, ElementOfSeq, LenProperties
  <2>3. \A i \in 1 .. l : q[i].nonce \in Nonces
    BY <2>2 DEF Record
  <2>4. record.id = m.id /\ record.nonce = m.nonce
    OBVIOUS
  <2>5. Waiting(r, id) = {i \in 1 .. l : q[i].id = id}
    BY <2>2 DEF Waiting
  <2> HIDE DEF record, q, l
  <2>6. Waiting(r, id)' = Waiting(r, id) \cup (IF id = m.id THEN {l + 1} ELSE {})
    BY <2>2, <2>4, <2>5 DEF Waiting
  <2>7. \A i \in Waiting(r, id) : /\ i \in 1 .. l /\ queue'[r][i] = q[i]
                                  /\ queue[r][i] = q[i] /\ q[i].nonce \in Nonces
    BY <2>2, <2>3, <2>5 DEF q
  <2>8. queue'[r][l + 1].nonce = m.nonce /\ l + 1 \notin 1 .. l /\ l \in Nat
    BY <2>2, <2>4
  <2>9. /\ synced[r][id] <= Nonce(id) /\ synced[r][id] \in Nat
        /\ Nonce(id) \in Nat /\ Nonce(id)' \in Nat /\ Nonce(id) <= Nonce(id)'
        /\ m.nonce \in Nat
    BY <1>2, <1>7 DEF IInv, TypeOK, SyncedInv, Nonces
  <2>10. IF id = m.id THEN Nonce(id)' = m.nonce /\ m.nonce = Nonce(id) + 1
                      ELSE Nonce(id)' = Nonce(id)
    BY <1>2, <1>5, <1>6
  <2>11. /\ \A n \in synced[r][id] + 1 .. Nonce(id) :
               \E i \in Waiting(r, id) : q[i].nonce = n
         /\ \A i, j \in Waiting(r, id) : i < j => q[i].nonce < q[j].nonce
         /\ \A i \in Waiting(r, id) :
               /\ q[i].nonce <= Nonce(id)
               /\ q[i].nonce > synced[r][id] \/ (i = 1 /\ q[i].nonce = synced[r][id])
    BY DEF IInv, QueueHoldsUnsynced, q
  <2>12. ASSUME NEW n \in synced[r][id] + 1 .. Nonce(id)'
         PROVE  \E i \in Waiting(r, id)' : queue'[r][i].nonce = n
    <3>1. CASE n \in synced[r][id] + 1 .. Nonce(id)
      BY <2>6, <2>7, <2>11, <3>1
    <3>2. CASE n \notin synced[r][id] + 1 .. Nonce(id)
      <4>1. id = m.id /\ n = m.nonce
        BY <2>9, <2>10, <3>2
      <4>2. QED
        BY <2>6, <2>8, <4>1
    <3>3. QED
      BY <3>1, <3>2
  <2>13. ASSUME NEW i \in Waiting(r, id)', NEW j \in Waiting(r, id)', i < j
         PROVE  queue'[r][i].nonce < queue'[r][j].nonce
    <3>1. i \in Waiting(r, id) /\ i \in 1 .. l
      BY <2>6, <2>7, <2>8, <2>13
    <3>2. CASE j \in Waiting(r, id)
      BY <2>7, <2>11, <2>13, <3>1, <3>2
    <3>3. CASE j = l + 1 /\ id = m.id
      BY <2>7, <2>8, <2>9, <2>10, <2>11, <3>1, <3>3 DEF Nonces
    <3>4. QED
      BY <2>6, <3>2, <3>3
  <2>14. ASSUME NEW i \in Waiting(r, id)'
         PROVE  /\ queue'[r][i].nonce <= Nonce(id)'
                /\ queue'[r][i].nonce > synced[r][id]
                      \/ (i = 1 /\ queue'[r][i].nonce = synced[r][id])
    <3>1. CASE i \in Waiting(r, id)
      BY <2>7, <2>9, <2>11, <3>1 DEF Nonces
    <3>2. CASE i = l + 1 /\ id = m.id
      BY <2>8, <2>9, <2>10, <3>2
    <3>3. QED
      BY <2>6, <3>1, <3>2
  <2>15. QED
    BY <2>12, <2>13, <2>14
<1>19. Advances(m.id)
  BY <1>1, <1>2, <1>5, <1>6 DEF Advances
<1>20. QED
  BY <1>11, <1>12, <1>13, <1>14, <1>15, <1>16, <1>17, <1>18, <1>19 DEF IInv

LEMMA PostHandleMsgValidatorJoinStep ==
    ASSUME IInv, NEW m \in pipe[2], PostHandleMsgValidatorJoin(m)
    PROVE  IInv' /\ Advances(m.id)
<1> DEFINE signer == EventOf(m).signer
           v == [id |-> m.id, startEpoch |-> EventOf(m).startEpoch, endEpoch |-> 0,
                 nonce |-> m.nonce, votingPower |-> 1]
<1>1. /\ Approved(m, "validatorJoin")
      /\ m.type = "event" /\ SequenceOf(m) \notin sequences
      /\ EventOf(m).type = "validatorJoin"
      /\ validators' = [validators EXCEPT ![signer] = v]
      /\ signerOf' = [signerOf EXCEPT ![m.id] = signer]
  BY DEF PostHandleMsgValidatorJoin, Approved
<1>2. /\ m.id \in ValidatorID /\ m.nonce \in Nonces /\ m.nonce = Nonce(m.id) + 1
      /\ m.nonce <= l1Nonce[m.id] /\ EventOf(m) \in Event
  BY <1>1, NextEvent
<1>3. m.nonce = 1 /\ EventOf(m).endEpoch = 0
  BY <1>1, <1>2 DEF IInv, EventsInv, EventOf
<1>4. signer \in Signer /\ v \in Validator /\ v # None
  BY <1>2, <1>3, NoneAssumption DEF Event, Validator
<1>5. validators \in [Signer -> Validator \cup {None}]
  BY DEF IInv, TypeOK
<1>6. /\ validators' \in [Signer -> Validator \cup {None}]
      /\ validators'[signer] = v
      /\ \A s \in Signer \ {signer} : validators'[s] = validators[s]
  BY <1>1, <1>4, <1>5
<1>7. signerOf[m.id] = None
  <2>1. ~ HasValidator(m.id)
    BY <1>2, <1>3, StoreTypes DEF IInv, Nonces
  <2>2. QED
    BY <1>2, <2>1, StoreTypes DEF IInv
<1>8. \A s \in Signer : validators[s] # None /\ validators[s].id = m.id =>
                           ~ (validators[s].votingPower > 0)
  BY <1>7, NoneAssumption DEF IInv, OneSignerWithPower
<1>9. v.id = m.id /\ v.nonce = m.nonce /\ v.startEpoch = EventOf(m).startEpoch
         /\ v.endEpoch = EventOf(m).endEpoch /\ v.votingPower > 0
  BY <1>3
<1> HIDE DEF v
<1>10. QED
  BY <1>1, <1>4, <1>6, <1>8, <1>9, AppliedStep

LEMMA PostHandleMsgSignerUpdateStep ==
    ASSUME IInv, NEW m \in pipe[2], PostHandleMsgSignerUpdate(m)
    PROVE  IInv' /\ Advances(m.id)
<1> DEFINE signer == EventOf(m).signer
           old == signerOf[m.id]
           gone == [validators[old] EXCEPT !.endEpoch = ackCount, !.votingPower = 0,
                                           !.nonce = m.nonce]
           v == [ValidatorOf(m.id) EXCEPT !.nonce = m.nonce]
<1>1. /\ Approved(m, "signerUpdate") /\ HasValidator(m.id) /\ signer # old
      /\ m.type = "event" /\ SequenceOf(m) \notin sequences
      /\ EventOf(m).type = "signerUpdate"
      /\ validators' = [validators EXCEPT ![old] = gone, ![signer] = v]
      /\ signerOf' = [signerOf EXCEPT ![m.id] = signer]
  BY DEF PostHandleMsgSignerUpdate, Approved
<1>2. /\ m.id \in ValidatorID /\ m.nonce \in Nonces
      /\ m.nonce <= l1Nonce[m.id] /\ EventOf(m) \in Event
  BY <1>1, NextEvent
<1>3. /\ old \in Signer /\ validators[old] \in Validator /\ validators[old] # None
      /\ validators[old].id = m.id /\ validators[old].votingPower > 0
      /\ ValidatorOf(m.id) = validators[old]
      /\ validators[old].startEpoch = events[m.id][m.nonce - 1].startEpoch
      /\ validators[old].endEpoch = events[m.id][m.nonce - 1].endEpoch
  BY <1>1, PreviousEvent DEF HasValidator, ValidatorOf
<1>4. /\ EventOf(m).startEpoch = validators[old].startEpoch
      /\ EventOf(m).endEpoch = validators[old].endEpoch
  BY <1>1, <1>2, <1>3 DEF IInv, EventsInv, EventOf
<1>5. /\ signer \in Signer /\ ackCount \in Epoch
      /\ validators \in [Signer -> Validator \cup {None}]
  BY <1>2 DEF IInv, TypeOK, Event
<1>6. /\ v \in Validator /\ v # None /\ v.id = m.id /\ v.nonce = m.nonce
      /\ v.startEpoch = EventOf(m).startEpoch /\ v.endEpoch = EventOf(m).endEpoch
      /\ v.votingPower > 0
  BY <1>2, <1>3, <1>4, NoneAssumption DEF Validator
<1>7. gone \in Validator /\ gone.id = m.id /\ ~ (gone.votingPower > 0)
  <2>1. \A x \in Validator :
           LET y == [x EXCEPT !.endEpoch = ackCount, !.votingPower = 0, !.nonce = m.nonce] IN
           y \in Validator /\ y.id = x.id /\ y.votingPower = 0
    BY <1>2, <1>5 DEF Validator
  <2>2. gone \in Validator /\ gone.id = validators[old].id /\ gone.votingPower = 0
    BY <1>3, <2>1
  <2>3. QED
    BY <1>3, <2>2
<1> HIDE DEF v, gone, signer, old
<1>8. /\ validators' \in [Signer -> Validator \cup {None}]
      /\ validators'[signer] = v /\ validators'[old] = gone
      /\ \A s \in Signer \ {signer, old} : validators'[s] = validators[s]
  BY <1>1, <1>3, <1>5, <1>6, <1>7
<1>9. \A s \in Signer \ {old} : validators[s] # None /\ validators[s].id = m.id =>
                                   ~ (validators[s].votingPower > 0)
  BY DEF IInv, OneSignerWithPower, old
<1>10. \A s \in Signer \ {signer} :
          \/ validators'[s] = validators[s]
                /\ (validators[s] # None /\ validators[s].id = m.id =>
                       ~ (validators[s].votingPower > 0))
          \/ /\ validators'[s].id = m.id /\ ~ (validators'[s].votingPower > 0)
             /\ validators[s] # None /\ validators[s].id = m.id
  BY <1>3, <1>7, <1>8, <1>9
<1>11. QED
  BY <1>1, <1>6, <1>8, <1>10, AppliedStep DEF signer

LEMMA PostHandleMsgValidatorExitStep ==
    ASSUME IInv, NEW m \in pipe[2], PostHandleMsgValidatorExit(m)
    PROVE  IInv' /\ Advances(m.id)
<1> DEFINE old == signerOf[m.id]
           v == [validators[old] EXCEPT !.endEpoch = EventOf(m).endEpoch,
                                        !.nonce = m.nonce]
<1>1. /\ Approved(m, "validatorExit") /\ HasValidator(m.id)
      /\ m.type = "event" /\ SequenceOf(m) \notin sequences
      /\ EventOf(m).type = "validatorExit"
      /\ validators' = [validators EXCEPT ![old] = v]
      /\ signerOf' = signerOf
  BY DEF PostHandleMsgValidatorExit, Approved
<1>2. /\ m.id \in ValidatorID /\ m.nonce \in Nonces
      /\ m.nonce <= l1Nonce[m.id] /\ EventOf(m) \in Event
  BY <1>1, NextEvent
<1>3. /\ old \in Signer /\ validators[old] \in Validator
      /\ validators[old].id = m.id /\ validators[old].votingPower > 0
      /\ old = events[m.id][m.nonce - 1].signer
      /\ validators[old].startEpoch = events[m.id][m.nonce - 1].startEpoch
  BY <1>1, PreviousEvent DEF ValidatorOf
<1>4. EventOf(m).startEpoch = validators[old].startEpoch /\ EventOf(m).signer = old
  BY <1>1, <1>2, <1>3 DEF IInv, EventsInv, EventOf
<1>5. validators \in [Signer -> Validator \cup {None}]
      /\ signerOf \in [ValidatorID -> Signer \cup {None}]
  BY DEF IInv, TypeOK
<1>6. /\ v \in Validator /\ v # None /\ v.id = m.id /\ v.nonce = m.nonce
      /\ v.startEpoch = EventOf(m).startEpoch /\ v.endEpoch = EventOf(m).endEpoch
      /\ v.votingPower > 0
  BY <1>2, <1>3, <1>4, NoneAssumption DEF Validator, Event
<1>7. signerOf' = [signerOf EXCEPT ![m.id] = EventOf(m).signer]
  BY <1>1, <1>2, <1>4, <1>5
<1> HIDE DEF v, old
<1>8. /\ validators' \in [Signer -> Validator \cup {None}]
      /\ validators'[old] = v
      /\ \A s \in Signer \ {old} : validators'[s] = validators[s]
  BY <1>1, <1>3, <1>5, <1>6
<1>9. \A s \in Signer \ {old} : validators[s] # None /\ validators[s].id = m.id =>
                                   ~ (validators[s].votingPower > 0)
  BY DEF IInv, OneSignerWithPower, old
<1>10. QED
  BY <1>1, <1>4, <1>6, <1>7, <1>8, <1>9, AppliedStep

-----------------------------------------------------------------------------
(* Staking sync.                                                           *)

\* A message that is next in its queue, and its record.
LEMMA IsNextFacts ==
    ASSUME IInv, NEW m \in Msg, m.type # "event", IsNext(m)
    PROVE  /\ m.root \in SyncRoot /\ m.id \in ValidatorID /\ m.nonce \in Nonces
           /\ queue[m.root] \in Seq(Record) /\ Len(queue[m.root]) \in Nat \ {0}
           /\ DOMAIN queue[m.root] = 1 .. Len(queue[m.root])
           /\ 1 \in Waiting(m.root, m.id) /\ queue[m.root][1].nonce = m.nonce
           /\ queue[m.root][1] \in Record /\ queue[m.root][1].id = m.id
<1>1. m.root \in SyncRoot /\ m.id \in ValidatorID /\ m.nonce \in Nonces
  BY MsgFields
<1>2. queue[m.root] \in Seq(Record) /\ queue[m.root] # <<>>
      /\ Head(queue[m.root]).id = m.id /\ Head(queue[m.root]).nonce = m.nonce
  BY <1>1 DEF IInv, TypeOK, IsNext
<1>3. Len(queue[m.root]) \in Nat \ {0} /\ DOMAIN queue[m.root] = 1 .. Len(queue[m.root])
      /\ Head(queue[m.root]) = queue[m.root][1]
  BY <1>2, EmptySeq, LenProperties, HeadTailProperties
<1>4. queue[m.root][1] \in Record
  BY <1>2, <1>3, ElementOfSeq
<1>5. QED
  BY <1>1, <1>2, <1>3, <1>4 DEF Waiting

LEMMA PostHandleMsgStakingSyncStep ==
    ASSUME IInv, NEW m \in pipe[2], PostHandleMsgStakingSync(m)
    PROVE  IInv'
<1>1. /\ m.type # "event" /\ IsNext(m) /\ Executed(m)
      /\ queue' = [queue EXCEPT ![m.root][1].age = 0]
      /\ notified' = [notified EXCEPT ![m.root] = TRUE]
      /\ UNCHANGED <<l1Nonce, events, ackCount, validators, signerOf, sequences, synced>>
  BY DEF PostHandleMsgStakingSync, l1Vars
<1>2. m \in Msg /\ pipe' \in [0 .. 2 -> SUBSET Msg]
      /\ \A k \in 0 .. 2 : pipe'[k] \subseteq pipe[k]
  BY <1>1, ExecutedFacts
<1> DEFINE q == queue[m.root]
           sent == [q[1] EXCEPT !.age = 0]
<1>3. /\ m.root \in SyncRoot /\ q \in Seq(Record) /\ Len(q) \in Nat \ {0}
      /\ DOMAIN q = 1 .. Len(q) /\ q[1] \in Record
  BY <1>1, <1>2, IsNextFacts
<1>4. sent \in Record /\ sent.id = q[1].id /\ sent.nonce = q[1].nonce
  <2>1. \A x \in Record : LET y == [x EXCEPT !.age = 0] IN
           y \in Record /\ y.id = x.id /\ y.nonce = x.nonce
    BY BoundAssumption DEF Record, Age
  <2>2. QED
    BY <1>3, <2>1
<1>5. queue \in [SyncRoot -> Seq(Record)]
  BY DEF IInv, TypeOK
<1>6. queue' = [queue EXCEPT ![m.root] = [q EXCEPT ![1] = sent]]
  BY <1>1, <1>3, <1>5
<1>7. [q EXCEPT ![1] = sent] \in Seq(Record)
  BY <1>3, <1>4, ExceptSeq
<1> HIDE DEF sent
<1>8. queue' \in [SyncRoot -> Seq(Record)]
  BY <1>5, <1>6, <1>7
<1>9. \A r \in SyncRoot :
         /\ DOMAIN queue'[r] = DOMAIN queue[r]
         /\ \A i \in DOMAIN queue[r] : /\ queue'[r][i].id = queue[r][i].id
                                       /\ queue'[r][i].nonce = queue[r][i].nonce
  BY <1>3, <1>4, <1>5, <1>6
<1>10. TypeOK'
  BY <1>1, <1>2, <1>3, <1>8 DEF IInv, TypeOK
<1>11. PipeInv'
  BY <1>1, <1>2, PipeUnchanged
<1>12. QueueHoldsUnsynced' /\ SyncedInv'
  BY <1>1, <1>9, QueueUnchanged
<1>13. QED
  BY <1>1, <1>10, <1>11, <1>12, StoreUnchanged, StakeChainUnchanged DEF IInv

LEMMA PostHandleMsgStakingSyncAckStep ==
    ASSUME IInv, NEW m \in pipe[2], PostHandleMsgStakingSyncAck(m)
    PROVE  IInv'
<1>1. /\ m.type # "event" /\ IsNext(m) /\ Executed(m)
      /\ synced[m.root][m.id] >= m.nonce
      /\ queue' = [queue EXCEPT ![m.root] = Tail(@)]
      /\ UNCHANGED <<l1Nonce, events, ackCount, validators, signerOf, sequences, notified,
                     synced>>
  BY DEF PostHandleMsgStakingSyncAck, l1Vars
<1>2. m \in Msg /\ pipe' \in [0 .. 2 -> SUBSET Msg]
      /\ \A k \in 0 .. 2 : pipe'[k] \subseteq pipe[k]
  BY <1>1, ExecutedFacts
<1> DEFINE q == queue[m.root]
           l == Len(q)
<1>3. /\ m.root \in SyncRoot /\ m.id \in ValidatorID /\ m.nonce \in Nonces
      /\ q \in Seq(Record) /\ l \in Nat \ {0} /\ DOMAIN q = 1 .. l
      /\ 1 \in Waiting(m.root, m.id) /\ q[1].nonce = m.nonce /\ q[1].id = m.id
  BY <1>1, <1>2, IsNextFacts
<1>4. /\ Tail(q) \in Seq(Record) /\ DOMAIN Tail(q) = 1 .. l - 1
      /\ \A i \in 1 .. l - 1 : Tail(q)[i] = q[i + 1]
  BY <1>3, HeadTailProperties, LenProperties
<1>5. queue \in [SyncRoot -> Seq(Record)]
  BY DEF IInv, TypeOK
<1>6. queue' \in [SyncRoot -> Seq(Record)] /\ queue'[m.root] = Tail(q)
      /\ \A r \in SyncRoot : r # m.root => queue'[r] = queue[r]
  BY <1>1, <1>3, <1>4, <1>5
<1>7. TypeOK'
  BY <1>1, <1>2, <1>6 DEF IInv, TypeOK
<1>8. PipeInv' /\ SyncedInv'
  BY <1>1, <1>2, PipeUnchanged, StoreUnchanged DEF IInv, SyncedInv
<1>9. QueueHoldsUnsynced'
  <2>0. synced' = synced /\ \A id \in ValidatorID : Nonce(id)' = Nonce(id)
    BY <1>1, StoreUnchanged
  <2> SUFFICES ASSUME NEW r \in SyncRoot, NEW id \in ValidatorID
               PROVE  /\ \A n \in synced[r][id] + 1 .. Nonce(id) :
                            \E i \in Waiting(r, id)' : queue'[r][i].nonce = n
                      /\ \A i, j \in Waiting(r, id)' :
                            i < j => queue'[r][i].nonce < queue'[r][j].nonce
                      /\ \A i \in Waiting(r, id)' :
                            /\ queue'[r][i].nonce <= Nonce(id)
                            /\ queue'[r][i].nonce > synced[r][id]
                                  \/ (i = 1 /\ queue'[r][i].nonce = synced[r][id])
    BY <2>0 DEF QueueHoldsUnsynced
  <2>1. /\ \A n \in synced[r][id] + 1 .. Nonce(id) :
              \E i \in Waiting(r, id) : queue[r][i].nonce = n
        /\ \A i, j \in Waiting(r, id) : i < j => queue[r][i].nonce < queue[r][j].nonce
        /\ \A i \in Waiting(r, id) :
              /\ queue[r][i].nonce <= Nonce(id)
              /\ queue[r][i].nonce > synced[r][id]
                    \/ (i = 1 /\ queue[r][i].nonce = synced[r][id])
    BY DEF IInv, QueueHoldsUnsynced
  <2>2. CASE r # m.root
    <3>1. queue'[r] = queue[r] /\ Waiting(r, id)' = Waiting(r, id)
      BY <1>6, <2>2 DEF Waiting
    <3>2. QED
      BY <2>1, <3>1
  <2>3. CASE r = m.root
    <3>1. Waiting(r, id) = {i \in 1 .. l : q[i].id = id}
      BY <1>3, <2>3 DEF Waiting
    <3>2. Waiting(r, id)' = {i \in 1 .. l - 1 : q[i + 1].id = id}
      BY <1>4, <1>6, <2>3 DEF Waiting
    <3>3. \A i \in Waiting(r, id)' : /\ i \in 1 .. l - 1 /\ i + 1 \in Waiting(r, id)
                                     /\ queue'[r][i] = queue[r][i + 1]
      <4>1. TAKE i \in Waiting(r, id)'
      <4>2. i \in 1 .. l - 1 /\ q[i + 1].id = id
        BY <3>2
      <4>3. i + 1 \in 1 .. l
        BY <1>3, <4>2
      <4>4. Tail(q)[i] = q[i + 1]
        BY <1>4, <4>2
      <4>5. QED
        BY <1>6, <2>3, <3>1, <4>2, <4>3, <4>4
    <3>4. \A i \in Waiting(r, id) : i # 1 => i - 1 \in Waiting(r, id)'
      BY <1>3, <3>1, <3>2
    <3>5. synced[r][id] \in Nat
      BY DEF IInv, TypeOK
    <3>6. ASSUME NEW n \in synced[r][id] + 1 .. Nonce(id)
          PROVE  \E i \in Waiting(r, id)' : queue'[r][i].nonce = n
      <4>1. PICK i \in Waiting(r, id) : queue[r][i].nonce = n
        BY <2>1
      <4>2. i # 1
        <5>1. SUFFICES ASSUME i = 1 PROVE FALSE
          OBVIOUS
        <5>2. id = m.id /\ n = m.nonce
          BY <1>3, <2>3, <3>1, <4>1, <5>1
        <5>3. n > synced[r][id] /\ m.nonce \in Nat
          BY <1>3, <3>5 DEF Nonces
        <5>4. QED
          BY <1>1, <2>3, <3>5, <5>2, <5>3
      <4>3. i - 1 \in Waiting(r, id)' /\ i \in Nat
        BY <3>1, <3>4, <4>2
      <4>4. queue'[r][i - 1] = queue[r][i]
        BY <3>3, <4>3
      <4>5. QED
        BY <4>1, <4>3, <4>4
    <3>7. ASSUME NEW i \in Waiting(r, id)', NEW j \in Waiting(r, id)', i < j
          PROVE  queue'[r][i].nonce < queue'[r][j].nonce
      <4>1. i + 1 < j + 1
        BY <1>3, <3>3, <3>7
      <4>2. QED
        BY <2>1, <3>3, <4>1
    <3>8. ASSUME NEW i \in Waiting(r, id)'
          PROVE  queue'[r][i].nonce <= Nonce(id) /\ queue'[r][i].nonce > synced[r][id]
      <4>1. i + 1 # 1
        BY <1>3, <3>3
      <4>2. QED
        BY <2>1, <3>3, <4>1
    <3>9. QED
      BY <3>6, <3>7, <3>8
  <2>4. QED
    BY <2>2, <2>3
<1>10. QED
  BY <1>1, <1>7, <1>8, <1>9, StoreUnchanged, StakeChainUnchanged DEF IInv

\* What is sent is the nonce after the contract's: a gap would still wait behind
\* it in the queue.
LEMMA SendStakingSyncFacts ==
    ASSUME IInv, NEW r \in SyncRoot, SendStakingSync(r)
    PROVE  \E id \in ValidatorID :
              /\ synced[r][id] < Nonce(id)
              /\ synced' = [synced EXCEPT ![r][id] = synced[r][id] + 1]
              /\ 1 \in Waiting(r, id) /\ queue[r][1].nonce = synced[r][id] + 1
<1> DEFINE id == Head(queue[r]).id
           h  == Head(queue[r]).nonce
<1>1. /\ queue[r] # <<>> /\ synced[r][id] < h
      /\ synced' = [synced EXCEPT ![r][id] = h]
  BY DEF SendStakingSync
<1>2. queue[r] \in Seq(Record)
  BY DEF IInv, TypeOK
<1>3. Len(queue[r]) \in Nat \ {0} /\ DOMAIN queue[r] = 1 .. Len(queue[r])
         /\ Head(queue[r]) = queue[r][1]
  BY <1>1, <1>2, EmptySeq, LenProperties, HeadTailProperties
<1>4. Head(queue[r]) \in Record
  BY <1>2, <1>3, ElementOfSeq
<1>5. id \in ValidatorID /\ h \in Nat
  BY <1>4 DEF Record, Nonces
<1>6. 1 \in Waiting(r, id) /\ queue[r][1].nonce = h
  BY <1>3 DEF Waiting
<1> HIDE DEF id, h
<1>7. synced[r][id] \in Nat /\ Nonce(id) \in Nat
  BY <1>5, StoreTypes DEF IInv, TypeOK
<1>8. /\ \A n \in synced[r][id] + 1 .. Nonce(id) :
            \E i \in Waiting(r, id) : queue[r][i].nonce = n
      /\ \A i, j \in Waiting(r, id) : i < j => queue[r][i].nonce < queue[r][j].nonce
      /\ h <= Nonce(id)
  BY <1>5, <1>6 DEF IInv, QueueHoldsUnsynced
<1>9. h = synced[r][id] + 1
  <2>1. SUFFICES ASSUME h # synced[r][id] + 1 PROVE FALSE
    OBVIOUS
  <2>2. synced[r][id] + 1 \in synced[r][id] + 1 .. Nonce(id)
    BY <1>1, <1>5, <1>7, <1>8
  <2>3. PICK i \in Waiting(r, id) : queue[r][i].nonce = synced[r][id] + 1
    BY <1>8, <2>2
  <2>4. i \in Nat /\ i >= 1
    BY <1>3, <2>3 DEF Waiting
  <2>5. i # 1
    BY <1>6, <2>1, <2>3
  <2>6. queue[r][1].nonce < queue[r][i].nonce
    BY <1>6, <1>8, <2>3, <2>4, <2>5
  <2>7. QED
    BY <1>1, <1>5, <1>6, <1>7, <2>3, <2>6
<1>10. synced[r][id] < Nonce(id)
  BY <1>7, <1>8, <1>9
<1>11. synced' = [synced EXCEPT ![r][id] = synced[r][id] + 1]
  BY <1>1, <1>9
<1>12. QED
  BY <1>5, <1>6, <1>9, <1>10, <1>11

LEMMA SendStakingSyncStep ==
    ASSUME IInv, NEW r \in SyncRoot, SendStakingSync(r)
    PROVE  IInv'
<1>1. PICK id \in ValidatorID :
         /\ synced[r][id] < Nonce(id)
         /\ synced' = [synced EXCEPT ![r][id] = synced[r][id] + 1]
         /\ 1 \in Waiting(r, id) /\ queue[r][1].nonce = synced[r][id] + 1
  BY SendStakingSyncFacts
<1>2. /\ notified' = [notified EXCEPT ![r] = FALSE]
      /\ UNCHANGED <<l1Nonce, events, ackCount, validators, signerOf, sequences, queue, pipe>>
  BY DEF SendStakingSync, l1Vars, heimdallVars
<1>3. synced \in [SyncRoot -> [ValidatorID -> 0 .. MaxNonce]]
      /\ pipe \in [0 .. 2 -> SUBSET Msg]
  BY DEF IInv, TypeOK
<1>4. \A j \in ValidatorID : Nonce(j) \in 0 .. MaxNonce /\ Nonce(j)' = Nonce(j)
  BY <1>2, StoreTypes, StoreUnchanged DEF IInv
<1>5. /\ synced'[r][id] = synced[r][id] + 1
      /\ \A q \in SyncRoot, j \in ValidatorID :
            q # r \/ j # id => synced'[q][j] = synced[q][j]
  BY <1>1, <1>3
<1>6. synced[r][id] + 1 \in 0 .. MaxNonce
  BY <1>1, <1>3, <1>4, BoundAssumption
<1>7. TypeOK'
  <2>1. synced' \in [SyncRoot -> [ValidatorID -> 0 .. MaxNonce]]
    BY <1>1, <1>3, <1>6
  <2>2. QED
    BY <1>2, <2>1 DEF IInv, TypeOK
<1>8. SyncedInv'
  <2> SUFFICES ASSUME NEW q \in SyncRoot, NEW j \in ValidatorID
               PROVE  synced'[q][j] <= Nonce(j)
    BY <1>4 DEF SyncedInv
  <2>1. CASE q = r /\ j = id
    BY <1>1, <1>3, <1>4, <1>5, <2>1
  <2>2. CASE q # r \/ j # id
    BY <1>5, <2>2 DEF IInv, SyncedInv
  <2>3. QED
    BY <2>1, <2>2
<1>9. PipeInv'
  BY <1>2, <1>3, PipeUnchanged
<1>10. QueueHoldsUnsynced'
  <2> SUFFICES ASSUME NEW q \in SyncRoot, NEW j \in ValidatorID
               PROVE  /\ \A n \in synced'[q][j] + 1 .. Nonce(j) :
                            \E i \in Waiting(q, j) : queue[q][i].nonce = n
                      /\ \A i, k \in Waiting(q, j) :
                            i < k => queue[q][i].nonce < queue[q][k].nonce
                      /\ \A i \in Waiting(q, j) :
                            /\ queue[q][i].nonce <= Nonce(j)
                            /\ queue[q][i].nonce > synced'[q][j]
                                  \/ (i = 1 /\ queue[q][i].nonce = synced'[q][j])
    BY <1>2, <1>4 DEF QueueHoldsUnsynced, Waiting
  <2>1. /\ \A n \in synced[q][j] + 1 .. Nonce(j) :
              \E i \in Waiting(q, j) : queue[q][i].nonce = n
        /\ \A i, k \in Waiting(q, j) : i < k => queue[q][i].nonce < queue[q][k].nonce
        /\ \A i \in Waiting(q, j) :
              /\ queue[q][i].nonce <= Nonce(j)
              /\ queue[q][i].nonce > synced[q][j]
                    \/ (i = 1 /\ queue[q][i].nonce = synced[q][j])
    BY DEF IInv, QueueHoldsUnsynced
  <2>2. CASE q # r \/ j # id
    BY <1>5, <2>1, <2>2
  <2>3. CASE q = r /\ j = id
    <3>1. synced[r][id] \in Nat /\ Nonce(id) \in Nat
      BY <1>3, <1>4
    <3>2. \A n \in synced'[q][j] + 1 .. Nonce(j) : n \in synced[q][j] + 1 .. Nonce(j)
      BY <1>5, <2>3, <3>1
    <3>3. \A i \in Waiting(q, j) : i \in Nat /\ i >= 1 /\ queue[q][i].nonce \in Nat
      <4>1. TAKE i \in Waiting(q, j)
      <4>2. queue[q] \in Seq(Record)
        BY DEF IInv, TypeOK
      <4>3. i \in 1 .. Len(queue[q])
        BY <4>2, LenProperties DEF Waiting
      <4>4. queue[q][i] \in Record
        BY <4>2, <4>3, ElementOfSeq
      <4>5. QED
        BY <4>2, <4>3, <4>4, LenProperties DEF Record, Nonces
    <3>4. ASSUME NEW i \in Waiting(q, j)
          PROVE  queue[q][i].nonce > synced'[q][j]
                    \/ (i = 1 /\ queue[q][i].nonce = synced'[q][j])
      <4>1. CASE i = 1
        BY <1>1, <1>5, <2>3, <4>1
      <4>2. CASE i # 1
        <5>1. queue[q][1].nonce < queue[q][i].nonce
          BY <1>1, <2>1, <2>3, <3>3, <4>2
        <5>2. QED
          BY <1>1, <1>5, <2>3, <3>1, <3>3, <5>1
      <4>3. QED
        BY <4>1, <4>2
    <3>5. QED
      BY <2>1, <3>2, <3>4
  <2>4. QED
    BY <2>2, <2>3
<1>11. QED
  BY <1>2, <1>7, <1>8, <1>9, <1>10, StoreUnchanged, StakeChainUnchanged DEF IInv

-----------------------------------------------------------------------------
(* The other steps.                                                        *)

LEMMA SideTxDroppedStep ==
    ASSUME IInv, NEW m \in pipe[2], SideTxDropped(m)
    PROVE  IInv'
<1>1. Executed(m) /\ UNCHANGED <<l1Nonce, events, ackCount, validators, signerOf, sequences,
                                 queue, notified, synced>>
  BY DEF SideTxDropped, l1Vars, heimdallVars
<1>2. pipe' \in [0 .. 2 -> SUBSET Msg] /\ \A k \in 0 .. 2 : pipe'[k] \subseteq pipe[k]
  BY <1>1, ExecutedFacts
<1>3. TypeOK'
  BY <1>1, <1>2 DEF IInv, TypeOK
<1>4. PipeInv'
  BY <1>1, <1>2, PipeUnchanged
<1>5. QueueHoldsUnsynced' /\ SyncedInv'
  BY <1>1, QueueUnchanged
<1>6. QED
  BY <1>1, <1>3, <1>4, <1>5, StoreUnchanged, StakeChainUnchanged DEF IInv

LEMMA NextBlockStep ==
    ASSUME IInv, NEW dt \in TimeSteps, NextBlock(dt)
    PROVE  IInv'
<1>1. /\ pipe[2] = {}
      /\ pipe' = [k \in 0 .. 2 |-> IF k = 0 THEN {} ELSE pipe[k - 1]]
      /\ queue' = [r \in SyncRoot |-> Aged(queue[r], dt)]
      /\ UNCHANGED <<l1Nonce, events, ackCount, validators, signerOf, sequences, notified,
                     synced>>
  BY DEF NextBlock, l1Vars
<1>2. pipe \in [0 .. 2 -> SUBSET Msg] /\ queue \in [SyncRoot -> Seq(Record)]
  BY DEF IInv, TypeOK
<1>3. \A k \in 0 .. 2 : k # 0 => k - 1 \in 0 .. 2
  OBVIOUS
<1>4. pipe' \in [0 .. 2 -> SUBSET Msg]
  BY <1>1, <1>2, <1>3
<1>5. \A k \in 0 .. 2 : \A m \in pipe'[k] : \E j \in 0 .. 2 : m \in pipe[j]
  BY <1>1, <1>3
<1>6. \A age \in Age : Older(age, dt) \in Age
  BY BoundAssumption DEF Older, Age
<1>7. \A x \in Record : LET y == [x EXCEPT !.age = Older(x.age, dt)] IN
         y \in Record /\ y.id = x.id /\ y.nonce = x.nonce
  BY <1>6 DEF Record
<1>8. ASSUME NEW r \in SyncRoot
      PROVE  /\ queue'[r] \in Seq(Record)
             /\ DOMAIN queue'[r] = DOMAIN queue[r]
             /\ \A i \in DOMAIN queue[r] : /\ queue'[r][i].id = queue[r][i].id
                                           /\ queue'[r][i].nonce = queue[r][i].nonce
  <2> DEFINE q == queue[r]
             l == Len(q)
  <2>1. q \in Seq(Record)
    BY <1>2
  <2>2. l \in Nat /\ DOMAIN q = 1 .. l /\ \A i \in 1 .. l : q[i] \in Record
    BY <2>1, LenProperties, ElementOfSeq
  <2>3. queue'[r] = [i \in 1 .. l |-> [q[i] EXCEPT !.age = Older(q[i].age, dt)]]
    BY <1>1, <2>2 DEF Aged
  <2> HIDE DEF q, l
  <2>4. \A i \in 1 .. l : /\ queue'[r][i] \in Record
                          /\ queue'[r][i].id = q[i].id /\ queue'[r][i].nonce = q[i].nonce
    BY <1>7, <2>2, <2>3
  <2>5. queue'[r] \in [1 .. l -> Record]
    BY <2>3, <2>4
  <2>6. queue'[r] \in Seq(Record)
    BY <2>2, <2>5, SeqDef
  <2>7. QED
    BY <2>2, <2>3, <2>4, <2>6 DEF q
<1>9. queue' \in [SyncRoot -> Seq(Record)]
  BY <1>1, <1>8
<1>10. TypeOK'
  BY <1>1, <1>4, <1>9 DEF IInv, TypeOK
<1>11. PipeInv'
  BY <1>1, <1>4, <1>5, PipeUnchanged
<1>12. QueueHoldsUnsynced' /\ SyncedInv'
  BY <1>1, <1>8, QueueUnchanged
<1>13. QED
  BY <1>1, <1>10, <1>11, <1>12, StoreUnchanged, StakeChainUnchanged DEF IInv

\* Steps that touch only the ack count or the notices.
LEMMA NoticeStep ==
    ASSUME IInv, ackCount' \in Epoch, notified' \in [SyncRoot -> BOOLEAN],
           UNCHANGED <<l1Nonce, events, validators, signerOf, sequences, queue, pipe, synced>>
    PROVE  IInv'
<1>1. TypeOK'
  BY DEF IInv, TypeOK
<1>2. PipeInv'
  BY PipeUnchanged DEF IInv, TypeOK
<1>3. QueueHoldsUnsynced' /\ SyncedInv'
  BY QueueUnchanged
<1>4. QED
  BY <1>1, <1>2, <1>3, StoreUnchanged, StakeChainUnchanged DEF IInv

LEMMA NextIInv == IInv /\ [Next]_vars => IInv'
<1>1. SUFFICES ASSUME IInv, [Next]_vars PROVE IInv'
  OBVIOUS
<1>2. ackCount \in Epoch /\ notified \in [SyncRoot -> BOOLEAN]
  BY <1>1 DEF IInv, TypeOK
<1>3. ASSUME NEW id \in ValidatorID, NEW s \in Signer, NEW e \in Epoch, Staked(id, s, e)
      PROVE  IInv'
  BY <1>1, <1>3, StakedStep
<1>4. ASSUME NEW id \in ValidatorID, NEW s \in Signer, SignerChange(id, s) PROVE IInv'
  BY <1>1, <1>4, SignerChangeStep
<1>5. ASSUME NEW id \in ValidatorID, NEW e \in Epoch, UnstakeInit(id, e) PROVE IInv'
  BY <1>1, <1>5, UnstakeInitStep
<1>6. ASSUME NEW m \in EventMsgs, HandlesEvent(m) PROVE IInv'
  BY <1>1, <1>6, HandlesEventStep
<1>7. ASSUME NEW m \in SyncMsg, HandleMsgStakingSync(m) \/ HandleMsgStakingSyncAck(m)
      PROVE  IInv'
  BY <1>1, <1>7, HandlesSyncStep
<1>8. ASSUME NEW m \in pipe[2], PostHandleMsgValidatorJoin(m) PROVE IInv'
  BY <1>1, <1>8, PostHandleMsgValidatorJoinStep
<1>9. ASSUME NEW m \in pipe[2], PostHandleMsgSignerUpdate(m) PROVE IInv'
  BY <1>1, <1>9, PostHandleMsgSignerUpdateStep
<1>10. ASSUME NEW m \in pipe[2], PostHandleMsgValidatorExit(m) PROVE IInv'
  BY <1>1, <1>10, PostHandleMsgValidatorExitStep
<1>11. ASSUME NEW m \in pipe[2], PostHandleMsgStakingSync(m) PROVE IInv'
  BY <1>1, <1>11, PostHandleMsgStakingSyncStep
<1>12. ASSUME NEW m \in pipe[2], PostHandleMsgStakingSyncAck(m) PROVE IInv'
  BY <1>1, <1>12, PostHandleMsgStakingSyncAckStep
<1>13. ASSUME NEW m \in pipe[2], SideTxDropped(m) PROVE IInv'
  BY <1>1, <1>13, SideTxDroppedStep
<1>14. ASSUME NEW dt \in TimeSteps, NextBlock(dt) PROVE IInv'
  BY <1>1, <1>14, NextBlockStep
<1>15. CASE UpdateACKCount
  <2>1. ackCount' \in Epoch
    BY <1>2, <1>15, BoundAssumption DEF UpdateACKCount, Epoch
  <2>2. QED
    BY <1>1, <1>2, <1>15, <2>1, NoticeStep DEF UpdateACKCount, l1Vars
<1>16. ASSUME NEW r \in SyncRoot, SendStakingSync(r) PROVE IInv'
  BY <1>1, <1>16, SendStakingSyncStep
<1>17. ASSUME NEW r \in SyncRoot, NotSent(r) PROVE IInv'
  <2>1. notified' \in [SyncRoot -> BOOLEAN]
    BY <1>2, <1>17 DEF NotSent
  <2>2. QED
    BY <1>1, <1>2, <1>17, <2>1, NoticeStep DEF NotSent, l1Vars, heimdallVars
<1>18. CASE UNCHANGED vars
  BY <1>1, <1>2, <1>18, NoticeStep DEF vars
<1>19. QED
  BY <1>1, <1>3, <1>4, <1>5, <1>6, <1>7, <1>8, <1>9, <1>10, <1>11, <1>12, <1>13, <1>14,
     <1>15, <1>16, <1>17, <1>18 DEF Next, HandlesEvent

LEMMA InvariantIInv == Spec => []IInv
  BY InitIInv, NextIInv, PTL DEF Spec

-----------------------------------------------------------------------------
(* The theorems.                                                           *)

\* The type invariant.
THEOREM TypeCorrect == Spec => []TypeOK
<1>1. IInv => TypeOK
  BY DEF IInv
<1>2. QED
  BY <1>1, InvariantIInv, PTL

\* The validator store shows the stake chain's validator at the stored nonce and
\* knows exactly the events up to it (PostHandleMsgValidatorJoin,
\* PostHandleMsgSignerUpdate, PostHandleMsgValidatorExit).
THEOREM MirrorsStakeChain == Spec => []StoreMirrorsStakeChain
<1>1. IInv => StoreMirrorsStakeChain
  BY DEF IInv
<1>2. QED
  BY <1>1, InvariantIInv, PTL

\* Only a validator's present signer has power (PostHandleMsgSignerUpdate).
THEOREM OneSigner == Spec => []OneSignerWithPower
<1>1. IInv => OneSignerWithPower
  BY DEF IInv
<1>2. QED
  BY <1>1, InvariantIInv, PTL

\* Whatever another root chain lacks waits in its queue, in order
\* (AddStakingRecordToQueue, removeStakingRecordFromQueue).
THEOREM NothingUnqueued == Spec => []QueueHoldsUnsynced
<1>1. IInv => QueueHoldsUnsynced
  BY DEF IInv
<1>2. QED
  BY <1>1, InvariantIInv, PTL

-----------------------------------------------------------------------------
(* Refinement: every event once and in order.                              *)

Applied == [id \in ValidatorID |-> Nonce(id)]

LEMMA AppliedUnchanged ==
    ASSUME UNCHANGED <<validators, signerOf>>
    PROVE  Applied' = Applied
  BY DEF Applied, Nonce, HasValidator, ValidatorOf

LEMMA EmitIsEmitted ==
    ASSUME IInv, NEW id \in ValidatorID, NEW e, Emit(id, e)
    PROVE  Replication!Next
<1>1. l1Nonce' = [l1Nonce EXCEPT ![id] = @ + 1]
      /\ UNCHANGED <<validators, signerOf, synced>>
  BY DEF Emit, heimdallVars
<1>2. Applied' = Applied
  BY <1>1, AppliedUnchanged
<1>3. Replication!Emit(id)
  BY <1>1, <1>2 DEF Replication!Emit, Applied
<1>4. QED
  BY <1>3 DEF Replication!Next

LEMMA AdvanceIsApplied ==
    ASSUME IInv, IInv', NEW id \in ValidatorID, Advances(id)
    PROVE  Replication!Next
<1>1. /\ UNCHANGED <<l1Nonce, synced>>
      /\ Nonce(id)' = Nonce(id) + 1
      /\ \A j \in ValidatorID : j # id => Nonce(j)' = Nonce(j)
  BY DEF Advances
<1>2. Nonce(id)' <= l1Nonce[id] /\ Nonce(id) \in Nat /\ l1Nonce[id] \in Nat
  BY <1>1, StoreTypes DEF IInv, StoreMirrorsStakeChain, TypeOK
<1>3. Nonce(id) < l1Nonce[id]
  BY <1>1, <1>2
<1>4. Applied' = [Applied EXCEPT ![id] = @ + 1]
  BY <1>1 DEF Applied
<1>5. Applied[id] = Nonce(id)
  BY DEF Applied
<1>6. Replication!Apply(id)
  BY <1>1, <1>3, <1>4, <1>5 DEF Replication!Apply, Applied
<1>7. QED
  BY <1>6 DEF Replication!Next

LEMMA SendIsSynced ==
    ASSUME IInv, NEW r \in SyncRoot, SendStakingSync(r)
    PROVE  Replication!Next
<1>1. PICK id \in ValidatorID :
         /\ synced[r][id] < Nonce(id)
         /\ synced' = [synced EXCEPT ![r][id] = synced[r][id] + 1]
  BY SendStakingSyncFacts
<1>2. UNCHANGED <<l1Nonce, validators, signerOf>>
  BY DEF SendStakingSync, l1Vars, heimdallVars
<1>3. Applied' = Applied /\ Applied[id] = Nonce(id)
  BY <1>2, AppliedUnchanged DEF Applied
<1>4. Replication!Sync(r, id)
  BY <1>1, <1>2, <1>3 DEF Replication!Sync, Applied
<1>5. QED
  BY <1>4 DEF Replication!Next

\* The staking module implements the replication: every event of the stake
\* chain reaches the store, and from there every other root chain, once and in
\* order.
THEOREM ReplicationRefined == Spec => ImplementsReplication
<1>1. Init => Replication!Init
  <2>1. SUFFICES ASSUME Init PROVE Replication!Init
    OBVIOUS
  <2>2. /\ l1Nonce = JoinedAtGenesis
        /\ synced = [r \in SyncRoot |-> JoinedAtGenesis]
    BY <2>1 DEF Init
  <2>3. \A id \in ValidatorID : Nonce(id) = IF id \in Genesis THEN 1 ELSE 0
    BY <2>1, InitNonce
  <2>4. Applied = l1Nonce
    BY <2>2, <2>3 DEF Applied, JoinedAtGenesis
  <2>5. l1Nonce \in [ValidatorID -> {0, 1}]
    BY <2>2 DEF JoinedAtGenesis
  <2>6. QED
    BY <2>2, <2>4, <2>5 DEF Replication!Init, Applied
<1>2. ASSUME IInv, IInv', [Next]_vars PROVE [Replication!Next]_(Replication!vars)
  <2>1. CASE UNCHANGED <<l1Nonce, validators, signerOf, synced>>
    BY <2>1, AppliedUnchanged DEF Replication!vars, Applied
  <2>2. ASSUME NEW id \in ValidatorID, NEW e, Emit(id, e) PROVE Replication!Next
    BY <1>2, <2>2, EmitIsEmitted
  <2>3. ASSUME NEW id \in ValidatorID, NEW s \in Signer, NEW e \in Epoch, Staked(id, s, e)
        PROVE  Replication!Next
    BY <2>2, <2>3 DEF Staked
  <2>4. ASSUME NEW id \in ValidatorID, NEW s \in Signer, SignerChange(id, s)
        PROVE  Replication!Next
    BY <2>2, <2>4 DEF SignerChange
  <2>5. ASSUME NEW id \in ValidatorID, NEW e \in Epoch, UnstakeInit(id, e)
        PROVE  Replication!Next
    BY <2>2, <2>5 DEF UnstakeInit
  <2>6. ASSUME NEW m, Deliver(m) PROVE [Replication!Next]_(Replication!vars)
    BY <2>1, <2>6 DEF Deliver, l1Vars, heimdallVars
  <2>7. ASSUME NEW m \in pipe[2],
               \/ PostHandleMsgValidatorJoin(m)
               \/ PostHandleMsgSignerUpdate(m)
               \/ PostHandleMsgValidatorExit(m)
        PROVE  Replication!Next
    <3>1. m.id \in ValidatorID
      BY <1>2, MsgFields DEF IInv, TypeOK
    <3>2. Advances(m.id)
      BY <1>2, <2>7, PostHandleMsgValidatorJoinStep, PostHandleMsgSignerUpdateStep,
         PostHandleMsgValidatorExitStep
    <3>3. QED
      BY <1>2, <3>1, <3>2, AdvanceIsApplied
  <2>8. ASSUME NEW m \in pipe[2],
               \/ PostHandleMsgStakingSync(m)
               \/ PostHandleMsgStakingSyncAck(m)
               \/ SideTxDropped(m)
        PROVE  [Replication!Next]_(Replication!vars)
    BY <2>1, <2>8 DEF PostHandleMsgStakingSync, PostHandleMsgStakingSyncAck, SideTxDropped,
                      l1Vars, heimdallVars
  <2>9. ASSUME NEW dt \in TimeSteps, NextBlock(dt)
        PROVE  [Replication!Next]_(Replication!vars)
    BY <2>1, <2>9 DEF NextBlock, l1Vars
  <2>10. CASE UpdateACKCount
    BY <2>1, <2>10 DEF UpdateACKCount, l1Vars
  <2>11. ASSUME NEW r \in SyncRoot, SendStakingSync(r) PROVE Replication!Next
    BY <1>2, <2>11, SendIsSynced
  <2>12. ASSUME NEW r \in SyncRoot, NotSent(r) PROVE [Replication!Next]_(Replication!vars)
    BY <2>1, <2>12 DEF NotSent, l1Vars, heimdallVars
  <2>13. CASE UNCHANGED vars
    BY <2>1, <2>13 DEF vars
  <2>14. QED
    BY <1>2, <2>3, <2>4, <2>5, <2>6, <2>7, <2>8, <2>9, <2>10, <2>11, <2>12, <2>13
    DEF Next, HandleMsgValidatorJoin, HandleMsgSignerUpdate, HandleMsgValidatorExit,
        HandleMsgStakingSync, HandleMsgStakingSyncAck
<1>3. QED
  BY <1>1, <1>2, InvariantIInv, PTL DEF Spec, ImplementsReplication, Replication!Spec
===============================================================================
