-------------------------------- MODULE Gov --------------------------------
(* Governance on the coins of the chain: proposals, their deposits and votes,
   and the EndBlocker that drops or decides them. A deposit and a vote belong
   to a validator by its ID, so that they outlive a change of its signer: the
   refund goes to whoever signs for the validator when the proposal ends.

   Time is the time of the block, in units of a block. A proposal's content is
   left out: a validator's proposal is accepted or not, and the handler of a
   proposal that passed fails or not. A validator that leaves the set is no
   longer active; its record and its ID stay. *)
EXTENDS Coins

CONSTANTS
  Validators,      \* validator IDs
  FirstSigner,     \* the signer of each validator in the genesis file
  Power,           \* the voting power of each validator
  IDs,             \* proposal IDs 1..n: the bound on proposals
  Options,         \* vote options used
  InitialDeposits, \* amounts a proposal comes with
  MinDeposit,
  DepositPeriod, VotingPeriod,
  Quorum, Threshold, Veto,   \* in thousandths
  Leavers,         \* bound: validators that may leave the set
  LastTxTime,      \* bound: time of the last block with transactions
  MaxTime          \* bound: the time stops here

ASSUME GovAssumption ==
  /\ IsFiniteSet(Validators) /\ IsFiniteSet(IDs)
  /\ FirstSigner \in [Validators -> Users]
  /\ Power \in [Validators -> Nat]
  /\ Leavers \subseteq Validators
  /\ IDs \subseteq Nat \ {0}
  /\ Options \subseteq {"Yes", "Abstain", "No", "NoWithVeto"}
  /\ InitialDeposits \subseteq Nat /\ MinDeposit \in Nat
  /\ DepositPeriod \in Nat /\ VotingPeriod \in Nat
  /\ Quorum \in Nat /\ Threshold \in Nat /\ Veto \in Nat
  /\ LastTxTime \in Nat /\ MaxTime \in Nat
  /\ LastTxTime + DepositPeriod <= MaxTime
  /\ LastTxTime + VotingPeriod <= MaxTime

VARIABLES
  now,          \* the time of the block
  ran,          \* history: the governance EndBlocker has run before this time
  proposer,     \* the signer the fees of the block go to
  signer,       \* the signer of each validator
  active,       \* the validators of the current set
  nextID,       \* the ID of the next proposal
  status,       \* the status of each proposal; "None" when it is not stored
  total,        \* TotalDeposit of each proposal
  depositEnd, votingEnd,
  deposits,     \* what each validator deposited on each proposal
  votes,        \* the option each validator voted on each proposal, or "Empty"
  inactiveQueue, activeQueue   \* the queues of IDs under their end times

proposalVars == <<nextID, status, total, depositEnd, votingEnd, deposits, votes,
                  inactiveQueue, activeQueue>>
chainVars == <<now, ran, proposer, signer, active>>
vars == <<coinVars, chainVars, proposalVars>>

Statuses == {"None", "DepositPeriod", "VotingPeriod", "Passed", "Rejected", "Failed"}
Live(id) == status[id] \in {"DepositPeriod", "VotingPeriod"}

GovTypeOK ==
  /\ now \in Nat /\ ran \in Nat /\ proposer \in Users
  /\ signer \in [Validators -> Users] /\ active \subseteq Validators
  /\ nextID \in Nat
  /\ status \in [IDs -> Statuses]
  /\ total \in [IDs -> Nat]
  /\ depositEnd \in [IDs -> Nat] /\ votingEnd \in [IDs -> Nat]
  /\ deposits \in [IDs \X Validators -> Nat]
  /\ votes \in [IDs \X Validators -> Options \cup {"Empty"}]
  /\ inactiveQueue \subseteq IDs \X Nat /\ activeQueue \subseteq IDs \X Nat

TypeOK == CoinsTypeOK /\ GovTypeOK

-----------------------------------------------------------------------------
Init ==
  /\ CoinsInit
  /\ now = 0
  /\ ran = 0
  /\ signer = FirstSigner
  /\ active = Validators
  /\ proposer \in {FirstSigner[v] : v \in Validators}
  /\ nextID = 1
  /\ status = [id \in IDs |-> "None"]
  /\ total = [id \in IDs |-> 0]
  /\ depositEnd = [id \in IDs |-> 0]
  /\ votingEnd = [id \in IDs |-> 0]
  /\ deposits = [d \in IDs \X Validators |-> 0]
  /\ votes = [d \in IDs \X Validators |-> "Empty"]
  /\ inactiveQueue = {}
  /\ activeQueue = {}

(* A transaction of the coins; none of them reads the proposals. *)
CoinStep ==
  /\ now <= LastTxTime
  /\ CoinsNext
  /\ UNCHANGED <<chainVars, proposalVars>>

(* The voting period begins when the deposits reach the minimum. In what
   follows st, ends and queue are the statuses, the ends of the deposit periods
   and the inactive queue once a new proposal is stored. *)
Activates(id, st, n) == st[id] = "DepositPeriod" /\ total[id] + n >= MinDeposit

(* Mutant: the entry in the inactive queue stays. *)
Mutant_StaysInactive(id, st, ends, queue) ==
  /\ status' = [st EXCEPT ![id] = "VotingPeriod"]
  /\ votingEnd' = [votingEnd EXCEPT ![id] = now + VotingPeriod]
  /\ inactiveQueue' = queue
  /\ activeQueue' = activeQueue \cup {<<id, now + VotingPeriod>>}

ActivateVotingPeriod(id, st, ends, queue) ==
  /\ status' = [st EXCEPT ![id] = "VotingPeriod"]
  /\ votingEnd' = [votingEnd EXCEPT ![id] = now + VotingPeriod]
  /\ inactiveQueue' = queue \ {<<id, ends[id]>>}
  /\ activeQueue' = activeQueue \cup {<<id, now + VotingPeriod>>}

(* The signer of v deposits n on the proposal id. *)
AddDeposit(id, st, ends, queue, v, n) ==
  /\ balance' = Move(AfterFee(signer[v]), signer[v], GovModule, n)
  /\ total' = [total EXCEPT ![id] = @ + n]
  /\ deposits' = [deposits EXCEPT ![<<id, v>>] = @ + n]
  /\ IF Activates(id, st, n)
       THEN ActivateVotingPeriod(id, st, ends, queue)
       ELSE /\ status' = st
            /\ inactiveQueue' = queue
            /\ UNCHANGED <<votingEnd, activeQueue>>

(* A transaction the signer of v pays for and whose message fails. *)
Fails(v) ==
  /\ balance' = AfterFee(signer[v])
  /\ UNCHANGED proposalVars

(* What every message of governance begins with. *)
Deliver(v) ==
  /\ now <= LastTxTime
  /\ AnteHandler(signer[v])
  /\ UNCHANGED <<dividend, credited, pipe, chainVars>>

HandleMsgSubmitProposal(v, n, accepted) ==
  LET ends == [depositEnd EXCEPT ![nextID] = now + DepositPeriod]
      st == [status EXCEPT ![nextID] = "DepositPeriod"]
      queue == inactiveQueue \cup {<<nextID, now + DepositPeriod>>}
  IN /\ Deliver(v)
     /\ nextID \in IDs
     /\ IF Pays(signer[v], v \in active /\ accepted, n)
          THEN /\ nextID' = nextID + 1
               /\ depositEnd' = ends
               /\ AddDeposit(nextID, st, ends, queue, v, n)
               /\ UNCHANGED votes
          ELSE Fails(v)

(* Mutant: a decided proposal takes deposits too. *)
Mutant_DepositAfterEnd(id) == status[id] # "None"

Depositable(id) == Live(id)

HandleMsgDeposit(v, id, n) ==
  /\ Deliver(v)
  /\ IF Pays(signer[v], v \in active /\ Depositable(id), n)
       THEN /\ AddDeposit(id, status, depositEnd, inactiveQueue, v, n)
            /\ UNCHANGED <<nextID, depositEnd, votes>>
       ELSE Fails(v)

HandleMsgVote(v, id, option) ==
  /\ Deliver(v)
  /\ balance' = AfterFee(signer[v])
  /\ votes' = IF v \in active /\ status[id] = "VotingPeriod"
                THEN [votes EXCEPT ![<<id, v>>] = option] ELSE votes
  /\ UNCHANGED <<nextID, status, total, depositEnd, votingEnd, deposits,
                 inactiveQueue, activeQueue>>

-----------------------------------------------------------------------------
(* The tally counts the validators of the set at the end, each with the power
   it has then, whoever signs for it. *)
PowerOf(vs) == SumFunctionOnSet(Power, vs)

Tally(id) ==
  LET votedFor(option) == {v \in active : votes[<<id, v>>] = option}
      voted == {v \in active : votes[<<id, v>>] # "Empty"}
      decisive == voted \ votedFor("Abstain")
  IN /\ PowerOf(voted) > 0
     /\ PowerOf(voted) * 1000 >= Quorum * PowerOf(active)
     /\ PowerOf(decisive) > 0
     /\ PowerOf(votedFor("NoWithVeto")) * 1000 <= Veto * PowerOf(voted)
     /\ PowerOf(votedFor("Yes")) * 1000 > Threshold * PowerOf(decisive)

Due(queue) == {id \in IDs : \E t \in 0..now : <<id, t>> \in queue}

(* The deposits on the proposals ids that go back to the account a. *)
RefundTo(a, ids) ==
  SumFunctionOnSet(deposits, {d \in ids \X Validators : signer[d[2]] = a})

Deposited(ids) == SumFunctionOnSet(deposits, ids \X Validators)

RefundDeposits(b, ids) ==
  [a \in Accounts |-> IF a = GovModule THEN b[a] - Deposited(ids) ELSE b[a] + RefundTo(a, ids)]

(* Mutant: the deposits that were paid back are not deleted. *)
Mutant_NotDeleted(ids) == deposits

(* What is stored once the deposits on ids are given back. *)
Remaining(ids) == [d \in IDs \X Validators |-> IF d[1] \in ids THEN 0 ELSE deposits[d]]

(* The end of the block: the fees go to the proposer, the proposals whose
   deposit period is over are dropped, those whose voting period is over are
   decided, and both give their deposits back. A refund the module account
   cannot pay panics: no block follows. fail are the proposals that pass and
   whose handler fails; next is the proposer of the block that begins. *)
Decision(id, fail) ==
  IF ~Tally(id) THEN "Rejected" ELSE IF id \in fail THEN "Failed" ELSE "Passed"

NextBlock(next) ==
  /\ now' = IF now < MaxTime THEN now + 1 ELSE now
  /\ proposer' = signer[next]
  /\ UNCHANGED <<dividend, credited, pipe, txs, signer, active>>

EndBlocker(fail, next) ==
  LET dropped == Due(inactiveQueue)
      decided == Due(activeQueue)
      over == dropped \cup decided
      paid == TransferFees(proposer)
  IN /\ fail \subseteq {id \in decided : Tally(id)}
     /\ paid[GovModule] >= Deposited(over)
     /\ balance' = RefundDeposits(paid, over)
     /\ status' = [id \in IDs |-> IF id \in dropped THEN "None"
                                  ELSE IF id \in decided THEN Decision(id, fail)
                                  ELSE status[id]]
     /\ total' = [id \in IDs |-> IF id \in dropped THEN 0 ELSE total[id]]
     /\ deposits' = Remaining(over)
     /\ votes' = [d \in IDs \X Validators |-> IF d[1] \in decided THEN "Empty" ELSE votes[d]]
     /\ inactiveQueue' = {q \in inactiveQueue : q[1] \notin dropped}
     /\ activeQueue' = {q \in activeQueue : q[1] \notin over}
     /\ NextBlock(next)
     /\ ran' = now'
     /\ UNCHANGED <<nextID, depositEnd, votingEnd>>

EndBlock == \E fail \in SUBSET IDs, next \in active : EndBlocker(fail, next)

(* A validator set that cannot be updated ends the EndBlocker of the chain
   early: the fees are paid, the modules are not called. *)
EndBlockFails ==
  /\ now < MaxTime
  /\ balance' = TransferFees(proposer)
  /\ \E next \in active : NextBlock(next)
  /\ UNCHANGED <<ran, proposalVars>>

(* The staking module gives the validator a signer that was never used, and
   moves the balance of the old one. *)
SignerUpdate(v, new) ==
  /\ now <= LastTxTime
  /\ new \notin {signer[w] : w \in Validators} \cup {FirstSigner[w] : w \in Validators}
  /\ balance' = MoveFee(signer[v], new)
  /\ signer' = [signer EXCEPT ![v] = new]
  /\ UNCHANGED <<dividend, credited, pipe, txs, now, ran, proposer, active, proposalVars>>

(* The acknowledgement of a checkpoint ends the epoch of a validator that
   left; the set keeps a member. *)
Leave(v) ==
  /\ now <= LastTxTime
  /\ v \in active /\ active # {v}
  /\ active' = active \ {v}
  /\ UNCHANGED <<coinVars, now, ran, proposer, signer, proposalVars>>

Next ==
  \/ CoinStep
  \/ \E v \in Validators, n \in InitialDeposits, accepted \in BOOLEAN :
       HandleMsgSubmitProposal(v, n, accepted)
  \/ \E v \in Validators, id \in IDs, n \in Amounts : HandleMsgDeposit(v, id, n)
  \/ \E v \in Validators, id \in IDs, option \in Options : HandleMsgVote(v, id, option)
  \/ \E v \in Validators, new \in Users : SignerUpdate(v, new)
  \/ \E v \in Leavers : Leave(v)
  \/ EndBlock
  \/ EndBlockFails

Spec == Init /\ [][Next]_vars

-----------------------------------------------------------------------------
(* The account of the module can pay every deposit that is stored, so that no
   refund panics in the EndBlocker (gov/deposit.go:117). Sending coins to the
   account makes it hold more. *)
DepositsCovered == balance[GovModule] >= Deposited(IDs)

(* A proposal that is voted on cannot be dropped for want of deposits, and one
   that waits for deposits cannot be decided: each is in one queue only
   (gov/proposal.go:152-164). *)
OneQueue ==
  \A i \in inactiveQueue, a \in activeQueue : i[1] # a[1]

(* Deposits are returned in time: none outlives the end of the period its
   proposal is in, unless the EndBlocker has not run since, so that no proposal
   keeps coins for good (gov/endblocker.go:16,40). *)
DepositsReturned ==
  \A id \in IDs, v \in Validators : deposits[<<id, v>>] # 0 =>
    \/ status[id] = "DepositPeriod" /\ ran <= depositEnd[id]
    \/ status[id] = "VotingPeriod" /\ ran <= votingEnd[id]
=============================================================================
