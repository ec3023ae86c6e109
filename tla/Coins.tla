------------------------------- MODULE Coins -------------------------------
(* The coins of the sidechain: the accounts of users and modules (auth, bank,
   supply), the fee that the ante handler takes from the signer of every
   transaction, the fees a block collects for its proposer, the top-ups that
   bring coins in from the staking chain, and the withdrawals that take them
   out into the dividend accounts the root chain pays from.

   There is one denomination. A balance is what an account can spend: no
   account of this chain has locked coins. A transaction is delivered as a
   whole: a message that fails leaves the effects of the ante handler and
   nothing else. The sequence numbers and signatures the ante handler checks
   are in module BorBridge. *)
EXTENDS Integers, Sequences, FiniteSets, Functions

CONSTANTS
  Users,           \* addresses that sign transactions
  FeeCollector,    \* the module account that holds the fees of a block
  GovModule,       \* the module account that holds the deposits of proposals
  Genesis,         \* the balance of each user in the genesis file
  Topups,          \* the top-up events of the staking chain
  TopupUser,       \* the user of each event
  TopupFee,        \* the amount of each event
  Claims,          \* the top-up messages that are sent
  TxFee,           \* params.TxFees: what the ante handler takes
  DefaultFee,      \* DefaultFeeWantedPerTx: what a top-up gives its sender
  SendEnabled,     \* the bank's parameter of that name
  Recipients,      \* accounts that users send coins to
  Amounts,         \* amounts of the other messages
  MaxTxs           \* bound: transactions delivered

Accounts == Users \cup {FeeCollector, GovModule}

ASSUME CoinsAssumption ==
  /\ IsFiniteSet(Users) /\ IsFiniteSet(Topups)
  /\ FeeCollector \notin Users /\ GovModule \notin Users
  /\ FeeCollector # GovModule
  /\ Genesis \in [Users -> Nat]
  /\ TopupUser \in [Topups -> Users] /\ TopupFee \in [Topups -> Nat]
  /\ TxFee \in Nat /\ DefaultFee \in Nat /\ MaxTxs \in Nat
  /\ Claims \subseteq [event : Topups, user : Users, fee : Nat, from : Users]
  /\ Recipients \subseteq Accounts
  /\ Amounts \subseteq Nat /\ SendEnabled \in BOOLEAN

VARIABLES
  balance,    \* the coins of each account
  dividend,   \* the dividend account of each user: all it ever withdrew
  credited,   \* the top-up sequences saved
  pipe,       \* top-ups delivered that wait for the votes of the validators
  txs         \* transactions delivered so far

coinVars == <<balance, dividend, credited, pipe, txs>>

CoinsTypeOK ==
  /\ balance \in [Accounts -> Nat]
  /\ dividend \in [Users -> Nat]
  /\ credited \subseteq Topups
  /\ pipe \in Seq(Claims)
  /\ txs \in Nat

(* The balances after from pays n to to, which may be from itself. *)
Move(b, from, to, n) ==
  LET taken == [b EXCEPT ![from] = @ - n] IN [taken EXCEPT ![to] = @ + n]

-----------------------------------------------------------------------------
CoinsInit ==
  /\ balance = [a \in Accounts |-> IF a \in Users THEN Genesis[a] ELSE 0]
  /\ dividend = [u \in Users |-> 0]
  /\ credited = {}
  /\ pipe = <<>>
  /\ txs = 0

(* What is left when the ante handler has taken its fee from the signer. *)
AfterFee(a) == Move(balance, a, FeeCollector, TxFee)

(* The ante handler lets the transaction of a through. *)
AnteHandler(a) ==
  /\ txs < MaxTxs
  /\ balance[a] >= TxFee
  /\ txs' = txs + 1

(* A message that moves n coins of its signer, once ok says the rest of it is
   fine, fails when the fee has left too few of them. *)
Pays(a, ok, n) == ok /\ AfterFee(a)[a] >= n

HandleMsgSend(from, to, n) ==
  /\ AnteHandler(from)
  /\ balance' = IF Pays(from, SendEnabled, n)
                  THEN Move(AfterFee(from), from, to, n)
                  ELSE AfterFee(from)
  /\ UNCHANGED <<dividend, credited, pipe>>

(* The withdrawal of 0 takes the whole balance, as the fee has left it. *)
Withdrawn(a, n) == IF n = 0 THEN AfterFee(a)[a] ELSE n

HandleMsgWithdrawFee(a, n) ==
  LET amount == Withdrawn(a, n)
      ok == Pays(a, amount # 0, amount)
  IN /\ AnteHandler(a)
     /\ balance' = IF ok THEN [AfterFee(a) EXCEPT ![a] = @ - amount] ELSE AfterFee(a)
     /\ dividend' = IF ok THEN [dividend EXCEPT ![a] = @ + amount] ELSE dividend
     /\ UNCHANGED <<credited, pipe>>

(* A top-up message is only compared with the sequences saved so far. *)
HandleMsgTopup(m) ==
  /\ AnteHandler(m.from)
  /\ balance' = AfterFee(m.from)
  /\ pipe' = IF SendEnabled /\ m.event \notin credited THEN Append(pipe, m) ELSE pipe
  /\ UNCHANGED <<dividend, credited>>

(* The vote of a validator that sees the event confirmed: yes, if the message
   says of it what the staking chain does. *)
SideHandleMsgTopup(m) ==
  /\ m.user = TopupUser[m.event]
  /\ m.fee = TopupFee[m.event]

(* Mutant: the sequence is compared on delivery only. *)
Mutant_SequenceNotCompared(m) == balance[m.user] + m.fee >= DefaultFee

(* Crediting fails as a whole when the user cannot pay the sender its fee. *)
Creditable(m) ==
  /\ m.event \notin credited
  /\ balance[m.user] + m.fee >= DefaultFee

(* The next top-up of the pipeline after its votes. *)
PostHandleMsgTopup(approved) ==
  LET m == Head(pipe)
      added == [balance EXCEPT ![m.user] = @ + m.fee]
      ok == approved /\ Creditable(m)
  IN /\ pipe # <<>>
     /\ approved => SideHandleMsgTopup(m)
     /\ balance' = IF ok THEN Move(added, m.user, m.from, DefaultFee) ELSE balance
     /\ credited' = IF ok THEN credited \cup {m.event} ELSE credited
     /\ pipe' = Tail(pipe)
     /\ UNCHANGED <<dividend, txs>>

(* The fees of the block, to its proposer. *)
TransferFees(proposer) == Move(balance, FeeCollector, proposer, balance[FeeCollector])

(* A signer update moves what the old signer has to the new one. *)
MoveFee(old, new) == Move(balance, old, new, balance[old])

CoinsNext ==
  \/ \E from \in Users, to \in Recipients, n \in Amounts : HandleMsgSend(from, to, n)
  \/ \E a \in Users, n \in Amounts \cup {0} : HandleMsgWithdrawFee(a, n)
  \/ \E m \in Claims : HandleMsgTopup(m)
  \/ \E approved \in BOOLEAN : PostHandleMsgTopup(approved)

-----------------------------------------------------------------------------
(* Coins are neither made nor lost: what the accounts hold and what was
   withdrawn are the genesis balances and each credited top-up once, with the
   amount the staking chain names (topup/side_handler.go, bank/keeper.go). *)
Conserved ==
  SumFunction(balance) + SumFunction(dividend)
    = SumFunction(Genesis) + SumFunctionOnSet(TopupFee, credited)
=============================================================================
