# Verification of `delivery`

`delivery` is the consensus layer of the BTTC side chain: a fork of Heimdall on
a modified Tendermint and Cosmos SDK. Its validators watch several root chains
(Tron, Ethereum, BSC) and the child chain ("Bor"), agree on what happened there
and finalise the child chain on the root chains. This directory holds TLA+
models of its core, the TLC runs that check them on small instances, and TLAPS
proofs of the main results for every value of the constants.

1. [Inventory](#1-inventory)
2. [Modules and how they relate to the code](#2-modules)
3. [Runs, bounds, what they show](#3-runs)
4. [Fairness](#4-fairness)
5. [Proofs](#5-proofs)
6. [Disagreements found](#6-disagreements)
7. [What is not modelled](#7-not-modelled)
8. [Plan](#8-plan)

`tlc -config X.cfg MCModule` runs a configuration and `tlapm XProofs.tla`
checks the proofs. `PROJECT.json` lists components, runs, the source lines of
every definition, the hazards of the code with the properties that cover them,
and for every property a mutant of the model that breaks it.

## 1. Inventory

Everything that matters here depends on one mechanism: a **side transaction**.
A message reports a fact of another chain. Its *handler* runs when the
transaction is delivered, on committed state alone. Every validator's *side
handler* then looks at the other chain and votes. Two blocks later the votes are
tallied and the *post handler* changes the state. Between delivery and post
handler two blocks of other transactions are executed, so whatever the handler
checked may be stale, and copies of the message may be on their way. Most of the
hazards in this code are of that kind.

| Component | State | Operations | Talks to | Hard | Correct when |
|---|---|---|---|---|---|
| Side-transaction pipeline (`app/side_tx_processor.go`, `sidechannel/`) | stored txs and validators by height | PostDeliverTx, DeliverSideTx, BeginSideBlock, clean-up, End/BeginBlock | Tendermint (votes), every module's handlers | repeated, lost, forged votes; rounding of the quorum; an EndBlocker that returns early | each stored tx runs once, two blocks later, approved exactly by more than 2/3 |
| checkpoint | per root chain: buffer, ack count, checkpoints; last no-ack | proposal, ack, no-ack, sync, sync ack | root chain contract, validator set (proposer), bridge | expiry against late submission, stale tips, ack of an old proposal, several chains | stored checkpoints are gapless and are the root chain's |
| staking | validators by signer, signer by ID, sequences, sync queues | join, signer update, exit, sync, sync ack | stake chain contract, other root chains, bridge | events of one validator in flight together, repeats, lost notices, head-of-line blocking | store mirrors the stake chain; every applied event reaches every root chain once and in order |
| clerk | records by local ID, latest ID, root ID → local ID, sequences, keys by time | event record; list, time range and till-time queries; genesis | StateSender contracts, child chain nodes | IDs of several chains under one numbering; answers made of several requests; an export in the order of decimal digits | numbered once, append-only, answers final |
| validator set (`types/validator-set.go`, `helper/util.go`, `app/app.go`) | validators with priorities, proposer | GetUpdatedValidators, UpdateWithChangeSet, IncrementProposerPriority | staking, checkpoint, Tendermint | integer rounding, refused updates repeated each block, several records of one ID | set = the current validators; nobody starves |
| topup, auth, bank, supply | balances, dividend accounts, sequences | topup, withdraw fee, send, ante handler | root chain, proposer | the middle of several writes fails; replays | coins are conserved |
| slashing | signing infos, slash buffer, tick data and count | handle signature, tick, tick ack, unjail | staking, root chain | buffer changes while the tick waits for votes; keys of one validator that begin like another's | each infraction is slashed once |
| bor | spans, last span, last seed | propose span, choice of the producers | child chain, staking | continuity checked on delivery only; integer arithmetic of the choice | spans are contiguous; producers follow the power |
| gov | proposals, deposits and votes by validator | submit, deposit, vote, EndBlocker | staking, supply | queues by end time, skipped EndBlocker | deposits are returned, in time |
| featuremanager, chainmanager | parameters, cache in memory | proposals that switch a feature or add a chain | every module | a cache that is stale after a restart | nodes agree |
| app | ABCI entry points, EndBlocker, export | validator updates, module EndBlockers, InitChainer | all | early return, genesis with several sources of truth | as for the validator set |
| bridge (`bridge/setu/`) | block cursor, task queue, account sequence | listeners, processors, broadcaster | root and child chains, heimdall's REST server | crashes, retries, wrap-around, shared sequence | what must be sent is sent again |
| helper, contracts, cmd, server, client, simulation | – | root chain calls, bindings, CLI, REST | – | pure I/O or generated | – |

The hazards, each at its line, are in `PROJECT.json`, with the properties that
cover them; those without a property say why.

How components interact in the models: the pipeline is modelled on its own
(`SideChannel`). Every other module uses what `SideChannel` shows – a side
transaction is executed at most once, in the second block after its delivery,
before that block delivers anything, and takes effect only if its fact was
confirmed – in the form of a variable `pipe`: `pipe[k]` is the set of side
transactions delivered `k` blocks ago, and `pipe[2]` is executed, in any order,
before anything is delivered. Any of them may be dropped instead (`SideTxDropped`), for votes may be lost and
post handlers may fail. The other chains and the bridges are environment actions.

## 2. Modules

| Module | Models | Abstract specification | Theorems in |
|---|---|---|---|
| `SideChannel` | side-transaction pipeline | – (its invariants are what `pipe` assumes) | `SideChannelProofs` |
| `Checkpoint` | proposals, acks, no-acks, buffer | `CheckpointLedger` | `CheckpointProofs` |
| `Staking` | stake-chain events and sync queues | `NonceReplication` | `StakingProofs` |
| `CheckpointSync` | another root chain's headers on their way to the stake chain | – | `CheckpointProofs` |
| `CheckpointParams` | the parameters `Checkpoint` and `CheckpointSync` share | | |
| `Clerk` | state-sync records and their queries | `EventLog` | `ClerkProofs` |
| `ClerkGenesis` | `Clerk` with export and import | `EventLog` | `ClerkProofs` |
| `ValidatorSet` | validator set, EndBlocker, rotation of the proposer | – | `BorProofs` |
| `Producers` | the choice of a span's producers from that set | its properties compare it with the definition | `BorProofs` |
| `Slashing` | infractions, slashing buffer, ticks, jail | – | `SlashingProofs` |
| `Coins` | accounts, fees, topups, withdrawals | – | `GovProofs`, as part of `Gov` |
| `Gov` | `Coins` with proposals, deposits, votes and the end of blocks | – | `GovProofs` |
| `Bor` | spans of the child chain | is the specification of `BorBridge` | `BorProofs` |
| `BorBridge` | `Bor` with the span processor and the broadcaster | `Bor` (`BorSpec`) | `BorProofs` |
| `InductionTheorems` | no code: induction over sets and numbers, sums | | itself |
| `MC*` | values and symmetry for TLC | | |

Definitions named `X_Something` or `Mutant_Something` right before a definition `X`, commented "Mutant", are not
part of any specification: they are plausible bugs of the code, each used to
show that the property named in `PROJECT.json` would notice it.

### SideChannel

A block is `BeginBlock` (the validators of the last commit are stored), the side
block (`StartResult`, `CountSig`*, `FinishResult` for each result;
`RunLeftover` for each stored transaction without one; `EndSideBlock`),
`PostDeliverTx`* and `EndBlock`. The loop over signatures is one step per
signature; nothing else of the node runs in between, and the phase variable says
so. `voted` keeps all results an honest validator ever signed for a transaction:
a restarted node may look, and sign, again. A Byzantine validator's signature on
anything may be counted at any time. `confirmed` is the truth on the root chain
and honest validators vote Yes only for it. `EndBlock(FALSE)` is the application's
EndBlocker that returns before the modules' EndBlockers because the validator
set could not be updated: the block's validators stay stored.

### Checkpoint

One action per handler and post handler. `HandleMsgCheckpoint` flushes an
expired buffer, as the code does on delivery even if the side transaction is
later refused. `approved` is every header that ever was in the buffer: it carries
the validators' signatures and may be submitted at any later time
(`SubmitHeaderBlock`), which is where a time-out races a late answer. The ack
handler trusts the number in the message for the key and counts the ack count on
its own, as the code does. The votes of an acknowledgement are evaluated when it
executes: the contract's headers only grow, so a Yes given earlier still holds,
and `SideTxDropped` covers validators that looked too early. The proposer is any
member of `Proposer` after a rotation; which one is the business of `ValidatorSet`.
Anyone may send any proposal and any acknowledgement. What the bridges are sure to
send is much less (`BridgeProposes`, `BridgeResubmitsAck`): a proposal starts after
the root chain's last header, wherever the store is, and when the store lags, the
current header is acknowledged again instead.

Abstracted: root hashes (the range determines the child chain's root, and
validators vote for no other), the account root and the epoch (compared on
delivery, not stored). Copies of one message in the same block are one element
of the set `pipe[0]`; copies in successive blocks are separate. Reorganisations
of a root chain behind the confirmations are not modelled.

### Staking

The stake chain's contract (external) numbers the events of an ID and never takes
a signer address twice. Handlers compare ID, nonce and sequence; post handlers,
as in the code, compare little but the sequence. Old signers keep a record,
without power. `queue[r]` is the sync queue of root chain `r`: only its first
record is sent (`HandleMsgStakingSync`, `SendStakingSync`) and only its
acknowledgement removes it. A record has an age, capped at `StakingBufferTime`,
instead of a time stamp; `InBufferTime` keeps the code's quirk that a record sent
in the very same second counts as not sent. `NotSent` loses the notice that makes
a bridge send.

`MsgStakeUpdate` is left out: its side handler, its post handler and its bridge
task are commented out. Left out too: public keys, amounts and signing infos. The
balance that moves with a signer is in `Gov`, what slashing does to the power in
`Slashing`.

### CheckpointSync

One other root chain, since root chains share none of this state. `headers` is its
contract, `synced` the stake chain's record of it. A bridge's message is made
from what the bridge just read, then waits in `mempool` for as long as it
likes, and in `pipe` for its votes: this is how an old acknowledgement meets a
younger buffer. `PostHandleMsgCheckpointSyncAck` flushes whatever it finds there, as
in the code. The buffer's age is capped at the buffer time; a new sync waits
for a fifth of it only. `NotSent` loses a notice: the bridge is not the
proposer's, it crashed, or the number no longer follows.

### Clerk and ClerkGenesis

Events of all root chains are recorded in the order of approval under one counter.
The post handler looks only for the record, not for the sequence. `query` follows
one `tillTimeRangeQuery` of a child chain node through its requests
(`QueryFrom`, `QueryRange`, `QueryNext`), between which blocks are committed;
queries change nothing, so one stands for all. A page is any set of records that
fits the order of the keys: the time, then the decimal digits of the ID, which
within one block is treated as any order. `Second` makes block times finer than
the seconds that the query's times are given in.

`ClerkGenesis` adds `ExportImport`: what `InitGenesis` makes of `ExportGenesis`.
The export walks the keys in the order of their digits (`KeyBefore`), in which 10
comes before 2, and the import numbers the records anew, in that order. The
local IDs of the events are then written from the new numbers. `Base` is the
base of the digits, 10 in the code; the runs take 3, so that an import of three
records already permutes them.

### ValidatorSet

Two states of the validators live side by side: the records of the staking store,
which transactions change (`Join`, `SignerUpdate`, `Exit`, `Slash`, `Unjail`),
and the stored set, which only `EndBlock` brings up to date
(`GetUpdatedValidators`, `UpdateWithChangeSet`) and only rotations change
otherwise (`CheckpointAck`, `NoAck`). The operators keep the names and the
arithmetic of `types/validator-set.go`: Go's truncating division, the rounded-up
ratio, the average rounded down, the tie broken by address. An update is refused
as a whole; the code adds up the powers of the updates in the order of addresses
and does not count the removals against them, and so does `UpdateError`.

The transactions here are the effects of approved post handlers; which are
possible, and when, is the business of `Staking`, whose guards are not repeated:
this module allows more. A block is any number of transactions and an `EndBlock`;
`inBlock` says whether there were any since.

### Producers

Extends `ValidatorSet`, so that the choice is checked in every state its
transactions lead to. Two algorithms, both evaluated in full: since block 375300
producers are drawn with replacement by a binary search in the cumulated powers
(`Drawn`), for every random number that `randomRangeInclusive` does not reject;
before, every validator had slots in proportion to its power and the slots were
shuffled (`ShuffleRound`), here for every pivot and every hash. Random numbers go
up to `MaxUint64` and hashes have `HashBytes` bytes of `ByteBits` bits, which
scales the boundaries of the loops down and keeps them all. `SlotsPerPower`
gives the few units of power of the model enough slots to cross them.

### Slashing

A block first handles its evidence and the votes of the last commit
(`HandleDoubleSign`, `HandleValidatorSignature`), then the side transactions that
are due, then delivers new ones. A tick carries the buffer its sender read; the
handler compares it on delivery and the post handler again, and only the stored
number and the emptiness of the tick data keep a second one out. The stake chain
takes every approved tick in the order of the numbers (`SubmitTick`) and its
events are acknowledged at any later time. `Percent` and `Slashed` round and cap as
the code does. A missed block is a key made of the decimal digits of the validator's
ID and the bytes of an index (`BitKey`, from `IDBytes` and `IndexBytes`), and
whoever is slashed loses every key that begins with its ID
(`clearValidatorMissedBlockBitArray`), other validators' included.
`VoterSets` are the sets of validators a last commit may be expected of and
`DoubleSigners` those whose evidence is considered; `MaxMissed` bounds the
counters, which nothing else does. The slash limit, which only decides when a bridge is told to
send a tick, is left out: bridges may send one at any time.

### Coins and Gov

`Coins` are the balances of users and of the two module accounts that matter, the
fee the ante handler takes before the message and keeps when the message fails,
topups in `pipe` and withdrawals into dividend accounts. `Claims` are topup messages:
some say of an event what the stake chain does not, and copies are allowed.

`Gov` adds proposals, deposits and votes, which belong to validator IDs, and the end
of a block: the fees go to the proposer, then due proposals are dropped or decided
and every deposit goes back to whoever signs for its validator at that moment.
`EndBlockFails` is the application's EndBlocker that returns before governance is
called. In between, `SignerUpdate` moves a balance and `Leave` shrinks the set.
The content of a proposal is left out: it is accepted or not, and the handler of a
proposal that passed fails or not.

### Bor and BorBridge

`Bor` is the module as the chain runs it: any span may be proposed at any time
(`HandleMsgProposeSpan`), votes compare the seed and the head of the child chain
with the state of *their* moment, and the post handler looks only whether the ID is
stored. The duration, a parameter, may change in between.

`BorBridge` restricts who proposes: the processor polls, a goroutine waits for the
last span to be in turn and for a seed, and hands the message to the
broadcaster, which all processors share. `lastSeqNo` is the broadcaster's guess of
the account's sequence, kept relative to the committed one, so that a block
that spends a sequence lowers it by one. A wrong guess loses the message and
makes the broadcaster read the account, still under its lock (`resync`). Faults –
a call that fails whether or not the transaction got in, an account that cannot
be read, a restart of the node or of the bridge, votes that fail – and messages
of others happen as often as `Limit` allows.

## 3. Runs

Every run must end without an error, except the three whose property states what
the repository says and the code does not do. A run shows its properties for the
instance below; the theorems of section 5 lift every safety property of the passing
runs to every instance.

| Run | Instance | Why this is enough |
|---|---|---|
| `side_channel` | two honest validators and a Byzantine one of power 2, 2, 1, who is in the set or not; one transaction, six blocks | totals of 5 and 4, of which the division rounds two thirds in different ways (`QuorumSound` is for every total); set changes between voting and tally; a transaction delivered at any height, repeated, never signed, and blocks whose end fails. Several transactions share nothing but the validators, and the theorems are for any number |
| `checkpoint` | one root chain, ranges of 2 or 3 blocks up to block 5, two checkpoints, two side transactions a block, buffer time 1, two seconds, fair | two ranges compete for the same start, one old and one new header; one expiry, after which what was flushed is filled again; root chains share only the epoch, the proposer and the blocks |
| `checkpoint_adjust` | the same with three seconds | disagreement |
| `checkpoint_sync` | two senders, two headers, one side transaction a block, buffer time 5 and so a sync time of 1 | a copy of the first acknowledgement meets the second header's buffer; steps of 0, 1 and 4 seconds fall below, between and beyond the two limits |
| `staking` | two validators, one of them from genesis, two signers, three events each, one other root chain, one side transaction a block, fair bridges | three events: one stored, one in the pipe, one that could be skipped or overtake; a signer both could want; a queue that is refilled while its head waits |
| `slashing` | validators 1 and 10 with powers 4 and 2, of which 1 may sign twice and may leave, a window of two blocks, counters up to 3, two ticks, one unjail event each | a buffer that changes while a tick waits; amounts computed from a power that an earlier tick lowers; a power of 2 that is slashed to one, of which every fraction rounds to zero; windows that start anew; an ID that begins like another, so that a counter passes its window |
| `slashing_unjail` | one validator | disagreement |
| `clerk` | two chains of two events, three records, answers of two, two blocks a second, times up to 6, IDs with digits of base 3, with export and import at any time | full and short pages, a page boundary inside a second, every sequence of recording, export and import; the third record comes before the second in an export |
| `clerk_genesis_ids` | the same up to time 3 | disagreement |
| `validator_set` | genesis power 2 and 1, three signers, two epochs, a maximum of 4, half the power slashed; one producer of a span, random numbers up to 15, hashes of two bytes of two bits, up to 8 slots | up to three members, ties, both kinds of refusal, jail and release without end, a power of one that is slashed by zero; 8 slots are two hashes, so that the loops of the shuffle cross bytes and hashes |
| `gov` | two validators, one spare signer, one proposal, one topup with a right and a wrong claim, three transactions, periods of one block | a deposit and its refund with a change of signer, a departure and a skipped EndBlocker between them; transfers to the module's account |
| `bor` | spans of one or two blocks, two after the genesis one, two spans in the pipe, one message of another sender, one change of the duration, one fault, a mempool of two | two spans of one ID in the pipe; a span voted under one duration and seed and executed under others; a guess that is ahead, behind and right again |

Bounds, all of them constants: `MaxHeight`, `MaxBlock`, `MaxNumber`, `MaxNonce`,
`MaxEpoch`, `MaxAckCount`, `MaxID`, `MaxRecords`, `MaxMissed`, `MaxTicks`, `MaxUnjails` and
`MaxSpans` cut off counters, `MaxTime` and `LastTxTime` the clock, `MaxTxs`,
`MaxPipe`, `MaxMempool` and `MaxDrafts` what is delivered or waits, `Limit` the rare
events of the bridge. A behaviour that reaches a bound goes on with the steps
that the bound leaves. Every run checks for deadlocks except `bor`, where the
child chain stops when it has used up the last span that `MaxSpans` allows.

What the properties say:

- `SideChannel`: a stored transaction runs exactly once and two blocks after its
  delivery (`RunsOnceOnTime`, `NoStaleTx`); it is approved exactly by more than
  two thirds of the power of the last commit (`ApprovedByQuorum`); effects
  need a fact that some honest validator saw confirmed (`EffectConfirmed`); and
  what nobody signs is run too, without effect (`EventuallyRun`).
- `Checkpoint`: the stored checkpoints continue each other (`StoreGapless`) and
  were taken by the root chain under the same number and start
  (`AckedOnRootChain`), which is at most one ahead (`RootChainAtMostOneAhead`); the
  buffer continues the tip (`BufferExtendsTip`) and is never replaced by another
  proposal before it expires (`BufferKept`); all together an append-only ledger
  (`ImplementsLedger`); and a checkpoint that timed out leaves the buffer
  (`ExpiredBufferLeaves`): acknowledged, if the root chain took it, however late,
  for then the bridges propose its range no more, and replaced if not. Of a header
  whose buffer was flushed nothing is promised, nor of the first (section 6).
- `CheckpointSync`: a buffered sync that the stake chain lacks is never replaced,
  and leaves early only for an acknowledgement of a smaller number
  (`BufferedSyncKept`) – which does happen, and delays it; every header gets there
  nonetheless (`EventuallyAllSynced`).
- `Staking`: the store is the stake chain's state at the nonce it stores
  (`StoreMirrorsStakeChain`), only the present signer of an ID has power
  (`OneSignerWithPower`), what another chain lacks is queued in order
  (`QueueHoldsUnsynced`), as the abstract replication demands
  (`ImplementsReplication`), and what was applied gets there and leaves the queue
  (`EventuallySynced`). That an event is applied at all is not promised.
- `Slashing`: amounts and powers stay natural numbers (`TypeOK`), the total is the
  buffer's (`TotalIsBuffered`); the counter of missed blocks is never less than
  the window has, so that no miss is overlooked, and equals it for a validator
  whose keys begin with no other's ID (`MissedIsCounted`, section 6); the records show the ticks the stake chain took, each once and
  with its amounts (`PowerMirrorsStakeChain`); the tick data are never overwritten and
  go with their own acknowledgement (`TickKept`).
- `Clerk`: an answer given once stays the right one until the next import, whatever
  imports there were before (`AnswersFinal`); the list is append-only and without
  repetitions on one chain, and an import only rearranges it: no event is lost or
  recorded twice (`LogKept`).
- `ValidatorSet`: after a block whose updates were accepted the set is the store's
  current validators (`SetIsCurrent`), Tendermint always agrees
  (`ConsensusAgrees`), priorities cannot drift to the bounds of int64
  (`PrioritiesBounded`), who comes in or comes back is behind all older members,
  as long as these stay and lose no power, and the proposer is always a member
  (`NewcomersWait`); once the powers of the set change no more, every member gets
  its turn again and again (`EverybodyProposes`). Both conditions are needed in larger
  instances than the run's. With genesis powers 10, 1, 1 and 3 a newcomer can get
  the next turn when those ahead of it leave or lose power at the same time; and
  among powers of 7, 5, 4 and 1 a member of power 1 can be kept waiting for as
  long as others are jailed and released at the right moments, for each change
  rescales the priorities and each return pushes the newcomers behind.
- `Producers`: as many random numbers select a validator as its power demands, but
  for one (`ProducersFollowPower`), and the optimised shuffle moves every slot as the
  specification quoted in the code says (`ShuffleAsSpecified`).
- `Coins` and `Gov`: coins are neither made nor lost (`Conserved`), every refund can
  be paid (`DepositsCovered`), a proposal is in one queue (`OneQueue`), and deposits
  do not outlive the period of their proposal (`DepositsReturned`).
- `Bor` and `BorBridge`: spans tile the child blocks and use one seed after the other
  (`SpansInOrder`), none is given out too early (`OneSpanAhead`), and the child chain
  never comes to rest (`BorRunsOn`).

## 4. Fairness

- `SideChannel`: weak fairness of the steps of a block, that is, Tendermint goes
  on making blocks. Nobody is obliged to sign anything.
- `Checkpoint`: weak fairness of the steps of a block and, for each root chain,
  strong fairness of what the proposer's bridge does with every new child block
  while the buffer is free or timed out (`bridge/setu/processor/checkpoint.go:463-577`,
  `troncheckpoint.go:49-147`): it proposes a range after the root chain's last
  header, or, if something is stored and does not reach that far, it acknowledges
  that header again (`resubmitCheckpointAck`). An acknowledgement that is sent for
  ever gets its quorum once: honest validators, with more than two thirds of the
  power, vote for what they see. Strong, because a block without the message
  intervenes. Nothing is assumed of a single proposal, of its votes, or of the
  acknowledgement that the event of a header makes the bridges send once. Time is
  bounded, and a buffer filled in the last second never times out.
  After the divergence of `checkpoint_adjust` no proposal continues both the store
  and the root chain, which is why the property leaves it out.
- `CheckpointSync`: blocks are made and take time; bridges poll at an interval
  (`startPolling` in `bridge/setu/processor/checkpoint.go`), so
  that a header that is not synced is proposed again and again, strong because the
  buffer opens and closes; one that is sent again and again is delivered, gets its
  quorum and is sent to the stake chain. Acknowledgements need no fairness.
- `Staking`: weak fairness of executing what is due; strong fairness of blocks
  that take time and, for each other root chain, of syncs and acknowledgements of
  what is first in its queue, of their quorum and of the transaction to that
  chain: the proposer's bridge polls the queues (`checkStakingSyncAck` in
  `bridge/setu/processor/staking.go`) and sends again. None for the events
  themselves: a bridge's task is done when CheckTx refuses the message
  (`bridge/setu/broadcaster/broadcaster.go:89-105`), a side transaction without a
  quorum is not sent again, and the listener's cursor passes what was lost.
- `Slashing`, `Coins` and `Gov`: none. A tick is sent only when an infraction exceeds a
  limit, so that none is promised (hazard at `slashing/handler.go:93`); users and validators
  do as they like.
- `BorBridge`: weak fairness of the ticker, the goroutines, the broadcaster's lock, the
  blocks of both chains, votes and post handlers, all of which only wait for
  themselves. Faults and foreign messages are finitely many; without that
  every broadcast could fail.
- `Clerk`: none. The bridge hands an event on a bounded number of times only
  (`RetryCount` in `bridge/setu/listener`), so that no recording is promised.
- `ValidatorSet`: blocks end, and rotations happen again and again, by an
  acknowledgement or a no-ack, which every validator's bridge sends when no
  checkpoint comes. Both steps are always possible, at once or after the other,
  so that this is what weak fairness amounts to.

## 5. Proofs

Every safety property that a passing run checks, invariant or action property, and every
refinement is a theorem. Each `*Proofs` module has inductive invariants
(`IInv`, `Inv`, `BorInv`, `SyncInv`, `CoinsInv`), for each a lemma that the initial states satisfy it and
one that every step preserves it with a step per action, and the theorems. All are for
arbitrary sets of validators, chains, messages and arbitrary bounds; the
only assumptions are the `ASSUME`s of the modelled component. Sets that are summed
over are assumed to be finite, as they are in any store. TLC has found each
invariant to hold on the instance of its run before it was proved.

| Module | Theorems | Assumes |
|---|---|---|
| `SideChannelProofs` | `TypeCorrect`, `NothingStale`, `ExactlyOnce`, `QuorumSound`, `OnlyConfirmedEffects` | power is additive; Byzantine power is less than a third of every set's |
| `CheckpointProofs` | `TypeCorrect`, `Gapless`, `AcknowledgedIsSubmitted`, `OneAhead`, `BufferAtTip`, `BufferNotLost`, `LedgerRefined`; `SyncTypeCorrect`, `SyncBufferKept` of `SyncSpec` | types and bounds |
| `StakingProofs` | `TypeCorrect`, `MirrorsStakeChain`, `OneSigner`, `NothingUnqueued`, `ReplicationRefined` | types and bounds |
| `ClerkProofs` | `Numbering`, `FinalAnswers`, `LogRefined`; `TypeCorrect`, `FinalOnEveryChain`, `LogSurvivesImport` of `GenesisSpec` | types and bounds, any base of the digits from 2 on |
| `SlashingProofs` | `SlashingTypeCorrect`, `MissedCounted`, `TickDataKept`, `TotalBuffered`, `PowerMirrored` | types and bounds, finitely many validators, fractions up to 100 percent |
| `GovProofs` | `TypeCorrect`, `GovTypeCorrect`, `OneQueueHolds`, `DepositsReturnedHolds`, `CoinsConserved`, `DepositsAreCovered` | types and bounds, finitely many users |
| `BorProofs` | `BorSpansInOrder`, `BorOneSpanAhead` of `BorSpec`; `TypeCorrect`, `ImplementsBor`, `BridgeSpansOK` of `BridgeSpec` | types and bounds |
| | `SetTypeCorrect`, `UpToDate`, `Agreement`, `PrioritiesStayBounded`, `NumbersFit`, `NewcomersAreLast` of `ValidatorSet` | finitely many signers; genesis has a validator, its powers are positive and their sum at most the maximum, or `NewValidatorSet` panics |
| | `ProducersFair`, `ShuffleIsSpecified` of `Producers` | types and bounds |

Why the invariants need strengthening:

- *SideChannel*. Nothing is stale only because what is stored is stored in the
  last two blocks, under its delivery height, and has not run (`StoredInv`,
  `WindowInv`). The quorum is sound because the tally counts exactly the power of
  the validators it has used (`TallyInv`), honest ones among them only with
  results they signed (`HonestInv`); two thirds against less than one third leave
  an honest Yes.
- *Checkpoint*. A header on the root chain was once in a buffer (`ApprovedInv`,
  `HeadersInv`), and headers continue each other, so at most one of them is
  not acknowledged, and everything in flight continues either the tip or that one
  (`RangesInv`). The stored checkpoint may end earlier than the header (section 6),
  which is why the theorems speak of start and number.
- *Staking*. The post handlers do not compare nonces. They need not: an event was
  delivered when its nonce was the store's plus one, so anything in the pipe is at
  most one ahead of the store, and what is not ahead has its sequence marked
  (`FreshInv`, `PipeInv`). Hence an approved event whose sequence is not marked
  is exactly the next one.
- *CheckpointSync*. No acknowledgement on its way, in a mempool or waiting for its
  votes, has a number that the stake chain has not got (`AcksSynced`). Hence one that
  flushes a sync the stake chain lacks is an acknowledgement of a smaller number.
- *Clerk*. Nothing is recorded with a time the query has passed, since it waits
  for a block after its to-time (`QueryInv`). After an import the IDs that say
  which events were recorded may be lost or wrong; what remains is that the
  sequences are those of the recorded events (`ListInv`), and that an event that waits
  for its votes has its ID if it was recorded (`PipeInv`): the handler refuses events whose
  sequence is there, and an import forgets those that wait. An export lists every
  record once, whatever order its keys are in (`ExportedOrder`), so that an import
  permutes the list and loses nothing (`ImportKeepsEvents`). That the list
  implements `EventLog` (`LogRefined`) holds for one chain, without imports.
- *ValidatorSet*. Members of the set have a record in the store (`MembersInv`):
  the updates are computed from the records, and a member without one would never
  be removed. Powers and their total are bounded because an update is refused that
  exceeds the maximum. That priorities are balanced (`Balanced`) does not depend on the
  step before: a rotation first scales whatever integers it finds into a window of
  twice the total and then centres them, so that each rotation brings the balance about
  anew (`PrioritiesStayBounded`). Together, no number comes near the
  bounds of int64 (`NumbersFit`), so that the clipping and the panic in
  `updateTotalVotingPower` (`types/validator-set.go:256-275`) are out of reach and
  the model may use unbounded integers.
- *Newcomers*. A newcomer enters one and an eighth times the new total below zero,
  and scaling divides every distance by the same ratio. If the ratio is more than one because of the newcomer,
  the distance that is left is almost the total; if because of older members, these are so far
  apart that a newcomer that could catch up must have less than a third of the
  total, and the best of the older ones stays ahead of it. This uses that the
  older members neither leave nor lose power (`OldMembersKeep`), which is how the condition of
  `NewcomersWait` was found.
- *Producers*. Eligible validators listed by rank are all of them, once. The function that
  sums the weights is unfolded by induction, the binary search keeps the entry it
  looks for between its bounds, and the numbers that fall into a range are counted
  by their remainders. Signers that are no longer any validator's have a record
  without power (`RecordsInv`), which is why an eligible one is found by its ID.
- *Shuffle*. The state of a loop after some pairs is known in closed form: those pairs are
  swapped whose bit is set, and the hash and the byte in hand are those of the
  current position, which holds when a loop starts and whenever a boundary is
  crossed. The two loops treat disjoint halves, and every index has its mirror in the
  half it is in. This is proved for every number of slots; the model's table stops at
  `MaxSlots`.
- *Slashing*. A tick that waits for its votes has at most the next number, and
  none has that number while the tick data are not empty (`PipeInv`); one tick was
  approved under each number, and the tick data are the last of them
  (`ConfirmedInv`); the stake chain took them in order (`StakeChainInv`). Hence the
  acknowledgement with the current number, which compares nothing else, is of the
  tick in the tick data. That a counter covers its bits survives another validator's slash because clearing
  only takes bits away, and that they are equal needs that no other ID begins
  the validator's (`Alone`, `ClearCounts`). The power that the properties define from the list of ticks by
  recursion exists and is unique, and grows by one tick with the list, so that the record
  and the definition change alike with each acknowledgement.
- *Gov*. Each queue holds exactly the proposals of its status, under the end of their
  own period (`Queued`), and no period of a live proposal is over for the
  EndBlocker (`InTime`); only live proposals have deposits (`DepositsLive`).
- *Coins*. `Conserved` compares three sums: what accounts hold, what was withdrawn and
  which topups were credited. Every step is shown to move between them what it
  takes from one (`SumsKeepInv`), and to change the module's account at least as much
  as the sum of the deposits, so that it covers all of them and each refund.
- *Sums*, and induction where a definition needs it. The library's theorems about
  induction take a predicate as a parameter, which these provers cannot fill in.
  `InductionTheorems` therefore proves induction for a *set* of good cases, over a
  finite set from its well-founded subset ordering and over the naturals from
  that, and with it what a sum is when an element is added, removed or changed.
- *Bor*. A span in the pipe has a stored ID or the next one, and then continues the last
  span (`PipeFollows`); if it is approved, its seed is the next and the last span is
  in use. The post handler's look at the ID is therefore enough: whatever else
  changed since the vote, changed the ID too.
- *BorBridge* implements `BorSpec` step by step: every step of the bridge is a step of
  `Bor` or leaves its variables alone, so the theorems of `Bor` hold for it.

Only model-checked: the liveness properties (`EventuallyRun`, `ExpiredBufferLeaves`,
`EventuallySynced`, `EventuallyAllSynced`, `EverybodyProposes`, `BorRunsOn`), since
the prover has no rules for fairness over actions with `ENABLED`, and the
disagreements, which are counterexamples.

## 6. Disagreements found

- `checkpoint_adjust` (`checkpoint/side_handler.go:426`). "Adjust checkpoint data
  if latest checkpoint is already submitted": the code shortens the buffered
  checkpoint to what the root chain has, but never lengthens it. When a longer
  proposal times out, a shorter one for the same start is approved, and the longer
  one, still signed, is submitted after all, its acknowledgement stores the
  shorter. From then on the next proposal continues the store, not the root
  chain.
- `clerk_genesis_ids` (`clerk/genesis.go:14`). Records are exported with their
  local IDs and imported as if these were IDs of the root chain. After an import
  an event that was never recorded counts as processed and is refused; the
  exported sequences keep recorded ones from being recorded twice.

- `slashing_unjail` (`staking/keeper.go:477`). "Validators must submit a transaction to
  unjail itself after having been jailed" (`slashing/handler.go:105`): between a
  tick and its acknowledgement a validator is jailed neither in the buffer nor in
  its record. A small infraction in that time starts a new info whose jail status
  is false, and its tick's acknowledgement releases the validator.

Noted without a run:

- A header can stay unacknowledged for good. If its checkpoint times out and is flushed
  by the next proposal, that proposal gets no quorum, and the header, still signed,
  reaches the root chain then, every acknowledgement fails for want of a buffered
  checkpoint (`checkpoint/side_handler.go:396-399`), and no bridge proposes the
  range again, for the root chain has it
  (`bridge/setu/processor/checkpoint.go:474-479,570-577`). Only a proposal made by hand
  fills the buffer again. The acknowledgement of the very first header is sent
  once and never again, since `GetlastestCheckpoint` fails while nothing is stored.
- Slashing validator 1 deletes the missed blocks of validators 10 to 19, 100 and so on,
  since the keys to delete are found by the decimal digits of the ID
  (`slashing/keeper.go:146-153`); their counters stay. "This counter just tracks the
  sum of the bit array" (`slashing/infractions.go:41-43`) is not so then: what
  they missed before is counted again, they may be slashed for fewer misses
  than the window demands, and a counter may never come down to zero again and pass
  the window. The digits of an ID and the byte of an index run into each other as
  well: with the default window of 100, the key of validator 1 at index 48 begins
  like those of validator 10, so that a slash of validators 10 to 19 deletes a bit
  of validator 1.
- An import permutes the records as soon as there are ten: they are exported in the
  order of their keys, 1, 10, 2 (`clerk/keeper.go:406-427`), and numbered anew
  (`clerk/keeper.go:113-139`). No event is lost, but the IDs under which child chain
  nodes have read the first records are other events' from then on.
- An empty answer of `tillTimeRangeQuery` for an ID that does not exist yet
  (`clerk/client/rest/query.go:284`) is not final, as the hazard at that line explains.
- `randomRangeInclusive` is meant to be unbiased, but the numbers it allows are one
  fewer than whole rounds (`bor/selection.go:106-112`): one value of each range is
  chosen by one of 2^64 numbers less. `ProducersFollowPower` states the bias.
- The choice of the producers seeds the random numbers of the whole process
  (`bor/selection.go:64`), which a bridge in the same process draws from as well
  (`tron/types.go:56`).
- `gov/invariants.go` wants the balance of the module's account to equal the deposits;
  a transfer to that account makes it larger, which is why `DepositsCovered` says
  at least.
- When CheckTx refuses a transaction the broadcaster returns no error
  (`bridge/setu/broadcaster/broadcaster.go:89-105`), so that the queue takes the task for
  done. Spans are polled for, which is why `BorRunsOn` holds; the single event of
  another processor is lost at this validator.
- Topups and withdrawals do not update the total of the supply module.

## 7. What is not modelled

- Pure input and output: `helper` (calls to the root chains), `cmd`, `server`,
  `client` and `simulation`. `contracts` and `tron/pb` are generated bindings, which make up
  about half of the repository's lines and hold no logic of it.
- `featuremanager` and `chainmanager`: parameters that accepted proposals set, read by the
  other modules. The models have the features switched on and the root chains fixed.
- The listeners of the bridge with their cursors in LevelDB, and the task queue: an event may
  reach a handler at any time, several times or late, which is more than they do;
  that an event can be lost for good (hazard at `rootchain.go:235`) is why nothing
  is promised that depends on a single event. The checkpoint processor's choice of
  the next end and of the time for a no-ack, which only restrict what the
  handlers of `Checkpoint` are checked against; its choice of the start is in the
  fairness (section 4).
- Export and import of the genesis, except for the clerk's (hazard at
  `staking/genesis.go:13`). `InitChainer` is wiring.
- Inside the modelled components: root, account and block hashes, the Merkle tree of dividend
  accounts, signatures, public keys and gas (a fact is either confirmed or not);
  reorganisations of a root chain behind the confirmations the helper waits for;
  `MsgStakeUpdate`, whose handlers are commented out; `MsgMultiSend` and several
  denominations; evidence that is too old; what an accepted proposal does.
- Assumed of the world outside: the stake chain numbers the events of a validator
  and never reuses a signer; the other root chains take only higher nonces and
  start with the genesis validators; header blocks on a root chain are never
  withdrawn; the stake chain takes ticks in the order of their numbers; Tendermint
  orders blocks, does not forge signatures and has less than a third of Byzantine power.

## 8. Plan

The components with a protocol of their own are modelled. What remains, in the
order of importance:

1. Proofs of what the liveness properties rest on besides fairness, as invariants and
   action properties: that whatever waits keeps a step that would serve it, and
   that what such a step gained is not lost again.
2. Export and import of staking and checkpoint, once it is decided what they should
   keep: today they lose state that the modules rely on.
3. The cursor of the listeners with crashes between its steps, composed with `Clerk`:
   it needs a promise weaker than delivery, since the code makes none.

Runs are kept few: each asks questions of its own, and instances that a theorem
covers are kept small.
