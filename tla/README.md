# goat-relayer: a TLA+ verification project

goat-relayer bridges bitcoin and the GOAT layer 2. A small group of relayers
holds bitcoin together; one of them, elected per epoch, is the *proposer*. Each
relayer reads both chains, keeps what it knows in a wallet database, builds or
co-signs bitcoin transactions that pay layer 2 withdrawal requests, and reports
bitcoin blocks and deposits back to layer 2. This directory models the program,
checks it with TLC on small instances, and proves the main safety properties of
the wallet database, the signature rounds, the deposits, the plans for new
orders and the reader of bitcoin with TLAPS.

## 1. The system

| component | where | state | operations |
|---|---|---|---|
| wallet database | `internal/state` (`withdraw.go`, `wallet.go`, `safebox.go`, safebox part of `deposit.go`), `internal/db` | tables send_order, vin, vout, utxo, deposit_result, withdraw, safebox_task | create, recover, broadcast, confirm, finalize, close an order; add, reserve, spend a utxo; contract events of a task |
| layer 2 listener | `internal/layer2` | `L2SyncStatus.LastSyncBlock` | fetch a block, run message handlers, then event handlers |
| bitcoin notifier, poller, block processor | `internal/btc`, `internal/wallet/btc_blocks.go`, `internal/state/btc_head.go` | confirmed height, hash queue, block headers | fetch confirmed blocks, add outputs, confirm orders, ask for block signatures |
| wallet loop | `internal/wallet/withdraw.go`, `withdraw_strategy.go` | `sigStatus`, `sigFinishHeight` | clean up, select inputs and withdrawals, build an order, start a signature round |
| broadcaster | `internal/wallet/withdraw_broadcast.go` | - | send accepted orders, tell the others, watch pending transactions |
| BLS signer | `internal/bls` | `sigMap`, `sigTimeoutMap` | start, receive, aggregate, time out a round |
| deposits | `internal/wallet/deposit.go`, `internal/state/deposit.go`, `internal/rpc` | deposit rows, their queue, results of mints | register, confirm, submit, credit, fetch the script |
| safebox processor | `internal/safebox`, `internal/tss` | one TSS session | call the task manager contract: receive funds, process a timelock transaction; sign by TSS, send, retry |
| layer 2 info | `internal/state/l2_info.go`, `internal/voter` | epoch, proposer, voters, voter queue | elections, new voters |
| event bus | `internal/state/eventbus.go` | subscribers per event type | subscribe, publish without waiting |
| transport and services | `internal/p2p`, `internal/http`, `internal/rpc` | - | gossip, custody API, utxo RPC |

**How they interact.** Listener, block processor, wallet loop, broadcaster and
signer are goroutines. They share the wallet database through `State`, whose
writers hold `walletMu` and run one database transaction each, and they send
events through the event bus. Relayers talk by gossip (signature requests and
answers, "order broadcast"). Both chains are read block by block from a stored
height.

**What is hard.** The two chains are read independently, so every fact of one
may arrive before or after the related fact of the other. A withdrawal may be
in several orders over time (a proposer loses its role, the next one rebuilds),
and several orders may compete for one utxo. Rows are updated by order id in
some places and by transaction id in others. Clean-ups free what a later event
may still need. Heights are saved after the handlers ran, so blocks are
replayed after a crash and after a failed handler. Rounds time out, answers
arrive late, and an election can fall anywhere.

**What makes each component correct.** Wallet: a settled order has consumed its
inputs, a spent utxo stays spent, nothing stays reserved for a dead order, rows
that refer to each other agree, a task never waits for a dead order. Flow: only
what layer 2 accepted is broadcast; what both chains say happened is what the
wallet ends up with, whatever the reading order. Signer: a client that waits is
always told of an end, and what is submitted has enough votes for one document.
Reader of bitcoin: no block is left out, whatever crashed or failed. Deposits:
what is confirmed can be proved to layer 2, what was minted is not submitted
again. Plans: no utxo, withdrawal or task is in two standing orders, the fee
meets the price and not much more, and no cover of the amount is missed. Safebox: money leaves
only after the contract recorded the transaction, and a task does not go back.

## 2. Modules

| module | models | extends |
|---|---|---|
| `WalletState` | the wallet database, every writer in any order | standard modules |
| `WithdrawFlow` | one relayer's goroutines between two chains | `WalletState` |
| `BlsSigning` | signature rounds of all relayers, with poller, wallet flags and layer 2 | standard modules |
| `Merkle` | the merkle tree and proof of a block (functions) | standard modules |
| `Deposit` | a deposit from the user's transaction to a spendable utxo | `Merkle`; implements `WalletState` |
| `UtxoSelection` | sizes, fees, choice of inputs (functions) | `FiniteSetsExt` |
| `WithdrawStrategy` | the plans of a proposer over time | `UtxoSelection` |
| `SafeboxFlow` | safebox tasks in a group of relayers | standard modules |
| `BtcReader` | notifier, poller, event bus, wallet as a pipeline | `FiniteSetsExt` |
| `X_proofs` | theorems about `X`: `WalletState`, `WithdrawFlow`, `BlsSigning`, `Deposit`, `Merkle`, `WithdrawStrategy`, `SafeboxFlow`, `BtcReader` | `X`, TLAPS |
| `MCX` | constants of the small instances of `X` | `X`, TLC |

The modules cut the program where its parts meet in few facts. `WalletState`
allows its writers in any order, so it holds whatever the callers do;
`WithdrawFlow` composes it with the callers; `Deposit` is a second caller that
is shown to use it correctly. A round of `BlsSigning` is a single step
(`EndSig`) in `WithdrawFlow`, a plan of `WithdrawStrategy` a free choice of an
order there, and a block of `BtcReader` a step of the block processor.

Definitions marked `(bug)` are not part of a model: they are plausible mistakes
in the definition that follows them, each of which some property must notice
(`mutants` in `PROJECT.json`).

### WalletState

One variable per table. `order`, `vin` and `vout` are indexed by the row number
of the send order (`OrderId`), because the code asks for "the latest order of a
transaction" (`ORDER BY id DESC`); `vin[o][u]` is the status of the vin row of
order `o` that spends `u`. `withdraw` and `task` keep status, order id and
transaction id, the columns that later updates select by. A transaction is a
constant with its inputs, its own outputs, the withdrawals it pays and the
tasks it opens.

Each writer of `State` is one action: the code takes `walletMu` and runs one
database transaction. A return without writing is an `UNCHANGED` disjunct; a
returned error rolls back, so it is no step. Which *kind* of order a
transaction belongs to is not a field: a payment has `Pays`, a timelock
transaction has `Secures`, a consolidation has neither.

Abstracted: amounts, fees, scripts, addresses, proposal ids, timestamps and
block heights; the choice of inputs (any choice is allowed). Task ids and
deposit addresses are not reused, so `CreateSafeboxTask` asks for a fresh row.
`UpdateSafeboxTaskInit` has no caller and is left out, as are
`UpdateUtxoSubScript` and `UpdateWithdrawReplace`, which write no column that a
transition reads, and `AddOrUpdateVin`/`AddOrUpdateVout`, which the block
processor never reaches.

### WithdrawFlow

Adds the callers. `l2log` and `btcLog` are the two chains as one relayer can
read them (external). The listener handles `l2log[synced + 1]`; blocks with two
handlers (`MsgProcessWithdrawalV2` with its event; an election) take two steps,
with `halfDone` in between. The block processor adds the outputs of
`btcLog[scanned + 1]` one by one and then confirms the order. The wallet loop
cleans up and builds (`InitWithdrawSig`, then `BuildOrder`, `BuildNothing` or
`CloseDust`, which closes withdrawals among those it read before, `picked`,
whatever became of them since); `EndSig` is the end of the signature round in any of its forms. A
voter stores the proposer's order (`JoinOrder`); the broadcaster's steps are
`BroadcastOrder`, `HearBroadcast`, `RevertPending` and `ConfirmPending`.
Failures are `Restart` (memory is lost, and any height since the last restart
may be the saved one) and `RetryBlock` (the second handler failed).

External, modelled from how the code uses it: layer 2 accepts only transactions
whose withdrawals are payable and whose inputs exist and are not spent by
another accepted one; bitcoin mines accepted transactions; finalization follows
mining. The waits of five layer 2 blocks between rounds and the `Syncing` flags
only delay steps and are left out (`Syncing` is in `BtcReader`); safebox orders
are in `SafeboxFlow`.

### BlsSigning

All relayers at once. A *request* is made by a client of the proposer: the
poller for new headers (`InitSig`), the wallet for a send order
(`InitWithdrawSig`), a finalization or a cancellation (`InitSingleSig`). The
signer's goroutine takes it from `sigStartCh` and either refuses it, opens a
round (`StartRound`, a broadcast) or submits at once what needs no votes
(`StartSingle`). Messages of others are handled by `Answer` (a voter signs),
`ReceiveVote`, `ReceiveFailed` and `ReceiveOther`. After a vote the same
goroutine aggregates (`CollectMore` or `Submit`) and waits for layer 2
(`SubmitOk`, `SubmitFailed`); `signer` says where it is, because the timeout
check (`Timeout`) and everybody else run meanwhile. The ends of rounds travel
to both clients in `feedback` and are handled by `HandleFeedback`.

`sigMap[r]` is a set of vote messages; the round of a request is the votes with
its id. A message carries what the code copies from the request (sequence,
epoch, blocks) and, as `doc`, what its sender signed: its *own* idea of
proposer, epoch and sequence. Each relayer's idea comes from layer 2's history:
`voted[r]` and `headed[r]` are positions in `l2`, separate because two events
of one layer 2 block update them.

Abstracted: the content of blocks, orders and proofs; the age of rounds (any
open round may time out, as nothing bounds how long the goroutine is busy);
messages that change nothing (as good as lost); the feedback's order (three
channels and a random `select`); checks and waits that only postpone a request
(fees, blocks since the election). A send order's number is the number of the
request, since its id is a fresh UUID; headers are requested again under the
same id, as in the code.

External: layer 2 accepts the votes of the current proposer, epoch and sequence
only, when there are enough and all signed the same document; it includes a
proposal at any time after it was sent, also after `RetrySubmit` gave up. The
network delivers in any order or not at all; nobody receives its own messages.
Relayers are correct: they may stop, restart or lag behind.

### Deposit and Merkle

Four goroutines meet in two databases. The deposit loop registers deposits from
the RPC service (`NewTransaction`) and from peers (`ReceiveDeposit`), reads a
batch of unconfirmed rows behind its cursor (`QueryUnConfirmDeposit`) and checks
them one by one (`CheckFails`, `CheckSkips`, `CheckConfirms`); as proposer it
starts a submission (`InitDepositSig`), which the signer refuses or submits. The
listener handles block hashes and mints, each in two writes (`Begin..`, `End..`,
with `half` between them). The block processor finds deposits of version 1
(`Scan`). The notifier fetches the script of a utxo that only the mint of
another relayer made known (`FetchSubScript`, then `HandleP2WSHDeposit`).

`queue` is the in-memory copy of the rows, loaded again by `Restart`. `AddUtxo`
reads a deposit result and writes a utxo and a check in two databases; it holds
`walletMu` meanwhile, which the model keeps as `writing`. A block is a sequence
of transactions, a merkle node the pair of its children (double SHA-256 keeps
different pairs apart), and the proof of a confirmed deposit is verified as
layer 2 does. Bitcoin, layer 2 and the age of a row are external. Amounts are
left out: all are at least `MinDepositAmount`, so the filter of
`GetDepositForSign` lets every deposit pass.

`ImplementsWallet` is a refinement: with no orders, the utxos and results of
`Deposit` behave as the atomic `AddUtxo` and `AddDepositResult` of
`WalletState`, which therefore need no finer steps there.

### UtxoSelection and WithdrawStrategy

`UtxoSelection` is a translation without state: estimated sizes, the choice of
one utxo, a pair or the largest ones, the extra small input, change and dust,
the fee shared over the outputs, and the checks before signing. The code counts
in floats of quarters of a byte, so estimates are quarter satoshis here. Where
`sort.Slice` leaves equal amounts in any order, the id decides. Left out are
`validateTransactionSize` and its answer, `handleTxSizeError` (one input fewer):
with at most 200 inputs in a consolidation, and 51 inputs and 33 outputs in a
payment, the size without witnesses is between 82 bytes and 9 kB, inside the
limits of layer 2's bitcoin module, which is not part of this repository.

`WithdrawStrategy` is the loop's tick `initWithdrawSig` of a proposer in sync:
consolidation first, then a safebox task, then the first ready batch of
withdrawals. Fees move, requests arrive and age (`PassTime` stands for the two
waiting times), and an order is signed, fails or is confirmed; its change is a
new utxo. What a batch costs, whom it leaves out and when it may start are as in
the code.

### SafeboxFlow

All relayers, the task manager contract, the layer 2 chain's pool of signed
calls and the TSS service. A relayer's task loop is `pc`: it picks a task
(`QueryTick`), opens a session, tells the voters, asks the TSS service until a
signature comes, applies and sends it, or gives up. The signer's round of a
timelock order (`InitWithdrawSig` to `SubmitEnd`) uses the same session variable
from another goroutine, so each step that reads `tss[r]` again after a wait is
an action of its own. The events of the contract arrive in chain order, at each
relayer in its own time; `Broadcast` (which sends first, and may then fail to save
the row), `RevertPending` (the node lost the transaction), `ReceiveNotice` and
`ConfirmTimelock` are the bitcoin side. Every attempt of the task loop has a
request id of its own (`NewId`), so late signatures for an attempt that was given
up do not count for the next one; the request of an order carries the order's id.
Amounts and addresses agree on all relayers, and timelock transactions of
different ids spend different utxos.

### BtcReader

A block is its height. The notifier (`Tick`, `Fetch`, `FetchFails`,
`FinishScan`, `SaveFails`) hands blocks to the poller (`PollerTake`,
`PublishBlock`), the event bus to the wallet (`WalletTake`, `WalletDone`), which
answers on `blockDoneCh`. The rows and `Latest` are also moved by the listener
(`HearBlock`, or `HearFails` when the row cannot be read and `Latest` is set all
the same). `OtherPublish` and `OtherTake` are any other topic with a slow
reader: when its channel is full, `Publish` asks for the write lock of the bus
under its own read lock, and `locked` stays set until the process ends. `Crash`
loads what the databases hold; `Stop` closes `blockDoneCh` before anything else
is told, after which the notifier no longer waits (`WaitEnds`) and the wallet
panics (`WalletPanics`).

## 3. Properties and runs

| run | instance | properties |
|---|---|---|
| `wallet` | a payment, the timelock transaction of a task that spends its change, two order rows | `TypeOK`, `SettledInputsSpent`, `NoLeakedReservation`, `WithdrawNamesItsOrder`, `TaskFollowsOrder`, `SpentIsFinal`, `SettledIsFinal` |
| `flow_rival` | an order and its rebuilt rival, one fault | `AgreedBeforeBroadcast`, `FinalizedInputsSpent`, `AcceptedNotSelectable` |
| `flow_chain` | a payment and the consolidation of its change, fair readers | `FinalizedIsSpent` |
| `bls_rounds` | two relayers, an election, two requests of three kinds, one fault | `TypeOK`, `PollerNotStranded`, `OrderNotStranded`, `SubmittedHasQuorum`, `AcceptedIsConfirmed`, `FinishedBlockAccepted` |
| `bls_released` | two relayers, two header requests, fair signer and timers | `PollerReleased` |
| `deposit` | deposits of both versions in a block of five transactions, elections, one submission at a time, one fault (a restart, a failed query or a repeated event), a fair deposit loop | `QueueMatchesTable`, `ConfirmedProvable`, `CreditedProcessed`, `ProcessedIsFinal`, `ImplementsWallet`, `FlagReleased` |
| `deposit_live` | a transaction that pays the user twice, one of a bad size that may be unknown to the node, any order of their three deposits and mints, fair loops | `ConfirmedEventually`, `FetchedEventually` |
| `strategy` | three withdrawals, a task, two pools of utxos, three fee levels, fair ticks | `OrdersDisjoint`, `FeeExact`, `SelectionBest`, `PaidEventually` |
| `safebox_group` | two relayers, a funded task, two timelock transactions, two orders, two calls, one fault | `RecordedBeforeSent`, `RowsFollowContract`, `RecordedForward` |
| `safebox_calls` | one relayer, a task from its creation and a funded one, three calls, one fault, fair loops | `FundsEventuallyReceived`, `ConfirmedEventuallyProcessed` |
| `btc_reader` | three blocks, the second is layer 2's start, two faults, one stop, channels of capacity 1, fair loops | `BlocksHandledInOrder`, `OneBlockInFlight`, `RowsFollowLayer2`, `EveryBlockHandled`, `SyncingEnds` |
| `voter_never_signs` | two relayers, both needed by the TSS group | `EveryVoterSigns` is violated |

The comment above each property says which behaviour of the code it is about.

**Bounds.** Two transactions are the smallest number that can compete or depend
on each other, and every property of the wallet relates one row to at most one
rival. `MaxOrder` bounds rows of the order table: with two, both may belong to
one transaction, which is when "latest order" and "all orders" differ. `MaxLog`
bounds layer 2 blocks (request, processing, finalized), `MaxBuild` the rows up
to which orders are built, `MaxFault` restarts and retries. In `BlsSigning` two
relayers are the smallest group in which a round needs an answer
(`Threshold(2) = 2`) and both roles change hands at an election; two requests
are what late votes and late feedback need to meet a round they do not belong
to; one fault at any point shows what it leaves behind.

In `deposit` five transactions make every level of the tree of odd length above
one, so that padding matters on two levels. In `deposit_live` the three deposits
are registered, confirmed by check or by block hash, minted by others and queued
for their script in every order: the dropped one comes to stand before a good one
in the cursor's order, a second output is known here only through its mint, and
results that the notifier cannot finish stand before and behind those it can. The sizes and
fee rates of `strategy` are the real ones with amounts of the same magnitude, so
that each branch of the selection and each reason to leave a withdrawal out
occurs; `MaxTurn` allows one change of the first fee or one failed order, and
`MaxOrder` is large enough for every request to be served. `safebox_group`
limits itself to states with at most two messages on the way and stops at the
end of a task (its `CONSTRAINTS`); creation, deposit and cancellation are in
`safebox_calls`, which has no constraint. `MaxAttempt` bounds the request ids in
use at a time, never the number of attempts: an id is free again once no session,
message or submission holds it, and a third one adds no state to `safebox_calls`. `btc_reader` has capacity 1, where a
second block in a channel would already be one too many, and a range of two
blocks, so that a scan can cover one block or several.

The bounded instances stop when a bound is reached, so deadlock is checked only
in `wallet`, whose instance never stops.

**Symmetry.** `flow_rival` declares its two rival transactions interchangeable,
`bls_rounds` its relayers, `safebox_group` its relayers and its timelock
transactions: constants, initial states and actions treat them alike, and these
runs check no liveness property. The liveness runs use none.

**Fairness.** Each assumption is about what a relayer's own goroutines do; none
is made about users, elections, the network, miners or other relayers, unless
named here.

- `FairFlow`: weak fairness of the listener and of the block processor. Both are
  loops over a timer that retry the same block until it succeeds.
  `FinalizedIsSpent` then says that the listener, which cannot handle a final
  payment while an input is unknown, is always released by the block processor.
- `FairSpec` of `BlsSigning`: the signer serves requests and messages with one
  `select`, which picks at random among what is ready, hence strong fairness of
  `HandleStart`; its submission ends because retries are bounded (`Work`); the
  timeout check and the clients' feedback loops have tickers of their own (weak).
  `PollerReleased` rests on the timeout alone.
- `Fairness` of `Deposit`: weak for the loops and the second halves of what they
  began; strong for what waits for `walletMu`, which Go hands to the one that
  waits longest, and for the check of a deposit, since the node does not fail
  forever for a transaction it knows. 72 hours pass (`Age`): until they do, a
  transaction the node dropped is read again with every batch and keeps the cursor
  from going back to the deposits before it. `FlagReleased` is checked under
  `LoopSpec`, the fairness of the deposit loop's ticker alone.
- `FairSpec` of `WithdrawStrategy`: ticks, the passing of time, and that some
  order that waits for its round or its confirmation gets on. A withdrawal is
  excepted while it is `Hindered`: the network fee is unknown or too high, its
  own price or amount too low, or the plan that is due fails in
  `CreateRawTransaction` (each tick makes the same plan again).
- `Fairness` of `SafeboxFlow`: the task loop, the listener, and that the chain
  executes something from its pool. `NoNonce` excepts the bound on calls. The run
  has one relayer whose signature is enough. With voters the properties would
  need them to sign before the proposer gives up, which nothing in the code
  ensures, and with a quorum above one no order's call can be signed at all
  (`voter_never_signs`); late voters are part of the safety run.
- `FairSpec` of `BtcReader`: the loops of the pipeline, and that a process that
  is stopping ends and is started again. `locked` and `stops` except a locked
  bus and a requested stop.

**What the code does not keep.** One comment is contradicted by the code and
shown by a run (`findings` in `PROJECT.json`): "every voter(proposer included)
sign the transaction via call tss signer" (`internal/safebox/safebox.go`). A
voter that receives the order of a safebox task stores it first, which writes
the new transaction into the task's row, and then compares the row with the task
in the message; they differ, and it returns without an error and without asking
its TSS signer. `voter_never_signs` finds a voter that has stored the order and
has not signed.

Further limits of the code that the models contain and that bound what the
properties can say:

- `CleanProcessingWithdraw` returns inside its loop, so of several half-built
  orders one is closed per call (`NoLeakedReservation` still holds).
- A withdrawal that a rival order took over is not marked processed when the
  first order is final, and may even be selectable again while the first order is
  accepted, because rows are updated by order id. `AcceptedNotSelectable`
  therefore excepts withdrawals with a stored rival (`TakenOver`).
- When layer 2 is read ahead of bitcoin, inputs of an accepted transaction that
  are not stored yet are not reserved.
- A transaction without a stored order spends nothing on this relayer: the block
  processor recognizes inputs by the order.
- With a threshold of three votes or more, a send order's round is reported as
  finished after the first answer although nothing was submitted.
- A finalization that succeeds leaves `finalizeWithdrawStatus` set until the
  relayer loses the role; `handleWithdrawSigFailed` does the same with
  `sigStatus` for a safebox order whose task has moved on.
- The RPC service registers every output of a transaction to the user's address,
  the check of unconfirmed deposits looks at the first one only, and skips a
  transaction of a bad size. Such a deposit is confirmed by the hash of its block
  or not at all: registered later, it stays unconfirmed for the 72 hours it is
  looked at. `ConfirmedEventually` says so with `Checkable` and `HashAhead`. A
  deposit of a bad size that the hash confirmed makes layer 2 refuse each
  submission that contains it.
- `GetDepositResultsNeedFetchSubScript` reads one row where its comment says 100.
  A row the notifier cannot finish (a second output that only its mint made known,
  a transaction the node does not know) is read again and again and holds up all
  younger rows for good. `FetchedEventually` excepts exactly these (`Blocked`).
- The safebox processor takes the newest due task where a comment says the first.
  A newer task that can be built only delays an older one; one that the contract
  refuses keeps it waiting, which no run contains.
- When the row of an accepted block hash cannot be read, `Latest` is set to it all
  the same; `Latest` may therefore be one block ahead of the rows, and fall back
  when the event is handled again. `RowsFollowLayer2` speaks of the rows.
- A full channel locks the event bus for good, and a requested stop may leave out
  the block in hand; the properties of `BtcReader` except exactly these.

## 4. Proofs

TLC shows a property for the instances above, a theorem for every value of the
constants.

**Wallet.** `WalletState_proofs` proves, for all sets of transactions, utxos, withdrawals
and tasks and every `MaxOrder`:

| theorem | property |
|---|---|
| `TypeCorrect` | `TypeOK` |
| `SettledSpends` | `SettledInputsSpent` |
| `ReservationsAreOwned` | `NoLeakedReservation` |
| `WithdrawalsNameTheirOrder` | `WithdrawNamesItsOrder` |
| `TasksFollowOrders` | `TaskFollowsOrder` |
| `SpentForever` | `SpentIsFinal` |
| `SettledForever` | `SettledIsFinal` |

They assume only the typing of the constants (`NoTxAssumption`,
`TxAssumption`, `MaxOrderAssumption`). The inductive invariant `IInv` is their
conjunction with two additions:

- `RowsInserted`: rows above `lastOrder` do not exist and rows up to it do.
  Without it an insertion could overwrite an old order.
- `TasksFollow`, which strengthens `TaskFollowsOrder`: a task in status `init`
  names the *latest* order of its transaction. Only the latest order is
  reverted, confirmed or reopened, so without this an older row of the same
  transaction could move away under the task.

The steps are split by what they do to the order table: `OrderTableStep` shows
that each step either inserts a row or only changes statuses; `SpentStep` shows
that nothing un-spends a utxo; `SettlingStep` that a step which settles an
order spends its inputs. `SettledStep`, `ReservationStep`, `WithdrawStep` and
`TaskStep` then treat one conjunct each.

**Withdrawal flow.** `WithdrawFlow_proofs` builds on these, for every number of
restarts, retried blocks, elections and chains of any length:

| theorem | property |
|---|---|
| `FlowImplementsWallet` | every step of the flow is a step of `WalletState`, so all of the above holds of it |
| `BroadcastIsAgreed` | `AgreedBeforeBroadcast` |
| `FinalizedIsSpentAtOnce` | `FinalizedInputsSpent` |
| `AcceptedIsTaken` | `AcceptedNotSelectable` |

The properties relate the wallet to what the listener has read, so the inductive
invariant `FlowInv` says which trace each handled block left, whatever the other
goroutines did since:

- `HandledRequests`, `HandledOrders`, `HandledFinals`: a request left a row, an
  accepted transaction an order past `aggregating`, its end spent inputs; and
  `HalfHandled`: the first half of a block left at least the row its second half
  looks for. They survive a retried block because handling a block again changes
  nothing it needs, and a restart because the saved height is never ahead.
- `PastAccepted`: an order past `aggregating` is accepted by layer 2. The wallet
  never closes such an order, which is why an accepted transaction cannot be
  cleaned up.
- `NewestNamed`: the row of a selectable withdrawal names the newest order that
  pays it. With it `PastPaid` can be shown: the clean-up of an order frees only
  withdrawals that name it, so a withdrawal of an order past `aggregating` is
  selectable only when a newer order, of another transaction, took it over. That
  exception is real: a rival order of the same withdrawal may be stored before
  the acceptance is read.

`LogSound` says what layer 2 lets into a block, and `OrdersPast` and
`SelectionKept` what any step of the wallet may do to an order's status and to
a selectable withdrawal; the conjuncts are shown from them.

**Signature rounds.** `BlsSigning_proofs` proves all safety invariants of `bls_rounds`, for every
finite set of relayers, every threshold and batch size, and any number of
requests, elections and faults:

| theorem | property |
|---|---|
| `TypesCorrect` | `TypeOK` |
| `QuorumCorrect` | `SubmittedHasQuorum` |
| `ConfirmedCorrect` | `AcceptedIsConfirmed` |
| `FinishedCorrect` | `FinishedBlockAccepted` |
| `PollerCorrect` | `PollerNotStranded` |
| `OrderCorrect` | `OrderNotStranded` |

They assume `RelayerAssumption` (relayers are finitely many, candidates are
relayers), `HeightAssumption` and `LimitAssumption` (typing), and what
`BlsSigning` says of the external layer 2, in `ConfirmedCorrect` that it accepts
only votes for the document that the proposal claims. The invariants rest on
each other and on these additions:

- `RoundsOK` (theorem `RoundsCorrect`): a round is opened only by a request of
  the relayer's own clients and holds one vote of each voter. With it the number
  of votes, which is what the signer counts, is the number of voters, and the
  vote marked as the proposer's is the proposer's.
- `VotesConfirmed`: every queued request, message, stored vote and proposal
  names blocks that its *sender* has confirmed. A proposal's votes come from
  several requests of one name, so it must hold of each message, wherever it is.
- `AcceptedReached`: layer 2 is at least at the first block of what it accepted.
- `PollerServed` and `OrderServed`: what a client waits for is queued, open or
  reported, even without the signer's own memory. This is stronger than
  `PollerNotStranded`, which also counts a request the signer is working on, and
  inductive: `WaitingStep` shows that no step but a restart or the client's own
  hearing drops a request for headers or for an order. `TypeOK` contributes that
  every open round holds the proposer's own vote, without which a timeout would
  have nothing to report.

`NetStep`, `QueueStep`, `MapStep`, `PoolStep`, `AcceptedStep` and `FinishStep`
say once what any step may add to one variable; the invariants are shown from
them and not action by action.

**Deposits.** `Deposit_proofs`, for every set of transactions, every chain and
any number of restarts and repeated events:

| theorem | property |
|---|---|
| `TypeCorrect` | `TypeOK` |
| `QueueFollowsTable` | `QueueMatchesTable` |
| `ProcessedForever` | `ProcessedIsFinal` |
| `CreditsAreProcessed` | `CreditedProcessed` |
| `ConfirmedIsProvable` | `ConfirmedProvable` |
| `DepositRefinesWallet` | `ImplementsWallet` |

Each step is first classified by what it does to the rows and their queue
(`RowCases`) or to utxos and results (`UtxoCases`); the invariants are then shown
of the few cases. `CreditedProcessed` is not inductive while `AddUtxo` is
between its writes: `WriteAgrees` says that the status it is about to write is
still the right one, which holds because `walletMu` is held, and that only
credited utxos are fetched. `WalletInv` joins these with `TypeOK`, and under it
every step of `Deposit` is a step or a stutter of
`WalletState` (`StepRefines`).

`ConfirmedProvable` has two halves. `PlacedInv` is about the rows: the listener
follows layer 2, which follows bitcoin (`Follows`), so the height that a check, a
scan or a block hash writes is that of a block that holds the transaction
(`Placed`). `Merkle_proofs` is about the tree: `SiblingsVerify` shows, for any
number of leaves, that the path collected from the padded levels leads a
verification from the leaf to the root. The provers cannot use the library's
induction theorems, which take an operator; `Induction` states the principle for
sets and is proved from the least element of a set (`LeastNatural`). With it
`RunsExist` and `RunsAgree` give functions defined by recursion their equations,
`LevelLength` and `DepthExists` a root to every level, and `Ancestors` that halving
a position follows a leaf upwards. What is assumed of the chain is its shape
(`ChainAssumption`).

**Plans.** `WithdrawStrategy_proofs` proves the three invariants of the run
`strategy` for all amounts, prices, fees and pools:

| theorem | property |
|---|---|
| `DisjointOrders` | `OrdersDisjoint` |
| `FeeIsExact` | `FeeExact` |
| `SelectionIsBest` | `SelectionBest` |

Two additions make the first inductive: `RequestedOnce` (a waiting withdrawal is
in no standing order and was asked for once) and `ChangesAreConfirmed` (a utxo
made from change is new). That a plan takes only what is offered
(`PlanTakesOffered`) is shown through every operator of the selection.

The other two are about sums over sets, which the model takes with the fold of
the community modules. `FoldExists` and `FoldAny` show, by the number of elements
(`Shrinking`, again without the library's induction theorems), that the fold
satisfies its recursive equation and does not depend on the order of the
elements; `SumWithout` and `TotalTyped` are what the rest cites.

- The fee. `CreateRawTransaction` raises its estimate while a withdrawal's price
  is exceeded. `CreateExists` shows that this ends (a withdrawal becomes dust) and
  `Created` that it never helps: an order is made at the first estimate or not at
  all. From there each kind of plan is arithmetic (`SharedFee` for the shares of
  the withdrawals, `ChangeFee` for the change of a safebox order,
  `ConsolidationFee`), and the invariant `Money` keeps it for every order whatever
  happens to it later. A batch is never empty (`OldestExists`), or nobody would
  pay.
- The selection. `OwnIds` (the id of a utxo is its own, also when it comes back
  from an order or is change) makes `Smaller` a total order. What `Gather`
  returns is an upper part of the pool (`GatherUpper`), and no set is worth more
  than an upper part of as many utxos (`UpperDominates`). `CoverIsEnough` and
  `CoverIsSmall` follow for the three ways to find a cover, `InputsFound` and
  `InputsFew` with the small extra input on top.

**Reader of bitcoin.** `BtcReader_proofs` proves `WalletReadsInOrder`
(`BlocksHandledInOrder`) and `BlocksComeSingly` (`OneBlockInFlight`) for every
start height, range, capacity and number of blocks, crashes and failures. While
the notifier waits, the block after `scan.last` is at exactly one of four
places, and otherwise nothing is under way (`OnePlace`). So the block the wallet
finishes is always the next one, and what it handled stays an interval that
covers every height a scan has passed or saved (`Covered`).

`RowsAgree` proves `RowsFollowLayer2` from the rows alone (`RowsInv`): until the
first block of layer 2 is heard no row is processed, and after it the processed
heights are without a gap from layer 2's start on, whichever of the scan and the
listener wrote a row first and however often an event is handled again.

**Safebox.** `SafeboxFlow_proofs`, for every group of relayers and every set of
tasks and transactions, with any number of orders, calls, crashes and changes of
the proposer:

| theorem | property |
|---|---|
| `OnlyRecordedSent` | `RecordedBeforeSent` |
| `RowsNameTheRecord` | `RowsFollowContract` |
| `RecordIsForward` | `RecordedForward` |

A relayer sends a transaction whose order is in status `init`; that
status comes only from the contract's event (`LogRecorded`) or follows a
transaction that is on bitcoin already (`NoticesSent`), so every order past it
names a recorded transaction (`OrdersRecorded`). The contract never forgets one:
it names a transaction only from `initialized` on (`NamedLate`), and the calls it
executes, from either goroutine's session, are about its tasks (`CallsKnown`).

The two properties of the rows need more, because the code moves a row with the
order *it* names but chooses the order to move by its *transaction*. `RowInv`
adds to the above:

- `CallsOwned` and `OrdersOwned`: a call that records a transaction names an order
  of its task, wherever it waits, so a transaction stands for one task.
- `LogTrue` and `Unread`: what an event says still holds of the contract when a
  relayer reads it late, and no row exists before its creation was read, so a
  creation never resets a row.
- `Named`: the order of a row is stored and was built for its task; until the
  record, the row has that order's transaction.
- `Agrees`: the property itself, with `tx \in Timelock`.
- `Ahead`: when the row names the newest order of its transaction, that order is as
  far as the row. Without it a late block or notice could move the order, and with
  it the row, from `confirmed` or later back to `pending`.

`NextMoves` classifies every step of every goroutine by what it does to one row
(`RowMove`: an event or a failed round before the record, a new order, the record,
processed, completed, a move with the order) and to the orders (`OrdersMove`); the
conjuncts of `RowInv` and `RecordedForward` are then shown of those few moves.

**Assumptions.** Every theorem assumes only the named assumptions on the
constants in the modules (typing, bounds being natural numbers, and what the code's
constants satisfy, such as a positive external amount), and the behaviour of
external parts as the modules describe it. Amounts are natural numbers: that they
stay below 2^63 satoshis is not stated (bitcoin has fewer).

**Only model-checked.** Every liveness property (`PaidEventually` and those of the
other fair specifications), since proofs of fairness and `ENABLED` are beyond the
prover. Every invariant a passing run checks has a theorem.

## 5. Not modelled

- The voter list, the voter queue and the new voter message: copied from layer 2
  and sent without votes; they decide only who may answer, and the models take
  the set of relayers as given.
- Transport (libp2p), HTTP, the fireblocks API, account sequence and RPC calls of
  layer 2: losses, delays, repetitions and failures are choices of the modules
  that receive messages or answers.
- Addresses, scripts, ABI and gas, configuration, database set-up and migrations;
  generated bindings and protobuf code.
- Reorganizations of bitcoin: the code reads only blocks with enough
  confirmations and does not look for them.
- Code without a caller: `AddUnconfirmBtcBlock`, `Unsubscribe`,
  `ConsolidateSmallUTXOs`, `UpdateSafeboxTaskInit`; and `AddOrUpdateVin` and
  `AddOrUpdateVout`, which the block processor never reaches.
- The wait of two blocks between finalizations, whose start height the code never
  sets.

Possible extensions: an abstract ledger of spent and reserved outputs that
`WalletState` implements; the composition of `WithdrawStrategy` with
`WithdrawFlow`, which now meet in "any choice of inputs is allowed".
