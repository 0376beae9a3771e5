# TLA+ models of POUW-Chain

TLA+ modules for the state that a POUW-Chain node must not get wrong: who owns
which coin, which blocks are on the chain, which orders and tasks are served and
paid, which exchanges and transfers go through, and which proposals are in
force.  The modules are translated from the Python source.  TLC checks them on
small instances; TLAPS proves what matters most about each of them for every
value of the constants.  Paths are relative to `src/`.

- [The system](#the-system)
- [Modules and the code they model](#modules-and-the-code-they-model)
- [Runs](#runs)
- [Findings](#findings)
- [Proofs](#proofs)
- [What is not modelled](#what-is-not-modelled)
- [Plan](#plan)

## The system

A node is one Python process (`main.py`, class `POUWNode`) with several SQLite
databases and these threads:

| thread | started by | does |
|---|---|---|
| asyncio loop | `main.py` | the P2P handlers: new blocks, synced blocks, transactions |
| mining loops | `start_mining` (one per `mining_start` call) | `mine_block`, `add_block`, the `on_block` callback |
| RPC server | `core/rpc/server.py` | one HTTP thread: every RPC call, one after another |
| market watchdog | `ComputeMarketV3` | retries settlements, times out orders, takes silent miners offline |
| scheduler watchdog | `ComputeScheduler` | takes late tasks back, takes silent miners offline, lets scores decay |
| exchange verifier | `DualWitnessExchange` | takes exchanges out whose witnesses do not come |

The threads share the objects below and call their methods directly; most
objects have a lock of their own, few calls hold it from their first read to
their last write, and no lock spans two objects or two databases.

### Components

| component | state | operations | what makes it hard | what it must guarantee |
|---|---|---|---|---|
| UTXO store, `core/utxo_store.py` | tables `utxos`, `transactions` | coinbase, transfer, replay of a peer's transfer, rollback to a height | called from three threads; replays conflict with local transfers; blocks come twice; reorganisations | no double spend, every unit traceable, money conserved |
| Consensus engine, `core/consensus.py` | `chain`, `_chain_height`, `pending_transactions`, `_address_nonces`, `stop_mining`, table `blocks` | create, mine, validate, append and save a block; accept a transaction; start and stop mining | lock held only around single assignments; validation, append and save are three steps; mempool cut without the lock | the chain forks only by races of two threads, disk and memory agree but for failed saves, no transaction is confirmed twice or lost |
| Node, `main.py` | none of its own | P2P handlers, mining callback | each handler is a sequence of steps over three databases | what peers confirm reaches the UTXO store |
| RPC service, `core/rpc_service.py` | none of its own | transfers, mining start and stop, exchange, orders | commits to the UTXO store first, submits to the mempool later | an answered transfer reaches the chain |
| Crash journal, `core/crash_journal.py` | journal table | begin, mark a step, commit, recover | written around two other databases | after a crash a mined block is credited once |
| Compute market V3, `core/compute_market_v3.py` | tables `orders`, `miners`, heartbeats | register, online, offline, create, match, start, submit, commit, reveal, cancel, settle; watchdog | rows are read, changed and written whole, without a lock in between; settlement callback before the row that records it; crashes | finished means paid, paid once but for failures, promises kept, dead orders failed |
| Compute scheduler, `core/compute_scheduler.py`, `core/blind_task_engine.py` | tables `tasks`, `miners`; batches and bans in memory | create, place, heartbeat, extend, submit a batch, settle; watchdog | as the market, and the batches are lost in a crash | a completed task passed its traps, earnings are bounded by the settlements, a late task is taken back |
| Sector ledger, `core/sector_coin.py` | balances, locked amounts, log | mint, lock, burn, transfer, copy a UTXO transfer, roll back | two truths (balances and log) that a rollback reconciles | conservation, locks accounted for |
| Dual-witness exchange, `core/dual_witness_exchange.py` | requests; witnesses in memory | request, witness, execute, time out | lock, record, burn and mint are separate calls; timeouts; crashes | coins burn only for witnessed exchanges, every exchange ends |
| MAIN transfer, `core/main_transfer.py`, `core/double_witness.py` | transfers with their witnesses | create, witness, execute, time out | execution in another database; a crash in between; stale copies | executed once but for failures, and only when witnessed |
| Contribution governance, `core/contribution_governance.py` | stakes, snapshots, proposals, votes, bonds, parameters | stake, propose, vote, finalize, cancel, expire, execute | changed votes, lapsing stakes, two transactions per settlement | totals are the votes, what is in force was approved, bonds follow the status |
| Fork choice, `core/consensus.py` | the chain, the blocks table | find the fork point, evaluate, reorganise | truncates and rebuilds several stores in steps | not running: see [below](#what-is-not-modelled) |

`PROJECT.json` lists the rest (networks, storage, scoring, wallet, treasury,
other markets, user interface) with the reason each is left out, and, as
`hazards`, every place in the modelled code found hard to test, with the
property that watches it or the reason why none does.

### How the components interact

A transfer begins in the RPC thread: the UTXO store spends its inputs, then
the consensus engine is asked for a nonce, then the transaction enters the
mempool.  A mining loop takes the mempool's front into a block, cuts it off the
mempool, and passes the block to `add_block`; the callback then writes the
journal, credits the coinbase and mints the sector coins.  A peer's block comes
in through `handle_new_block`: it interrupts mining, goes through the same
`add_block`, and its coinbase and transfers are replayed into the UTXO store one
by one.  An exchange locks and burns coins of the ledger that those mintings
fill; a MAIN transfer spends from the UTXO store.  The market, the scheduler
and governance touch none of that but through a settlement callback.

## Modules and the code they model

```
AccountLedger            what a store of coins promises
   ^ implemented by
UTXOStoreLedger -> UTXOStore
                       ^
                       |  its rows reduced to "spent by"
                  MiningNode      consensus + main + RPC threads
UTXOStore <- BlockRewards         composes the store with the sector coin's
                                  mintings and the mining journal
SectorLedger <- SectorExchange    composes the sector coin's ledger with the
                                  exchange engine and its verifier
MainTransfer                      transfer engine + witness engine, the store
                                  reduced to the sender's funds (its names
                                  differ from the store's, so that one module
                                  can extend both)
ComputeMarket                     market + RPC thread + watchdog
ComputeScheduler                  scheduler + blind engine + RPC thread + watchdog
ContributionGovernance            stakes, proposals, votes, bonds, parameters
MainCoin_proofs                   theorems about the UTXO store, the book of
                                  accounts it implements, and MainTransfer
other *_proofs                    theorems about the module of that name
SumTheorems                       facts about finite sums, for all of them
MC*                               instances for TLC
```

Every definition that stands for code is mapped to its lines in `PROJECT.json`
(`map`).  A definition whose comment begins with *Faulty* is no
part of a specification: it is a plausible bug, and each property of a passing
run has one that breaks it.

### UTXOStore

State: `utxos` and `transactions`, functions from ids to rows, as the two
tables.  Each action is one database transaction: every method makes all its
writes in one (`_conn`, or `_exclusive_conn` with `BEGIN EXCLUSIVE`), and SQLite
makes it atomic.

| action | code |
|---|---|
| `CreateCoinbase` | `create_coinbase_utxo`, with the `INSERT OR IGNORE` against the unique index on height |
| `CommitTransfer` | `create_transfer`: its coins were selected earlier, the guarded `UPDATE`s decide |
| `ReplayTransfer` | `replay_transfer_from_block`, all inputs free: whose rows they are and what they hold is taken from the block and compared with nothing |
| `ReplayConflict` | the same when an input is taken or does not exist: it *returns* from inside the transaction, which commits the inputs marked so far |
| `RollbackTo` | `rollback_to_height` |

`Replay` takes transfers that some node's `create_transfer` made (`Covers`);
`ReplayAnything` takes any: anybody's rows, any sender, any amount and any sum of
the inputs.  A transaction's row keeps that sum as `claimed`.  `HonestBlocks`
rules `ReplayAnything` out; only what rests on it names it.

Abstractions: one sector; the fee is the same everywhere; a transfer selects any rows that pay it (the greedy
selection is one such choice); a coinbase's id is its miner and height (its
hash is a function of them), a transfer's id is fresh (its hash contains the
time); signatures are verified before any state is touched.

`AccountLedger` knows only entries and balances: mint once per height, move
what is owned, undo everything above a height with nobody left in debt.
`UTXOStoreLedger` maps a balance to the sum of the unspent rows, and states that
the store implements the ledger (`ImplementsLedger`), as long as no replay
conflicts and every transfer in a block is one that a `create_transfer` made.
Otherwise it does not: a conflict destroys a balance, and a block that overstates
its inputs, or takes another's, makes or moves one.  `Conservation` says how much
money is made or lost: what `Stranded` rows hold, spent by a transaction that
nobody recorded, and what the transfers on record misstate (`Misstated`), which
is nothing with `HonestBlocks`.

### MiningNode

State: `chain`, `chainHeight`, `disk` (table `blocks`), `mempool`, `lastNonce`,
`stopMining`, `isMining`; a program counter `pc` and a block `blk` for each
thread that calls `add_block`; the UTXO store reduced to `spentBy`, `recorded`
and `credited`; the RPC thread's position `rpc`.  `addedBy` (which thread appended
each block) and `unsaved` (the heights whose save failed) are history variables.

One action per step between which another thread may run.  `add_block` is
`Validate`, `ValidateTxs`, `AppendBlock` (the locked part), `SaveBlock` or
`SaveFails` (`_save_block` swallows its exceptions and nobody looks at its
result); the mining loop adds `LoopCheck`, `CreateBlock`, `MineSucceeds`/`MineFails`,
`CopyRest` and `StoreRest` (the right and the left side of
`self.pending_transactions = self.pending_transactions[n:]`); the P2P handler
adds `NewBlockArrives`, `ResumeMining`, `Credit`, `ReplayOne`; sync is
`SyncBlockArrives`; a transfer is `RpcTransfer`, `RpcGetNonce`, `RpcSubmit`.
The handlers share one event loop and do not await between these steps, so only
one of them is under way (`HandlersIdle`).

A transaction carries its nonce as an int, as something that `int()` turns into
one, or not at all, and one that says its type is `coinbase` has no nonce check
(`Form`).  `add_transaction` compares the nonces of the first two only
(`Checked`), with the confirmed ones and with those in the mempool that are ints
already, whatever their type (`Counted`); the confirmed ones move with the
converted nonce.  `MempoolOrdered` says what order is left of that.

Abstractions: a transaction spends one coin, old enough for the confirmation
and maturity rules; whether a proof of work is found is a choice; peers are
honest about the transactions of their blocks, and send blocks on our tip or on
a fork of equal height; sync fetches one block at a time.

### BlockRewards

What a block pays goes to two databases, and a journal in a third is to keep
them together: the coinbases of the miner and of the treasury to the UTXO store
(here the module `UTXOStore` itself, instantiated over the same variables), the
sector coins to the ledger of `core/sector_coin.py`, and the intent to
`core/crash_journal.py`.

State: `blocks` on disk; the store's two tables; `mints`, the `MINT` rows;
`journal`; `up`, and for each of the three threads that pay rewards `pc` and
`work`.  The threads are the loop started at boot (`main.on_block_mined`, with
the journal), the loop started by `mining_start` (without it) and the P2P
handler.  Every database transaction is an action, and has a companion that
fails: `BeginFails`, `CoinbaseFails`, `MintFails`, `CommitFails`.  What follows
a failure differs: the boot loop has no handler around its coinbases and ends,
the others go on.  `SyncBlock` adds a block that pays nobody, as `handle_blocks`
does.  `Crash` keeps the databases; `Start` leads to `RecoverNext` only when the
configuration enables mining.  The entry state `STEP1_DONE` is left out, since
nobody calls `mark_step1_done`.

Abstractions: one sector, one wallet and one other miner; blocks are appended
one at a time; rewards are naturals, and halving rounds them down (`BlockReward`)
where the code keeps a fraction: `HalvingAssumption` keeps the heights low enough
that no reward is rounded to nothing.  A
recovery step may be preceded by a message: the real one finishes without
letting the event loop go, so the model allows a little more.

### ComputeMarket

State: the tables `orders` and `miners` with the columns that decide something;
`thread`, what the RPC thread and the watchdog are doing, with the copies of
rows they hold; `lock`; `queue` and `seen`, what a pass of the watchdog has
read; `beating` and `age` for time.

Each read and each write of a row is an action.  The calls are `RegisterMiner`,
`TouchMiner` (heartbeat, trap and rating), `OnlineOrOffline`, `CreateOrder`
with `MatchOrder`/`NoMatch`, `StartExecution`, `CommitResult`, `RevealResult`,
`SubmitRejected`, `CancelOrder`, and `RetrySettlement`, the retry by hand, which
does not wait for the watchdog's; `Settles`/`SettleFails`, `Finish` and
`WriteOrder` are used by both threads; the watchdog's pass is `ScanPending`,
`RetryNext`, `ScanRunning`, `ExpireNext`, `TimeoutOrder`, `Penalty`,
`ScanMiners`, `OfflineNext`, `PassDone`.  `Penalty` ends the pass with the
`AttributeError` that the code raises.  `Crash` keeps the tables and drops
everything else; `Raises` is an exception of the database at any statement, which
ends the call, or the watchdog's pass, where it is.

Abstractions: prices and scores only decide *which* eligible miner is matched,
so any may be; an order's age is young, past its timeout, or past its rented
time; a heartbeat is recent or not.  `settled`, `promised` and `overlapped` (the orders that
were retried by hand while the watchdog had them in its pass, and may be paid by
both) are history variables.  `_settlement_fn` is modelled as a callback that may fail; unset, as
the program leaves it, it counts as failing.

### ComputeScheduler

The scheduler in the blind mode that `main.py` starts, with its blind task
engine.  State: the tables `tasks` and `miners`; `batches`, `fails` and
`banned`, which the engine keeps in memory; `thread`, with the copies of rows in
hand; `queue` and `seen`, the rows a pass of the watchdog has read.  `verified`
(the batches whose traps were passed), `earned` (what each task added to each
miner's `total_earnings`, in shares) and `asked` (how often `distribute_reward`
settled a task) are history variables.

The RPC thread's calls are `CreateTask`, `RegisterMiner`, `RateMiner`,
`Heartbeat` and `HeartbeatAtWork` with `Extend` and `Touch`, the older
submission `SubmitResult` with `Verify`, and the blind one: `SubmitPassed`,
`SubmitEmpty`, `SubmitFailed`, `SubmitUnknown`, then `Credit`, `Free`, `Save`; the
miner is the one that the caller names, which the code compares with nothing.
`_settle_task` is `Shared` (its shares are added to the payments in the row),
`EarnRead` and `EarnWrite` for each payment, and `Settled` (its own save); it is
called for a passed batch and by `DistributeReward`.  The watchdog's pass is `ScanTasks` and `NextTask`,
with `ReleaseRead`/`ReleaseWrite` for each miner and `Requeue` or `GiveUp`; then
`ScanMiners`/`NextMiner`, and every tenth time `ScanDecay`/`NextDecay`.  Both
threads place tasks: `PickBlind`, `PickMany`, `PickNone`, `Place`, `BusyRead`,
`BusyWrite`, `Mark`.  Placing is all the lock is held for.  `Crash` keeps the
tables and drops the batches and the bans; `RpcRaises` and `WatchdogRaises` are
exceptions of the database, which end the call or the pass.

Abstractions: scores, trust and memory decide which eligible miner is taken, and
any may be.  A deadline is none, ahead or past.  A payment is counted in shares:
one is what one settlement gives to one miner, and never more than the price.

### SectorLedger and SectorExchange

`SectorLedger` is one sector coin: `balance` and `locked`, and the log reduced
to the mints with their heights and the sums of transfers and burns.  Each
method is one transaction under the ledger's lock and one action:
`MintBlockReward`, `Transfer`, `SyncTransferFromUtxo`, `ExchangeToMain`,
`LockForExchange`, `BurnForExchange`, `RollbackToHeight`.

`SectorExchange` EXTENDS it with the exchange engine: `exchanges` (the table),
`pending` (`pending_exchanges` with the number of witnesses), `late`, and `job`,
the call that holds the exchange's lock, which the ledger's other users do not
take.  `request_exchange` is `RequestExchange` (the lock on the coins) and
`Insert`; `AddWitness` leads to `Burn` and `Fail`; `Verifier` takes late
exchanges out; `Crash` forgets `pending`.  An exchange never ends well in this
code: the store has neither `mint_main` nor `transfer`, so the attempt to mint
or to compensate raises after the burn, and the exchange is written `FAILED`.

The verifier's loop has no handler around it (`dual_witness_exchange.py:573`), so
an SQLite error in it ends the thread for good.  That is not modelled: the
fairness of `Verifier`, and with it `PendingEnds`, assumes that the thread lives.

### MainTransfer

State: the table `transfers`; `call`, what each caller of `add_witness` is
doing, with its copy of the row; `expired`, the copies that the timeout check
has read; `engine`, what the witness engine thinks; `funds` of the sender in the
UTXO store.  `add_witness` is `AddWitness`, `Execute` (the UTXO store's
transfer, or `FAILED` when that is refused or raises) and `Save` (the whole
copy); `check_timeout` is `CheckTimeout` and `Expire`.  Neither write has a
handler: `SaveFails` and `ExpireFails` end the call, after the money has moved or
before.  The witness engine has a threshold of its own for large transfers
(`EngineNeed`), and expires those it holds, voted down or not.  `paid` and `said` are history variables.  Nothing in the node calls
`add_witness`, `check_timeout` or `process_pending`, so the module lets each be
called at any time.

### ContributionGovernance

State: `stakes`, `snaps` (weight snapshots by height), `props`, `votes`,
`bonds`, `inForce` (the parameter, with the proposal that set it) and the day
`now`.  One action per RPC method; the server runs one request at a time, so
nothing comes between the steps of a handler but a crash.  Where a handler
commits twice, its action has a disjunct for the whole and one for the part
before a crash (of the snapshot, which is written row by row, any part; of an
execution, also the status without the parameter, as an exception of the executor
is swallowed); `torn` is a ghost that remembers the proposals whose settlement was
cut.  `VotingWeight` and `SnapshotTotal` are as the queries are written: the
oldest row at the height that lists the voter, and the sum over *all* snapshots
ever taken at that height.

Abstractions: weight comes from stakes only, as nothing calls
`record_gpu_hours` or `record_main_paid`; weights are whole numbers, where the
code adds and subtracts floats, so `TallyIsVotes` and a total that is never below
zero are true of it up to rounding; one parameter; three kinds of proposal, of which a feature differs in numbers only.

## Runs

| run | properties | shows |
|---|---|---|
| `utxo_serial` | `TypeOK`, `ImplementsLedger` | without replay conflicts, and with blocks whose transfers some `create_transfer` made, the store implements a book of balances |
| `utxo_races` | `NoDoubleSpend`, `Traceable`, `Conservation` | with conflicts, and with blocks that say what they like, no output is spent twice, rows stay traceable, and what is made or lost is exactly what the conflicts strand and the blocks misstate |
| `node_peers` | `EventuallyAccounted` | the store of a node that follows peers and does not mine catches up with what they confirm |
| `node_all` | `TypeOK`, `InFlightAtFront`, `MempoolOrdered`, `NoncesFollowChain`, `CreditedOnChain`, `ForksAreRaces`, `DiskFollowsChain` | with a mining loop, both handlers, gossip, RPC transfers and a failed save the mempool, the nonces and the coinbases stay consistent, the chain forks only where another thread appended between a check and its append, and the disk lacks only what failed to be saved |
| `rewards` | `TypeOK`, `SupplyCapped`, `LossIsBounded`, `CommittedIsWhole`, `JournalCurrent` | through two crashes and a failed write no more is minted than the cap, a crash costs at most the blocks in hand, a committed entry stands for a paid block, and the boot loop never runs over unresolved entries |
| `market` | `TypeOK`, `FinishedIsPaid`, `PaidOnce`, `PromiseKept`, `PendingIsRetried` | payments and promises survive the stale copies, a retry by hand, a crash or an exception and silent miners; a failure costs one more payment at most; pending settlements are retried |
| `market_stuck` | `DeadOrdersFail` | violated: see [Findings](#findings) |
| `scheduler` | `TypeOK`, `CompletedPassedTraps`, `EarnedBySettlements` | through retries, failed traps, late answers, stale rows and a crash or an exception no task is completed without a batch whose traps were passed, and its *n* settlements add at most 1 + 2 + ... + *n* shares to the earnings of a miner |
| `scheduler_late` | `OverdueIsHandled` | a task past its deadline does not stay with its miners, though heartbeats, the decay of scores and a crash or an exception keep changing the rows |
| `exchange` | `TypeOK`, `LogExplains`, `LocksAccounted`, `BurnedAreWitnessed`, `PendingEnds` | coins are neither made nor lost on the ledger, an address loses no more than it asked to exchange, burns are witnessed, and no exchange waits for ever |
| `transfers` | `TransferTypeOK`, `PaidIsWitnessed`, `OncePerFailure`, `ConfirmedIsPaid` | money moves only for witnessed transfers, twice only after a crash or a failed write, and what says `CONFIRMED` was paid |
| `governance` | `TypeOK`, `TallyIsVotes`, `InForceIsApproved`, `BondFollowsStatus` | totals are the votes, what is in force was approved and its timelock over, bonds agree with the proposals but where a crash came between |

### Bounds, and why they are enough

- UTXO store: two addresses, two transfers, at most two inputs; heights 0 to 2
  and amounts up to 4, or with conflicts and false amounts 0 to 1 and up to 2, so
  that the inputs can be said to hold more than they do, less than that, and less
  than what is paid out.  A double spend needs two transfers; the partial commit of a
  conflict needs two inputs; a dependency that a rollback must cut in order
  needs one transfer on top of another.
- Mining node: one loop and one handler are the two threads of every race found;
  three or four hashes allow a block to be built on the tip, on a fork and on
  another block, so that two of them may race for one tip.  In `node_all` the
  own transfer meets a nonce that is text and one that no check looks at, blocks
  of one transaction make the mempool longer than a block, and one save fails.  In
  `node_peers`, which has no loop as its property is about the handler, two
  foreign transactions are for one coin and one has no nonce.
- Block rewards: three blocks, one for each thread at once; two crashes, the
  second during a recovery or in the life after it; one failed write.  The first
  halving and the supply cap fall within the three blocks, and the cap cuts the
  second minting or not, depending on what a crash has dropped.
- Market: one order and one miner meet all writers of an order's row (RPC call,
  timeout, retry, retry by hand) and one crash or exception at every step; two results tell a kept
  promise from a broken one.  `Rejoins` bounds register, online and offline
  calls; `Cap` bounds the counter of free GPUs, which a stuck order raises in
  every pass of the watchdog.
- Scheduler: one task, two miners, one retry, one failure to a ban, one miner
  that falls silent, one crash or exception, two answers, and three calls that may
  change the task: it can be given out, taken back, given to the other miner,
  answered by both, differently or not, and settled again.  In
  `scheduler_late` the task needs both miners at once, with two calls and one
  decay of the scores; it has no symmetry, since it checks liveness.
- Exchange: two exchanges and two addresses, so that an exchange can burn out of
  another's lock; two heights and a reward that halves, one transfer, direct
  burn or rollback, two witnesses, one crash.
- Transfers: two transfers that need two and three witnesses of three sectors,
  funds for both, one caller beside the timeout check, one crash or failed write.
  The transfer that needs three witnesses needs two to the witness engine.
- Governance: two proposals, one of them an emergency, two voters and a
  foundation address, each with a stake, of which one lapses during the vote;
  three days with periods of one day, two votes, two snapshots, a page of one
  row, so that the newer proposal hides the older one.

`Calls`, `Silences`, `Decays`, `Moves`, `MaxVotes`, `MaxSnapshots` and their
like bound what the environment does, never what a thread must do to finish.
The proofs remove all bounds for the properties they state.
`CHECK_DEADLOCK FALSE` is used where a bounded instance runs out of blocks,
transfers or calls; the program itself waits there for the next one.

### Fairness

Weak fairness of each thread, once it has something to do: `MinerStep \/ AddStep`
of a loop, the steps of a handler that has begun, the RPC thread's pending
call, the passes of the two watchdogs and of the exchange's verifier, and time
(`Tick` in the market, `Late` in the exchange).  These are operating system
threads and an event loop that are never suspended for ever, and none of their
steps waits for another thread except for a lock whose holder always lets it go.
Messages, calls, commands, crashes, exceptions and silence are never assumed to
come, and a settlement is never assumed to succeed.  `UTXOStore`, `BlockRewards`,
`MainTransfer` and `ContributionGovernance` state safety only and assume no
fairness.

## Findings

| run | what happens |
|---|---|
| `market_stuck` | `_timeout_order` lowers `miner.pouw_score`, which a `MinerNode` does not have; the exception skips the order's update in every pass, where the watchdog's comment promises that an order whose miners are all silent is failed and refunded.  Its GPUs are released again in each pass. |

### Seen in the models

Behaviours that the models have because the code has them, and that the
properties therefore allow.

Coins and blocks:

- A replay that meets a spent input returns `False` inside the exclusive
  transaction, whose context manager commits: inputs already marked are spent by
  a transaction nobody records (`ReplayConflict`; the term `Stranded` of
  `Conservation` counts the loss, and cannot be left out).
- `replay_transfer_from_block` marks the inputs that a block names without a look
  at whose they are, and computes the change from the amounts that the block
  states; the block check compares neither (`ReplayAnything`; the term
  `Misstated` of `Conservation` counts what is made or lost).
- `add_block` validates without the lock and appends under it
  (`consensus.py:2430`): a loop and a handler can append two blocks to one tip.
  That is the only way to a fork (`ForksAreRaces`).
- `_save_block` returns `False` when it fails (`consensus.py:889`), and
  `add_block` goes on: the block is missing after a restart (`DiskFollowsChain`
  counts it).
- A transaction without a nonce, or of type `coinbase`, enters the mempool whatever
  its sender has sent before, and a nonce that is text is not seen by the next
  check until it is on the chain (`consensus.py:1053`).
- The mempool is replaced by a slice of itself without the lock
  (`consensus.py:2075`): a transfer appended in between is lost after the caller
  was told it is confirmed.
- Packed transactions leave the mempool before their nonces count, and the
  miner never replays them into its store: a redelivered one is mined again.
- A transfer of the node's own wallet that gets into a block of this node is
  refused with it (`consensus.py:2402`), since its input was spent when it was
  made (`ValidTxs`).
- `stop_mining` is both "interrupt this block" and "end the loop": a loop that
  reads it while a peer's block is handled is gone, and lowering the flag starts
  no other; lowering it also undoes a stop command given meanwhile.
- The treasury's coinbase has the height and sector of the miner's, so the
  unique index ignores it: no block ever pays the treasury.
- After a crash between the two databases the journal's entry is pending;
  recovery takes it for one with nothing done, and the sector coins are never
  minted (`LossIsBounded` counts the loss).

Market and scheduler:

- `miner_online` restores all GPUs of a miner although orders still run on them.
  No RPC method registers a miner with `ComputeMarketV3` or brings it online, so
  the module models the class under the calls its interface offers.
- An order for which no miner is found stays `created` and is never matched
  again; a matched order that times out is failed, where a comment speaks of
  matching it anew.
- A task that is placed again has no deadline until a heartbeat gives it one; if
  its miner dies first, nobody takes it back (`compute_scheduler.py:783`).
- A task whose traps failed is `pending` and nobody places it again, although the
  comment above says that it is rescheduled (`compute_scheduler.py:1529`).
- `submit_result` revives tasks that have failed or are completed.  In blind mode
  it notes the answer all the same; if that equals the answer of a batch that
  passes later, its miner is paid as well, where the comment says that this is
  prevented (`compute_scheduler.py:1545`).
- `_settle_task` adds its shares to the payments that the row already has, and adds
  all of these to the earnings (`compute_scheduler.py:1744`): a second passed
  batch, and each call of `distribute_reward`, which has no caller here, pays the
  earlier shares again.  `EarnedBySettlements` bounds what this can amount to.
- The settlement callback of the market pays before the row is written: an
  exception in between, or a retry by hand during the watchdog's, pays the order
  again (`failures` and `overlapped` in `PaidOnce`).

Exchanges and transfers:

- Coins locked for an exchange can be spent by a transfer copied from the UTXO
  store (`sector_coin.py:759`): the balance falls below the locked part, and the
  burn is then refused, whose answer nobody looks at.
- A failed exchange stays in `pending_exchanges`; the next witness burns again,
  out of the lock of another exchange of the same user.  An exchange that times
  out never gives its lock back.
- `request_exchange` returns an id where the RPC method expects an object, so
  the caller is told of an error while the exchange goes on.
- A save that raises after the money has moved leaves a transfer `WITNESSING`, and
  the next witness executes it again (`main_transfer.py:372`).
- Two concurrent callers of `add_witness` lose a witness or execute a transfer
  twice (`OncePerFailure` holds for one caller); a stale timeout writes `FAILED`
  over a transfer that was paid.

Governance:

- The total a quorum is measured by is summed over all snapshots at the height
  that the client named (0 by default), so each later proposal there needs a
  multiple of the real quorum (`contribution_governance.py:719`); a voter's
  weight is read from the oldest of them, and a voter in none of them votes with
  the weight of the moment.
- `check_and_expire_proposals` sees one page, the newest proposals
  (`contribution_governance.py:1050`): an overdue one behind it never expires.
- Cancelling a queued proposal burns a bond that was returned already; a crash
  in a cancellation leaves the bond burned while the proposal goes on, and one
  in an expiry leaves it locked (`BondFollowsStatus` excepts `torn`).

## Proofs

Eight modules hold proofs that TLAPS checks.  Every safety invariant and action
property that a passing run checks is stated by a theorem there, for every value
of the constants that meets the assumptions named in the module it is about;
TLC evaluates those assumptions in a passing run.

| module | theorems | assumptions |
|---|---|---|
| `MainCoin_proofs`, store | `TypeCorrect`, `AlwaysTraceable`, `DoubleSpendsNever`, `MoneyConserved`; `StoreImplementsLedger` where no replay conflicts and blocks are honest | `ConstantsAssumption`: amounts are naturals, ids do not collide |
| `MainCoin_proofs`, transfers | `TransfersTypeCorrect`, `PaymentsWitnessed`, `ConfirmedPaid`; `ExecutedOncePerFailure` for one caller | `MainTransferAssumption` |
| `MiningNode_proofs` | `TypeCorrect`, `CreditsOnChain`, `AlwaysOrdered`, `NoncesConfirmed`, `OnlyRacesFork`, `DiskFollows`; `FrontKept` for `OneLoop` | `MiningNodeAssumption` |
| `BlockRewards_proofs` | `TypeCorrect`, `CapHolds`, `LossBounded`, `CommittedWhole`, `JournalResolved` | `BlockRewardsAssumption`: rewards, periods and shares are positive, the three addresses differ; `HalvingAssumption`: every height still has a reward |
| `ComputeMarket_proofs` | `TypeCorrect`, `PaymentBeforeFinish`, `OnePayment`, `PromiseStands` | `ComputeMarketAssumption` |
| `ComputeScheduler_proofs` | `TypeCorrect`, `CompletedPassed`, `EarnedNoMore` | `ComputeSchedulerAssumption` |
| `SectorExchange_proofs` | `TypeCorrect`, `LogExplainsBalances`, `LocksAreAccounted`, `BurnsWitnessed` | `SectorLedgerAssumption`; `SectorExchangeAssumption`: the exchanges are finitely many, and there is one |
| `ContributionGovernance_proofs` | `TypeCorrect`, `TalliesAreVotes`, `InForceApproved`, `BondsFollow` | `VotersAssumption` and `InitialStakesAssumption`: finitely many voters and first stakes; `KindAssumption`, `LocksAssumption`, `TimesAssumption`, `ThresholdsAssumption`, `BoundsAssumption` |
| `SumTheorems` | lemmas | none |

The finiteness asked for is that of what the node keeps a list of: exchanges,
sectors, voters and first stakes.  The sets of addresses, of transactions and of
tasks may be infinite.

**SumTheorems.**  Balances, supplies, tallies and locked amounts are all sums
over finite sets (`SumFunctionOnSet` of the module Functions).  The lemmas say
what such a sum does when an element is added or removed (`SumAdd`,
`SumRemove`), when one summand changes (`SumUpdate`), when the set is split
(`SumUnion`, `SumPart`), that it depends on the summands only (`SumSame`), and
when it is a natural (`SumNat`).  An induction over finite sets is written as an
argument about a least counterexample: were a claim false of some set, it would
be false of one with the fewest elements (`Least`), which the claim for that set
less one element refutes.

**UTXOStore.**  `NoDoubleSpend` is not inductive: from a state in which a row
does not know who spent it nothing follows about the next step.  The inductive
invariant is

    IInv == TypeOK /\ Traceable /\ InputsOlder /\ CoinbaseHeights

`Traceable` says that each input of a recorded transaction names that
transaction as its one spender, so two transactions cannot share it.  A rollback
keeps `Traceable` only if a row it deletes is no input of a transaction it
keeps, which is `InputsOlder`; it frees a row only by way of the transaction
that spent it, which needs the same part.  A coinbase keeps it because its id
determines its height (`CoinbaseHeights`).  A conflicting replay marks rows that
were unspent, hence inputs of nothing, with the name of a transaction that is
not on record.  `InputsOlder` rests on a contract of the callers
(`AtOrAfterInputs` in `Pay` and `Replay`): a transfer is recorded at a height no
lower than its inputs'.  The RPC service reads the height before the transfer
commits, so a rollback in between could break it.

`Conservation` is not proved as an invariant of its own.  `BooksInv` says of each
transaction on record that its rows say what its record says: what it paid, the
fee and the change add up to what it states of its inputs (`Stated`), and with
`HonestBlocks` these belonged to the sender and hold exactly that.  From that alone the equation follows in *every* state, by counting the rows twice, as
outputs of the transactions on record and as inputs of them: what is in the
first count and not in the second is unspent or stranded.  So no step has to be
examined for its effect on the sum, a rollback least of all.

`StoreImplementsLedger` uses the same count for one address: with nothing
stranded a balance is what the records say the address gained less what they say
it spent (`BalanceIs`).  Each database transaction then is a step of
`AccountLedger` on the records (`Entries`), and what it does to the balances
follows from the record that it adds or the records that it undoes.

**MainTransfer.**  `SaidInv`: no copy, wherever it is, names a sector that has
not spoken.  `CallInv`: who is about to execute holds a copy that enough sectors
confirmed, who is about to save `CONFIRMED` has paid.  `ExecutedOncePerFailure`
adds that with one caller a transfer still open has been paid no more often than
there were failures, but for the payment in the caller's hand.

**MiningNode.**  `Credits` says that a thread past its append, and every
credited height, has its block on the chain; the chain only grows, so this needs
no exclusion and holds for any number of loops.

`ForksAreRaces` needs none either.  What `add_block` checked may be stale when it
appends, but only by what other threads did: a block past its checks extends some
block of the chain, and since that one was the last its thread has appended
nothing (`Fits`, `Fitting`).  The appending step turns that into the property.  For
the handlers it needs that they exclude each other (`OneHandler`), as they are one
thread.  `DiskFollowsChain` adds that a block about to be saved is on the chain
(`InHand`), so that a row is replaced by another block of the chain at most.

The mempool keeps its order under any number of loops, as far as nonces are
checked and seen: a loop cuts it in two
steps, so `Queues` says the same of the tails that loops have copied, and a
refusal, an acceptance or a stale write of a tail keeps it.  That the block in
hand is the front of the mempool does need `OneLoop`: of two loops, the second
cuts transactions that are not its own.  The nonces follow the chain because the
step that appends a block raises each sender's nonce to the highest in it, and a
maximum over the chain and one block more is the greater of two maxima.

**BlockRewards.**  `Books`: at rest each pending journal entry has cost a failed
write, at work each but the one in hand has.  A crash may leave one more, which
the recovery resolves before the loop begins: `JournalCurrent`.

`RInv` ties the rewards to the blocks: a thread that is crediting has a block on
disk in hand, and the coinbase at a height is the one of its miner.  `LossIsBounded`
speaks of blocks that nobody has in hand; it is not inductive, since a block that
leaves a thread's hand joins the count and nothing says that it is whole.
`Lost` counts every block not whole of which no thread can say that it
has lost nothing of it so far (`Excused`): a block enters it by a failed write of
its thread or by a crash, which drops three at most, and a thread that finishes
without either has paid its block in full or met the cap.  `CommittedIsWhole`
counts in the same way, with the block whose commit the boot loop is about to
write already among the `Unsure`.

**ComputeMarket.**  Two layers.  `Types` gives each row and each copy its shape.
`Claims` says who may still have an order paid: a call that reveals a result and
the watchdog that tries a settlement again both hold a copy read earlier, and
what excludes a second payment is what the table says while such a copy exists.
If the RPC thread is about to settle, the order is not pending; if the watchdog
is, it is; so not both.  A retry by hand breaks that only for an order that the
watchdog has too (`Apart`), which is then among the `overlapped`; and a crash or
an exception leaves an order payable once more (`Unpaid`).  `FinishedIsPaid`,
`PaidOnce` and `PromiseKept` follow.

**ComputeScheduler.**  What holds of the table must hold of every copy that may
be written over it: `GoodRow` of the rows in the threads' hands (`Sound`) and in
the watchdog's queue.  A good row has no more payments for a miner than its task
had settlements, so the *n*-th settlement adds at most *n* shares, once: after it a
miner has at most 1 + ... + *n*, and at most 1 + ... + (*n* - 1) while it is still to
be paid (`Owes`, `Debts`).  A passed batch counts as a settlement because it was
never verified before: `BatchInv` keeps `batches` and `verified` apart and their
numbers below `made`.

**SectorExchange.**  `Due`: a call that is about to burn holds an exchange that
is on record and has its witnesses, and neither the verifier nor another user of
the ledger takes one away while it holds the lock.  `LedgerInv` is enough for
the ledger alone: each method changes one or two balances by what it logs, and
a burn is refused when the lock or the balance is short, so neither falls below
zero.  `LocksAccounted` also needs `Kept`: the row that decides what is burned
says what was locked for that exchange, and only an exchange on record is burned.

**ContributionGovernance.**  `RowInv`: a proposal that waits for its execution
passed when it was queued, and its timelock ends late enough; from there on no
action touches its totals.  The weights play no part in `InForceApproved` and
`BondsFollow`.  `TalliesAreVotes` is about nothing else: casting or changing a
vote changes one row, and `Books` adds that a proposal begins without votes and
that a row, once written, says what was counted.  That a changed vote leaves no
total below zero follows from the sums it came from.

### Only model-checked

- All liveness (`EventuallyAccounted`, `PendingIsRetried`, `OverdueIsHandled`,
  `PendingEnds`): the proof system cannot reason about `ENABLED`.
- The finding `DeadOrdersFail`, whose counterexample TLC shows.

## What is not modelled

- Fork choice (`consensus.py`, 2860 to 3180): nothing calls its entry,
  `handle_fork_detection`.
  `perform_reorg` would stop at once, as it calls `evaluate_fork` with the
  non-reentrant lock held (`consensus.py:2968`), and `handle_fork_detection`
  asks for ten blocks only (3125) although a fork may be a hundred deep.
- Content of proofs of work, difficulty, S-Box scores, votes and finality: they
  decide *whether* a block is valid, which `Validate` and `MineSucceeds` take as
  given or as a choice.
- Pruning of the in-memory chain (`_max_cache_size`), far above the bounds.
- `confirm_transaction` and `create_exchange_transaction` of the UTXO store:
  nothing running calls the first, and the second fails before it writes.
  `unlock_exchange` of the sector ledger: only the experimental consensus calls
  it.  `record_contribution` of governance: nobody calls it.
- Treasury, fee pools and the DAO (`dao_treasury.py`): `finalize_proposal` there
  has no caller, the rotation of signers raises an `AttributeError`, and
  snapshots and timelocks live in memory only.
- The other markets, disputes, acceptance and billing: service-layer objects in
  memory, each used by single calls on one thread.
- Sockets, framing, encryption, containers, devices, user interface, deployment.
- `unified_consensus.py`, `pouw_chain_v3.py`, `dual_layer_consensus.py`: their
  headers forbid production use.

## Plan

Modelled in this order, the most important behaviour first: `UTXOStore` and its
ledger, `MiningNode`, `ComputeMarket`, `BlockRewards`, then `ComputeScheduler`,
`SectorLedger` with `SectorExchange`, `MainTransfer`, `ContributionGovernance`.

What is left:

1. Proofs: which forms of exclusion would make `OncePerFailure` true of several
   callers of `add_witness`, and a chain without forks of a node that mines and has
   peers; both are false of the code as it is.
2. `ForkChoice` as steps over chain, table, mempool and UTXO store, once
   something calls it.
3. The message broker (`message_queue.py`): retries and dead letters.
4. Stake locks of `arbitration.py`, and the treasury once its proposals can be
   finalized.
