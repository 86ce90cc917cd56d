# A TLA+ development of the Zephyr bridge engine

The engine trades four Zephyr assets (ZEPH, ZSD, ZRS, ZYS and their wrapped EVM
forms) across Uniswap v4 pools, a centralised exchange (MEXC), the native Zephyr
chain and the bridge between the chains.  It watches the venues, looks for
opportunities, asks an operator or its own rules for leave, and executes a plan of
several venue calls that cannot be rolled back.  This directory models the program
in TLA+, checks small instances with TLC, and proves the main results with TLAPS
for every value of the constants.

Paths are relative to the repository's root (`src/` in PROJECT.json).

## 1. Inventory

| Component | State | Operations | Talks to |
|---|---|---|---|
| Engine loop (`apps/engine/src/engine.ts`, `cli.ts`) | `cooldownMs`, `lastExecutionByKey`, the circuit breaker, the plan and step being executed | `start`/`stop`, `runCycle`: load settings, build state, check freshness, load inventory, evaluate strategies, queue or execute, process the approved queue, sync the inventory | PostgreSQL; strategies; venues through the execution engine |
| Plan execution and risk (`engine.execution.ts`, `engine.helpers.ts`, `domain/risk/*`) | breaker: open flag, loss, run of failures | `executePlan`: breaker, limits, steps in order, record, history row | venues; `ExecutionHistory` |
| Approval queue (`engine.queue.ts`, `apps/web/app/api/engine/queue/route.ts`) | table `OperationQueue` | engine: insert, take, executing, completed, failed.  Dashboard: approve, reject, cancel, retry | two processes share the table and nothing else |
| Engine settings (`apps/web/app/api/engine/runner/route.ts`) | table `EngineSettings`, at most one row | read once per cycle, written at any time | engine, dashboard |
| Strategies (`domain/strategies/*`) | none | `evaluate`, `buildPlan`, `shouldAutoExecute` | engine loop |
| Execution engine and venue dispatch (`domain/execution/*`) | none of its own | `executeStep`: fourteen operations, mode `devnet`, `paper` or `live`, amounts handed from step to step | EVM, CEX, bridge, Zephyr |
| Bridge executor and API client (`services/bridge/*`) | claims and unwraps held by the bridge | wrap, unwrap, claim, wait for claims | bridge API, Zephyr wallet, EVM |
| EVM and LP executors (`services/evm/executor.ts`, `lpExecutor.ts`) | nonces and allowances on chain | swap, mint, burn, collect, approve, wait for receipts | Uniswap v4 |
| Pool seeder and setup (`services/evm/poolSeeder.ts`) | none; finds out from chain and bridge | wrap, claim, seed | bridge, EVM |
| EVM watcher and swap indexer (`services/evm/uniswapV4/*`) | tables `Pool`, `SwapEvent`, `Position`, `ScanCursor` | historical sync, subscription, periodic sync, one save per event | JSON-RPC, PostgreSQL |
| MEXC watcher, its relay and the page (`services/mexc/ws.ts`, `apps/watchers/src/mexc/*`, `apps/web/app/mexc`) | latest ticker, depth, trades in memory; rows of snapshots; what a page shows | websocket with reconnect, REST poll, periodic flush, HTTP and websocket server, the page's own connection and request | MEXC, engine, browser |
| Zephyr watcher (`apps/watchers/src/zephyr/*`) | latest reserve, table `ReserveSnapshot` | poll, flush | zephyrd, engine |
| CEX accounts (`services/mexc/paper.ts`, `live.ts`) | balances and events of the paper account | trade, deposit, withdraw, reset | MEXC, dashboard |
| Paper balances (`services/paperBalanceStore.ts`) | one file | load, upsert | engine, dashboard |
| Zephyr wallet (`services/zephyr/*`) | the wallet of the daemon | mint, redeem, transfer | zephyrd |
| State and runtime builders (`domain/state/*`, `domain/runtime/*`) | none | merge the watchers' data, read by read; say which operations are enabled | watchers, strategies |
| Inventory (`domain/inventory/*`, `api/inventory/actions`) | table `InventoryBalance` with two writers | snapshot of all wallets, conversion graph, sync at the end of a cycle, the dashboard's transfers | accounts, PostgreSQL |
| Planner, calibration, clip sizing (`domain/arbitrage/*`) | none, but samples are awaited from a chain that moves | size a clip, choose a close, prepare, settle | quoting, strategies, dashboard |
| Pathing and quoting (`domain/pathing/*`, `domain/quoting/*`) | none | quotes by input and by output; paths, their scores | planner, dashboard |
| Uniswap liquidity mathematics (`uniswapV4/liquidityMath.ts`, `persistence.math.ts`) | none | ticks and amounts of a band, depth of a pool | seeder, EVM watcher |
| Dashboard pages and read-only API (`apps/web`) | none | presentation, queries | PostgreSQL |

What is hard here, and which property answers for it, is the list `hazards` of
PROJECT.json.  In short:

- **Two processes, one table, no transactions.**  The engine reads the approved rows
  in one query and then updates each by id alone; between the two the dashboard may
  do anything, and so may a signal.
- **No exception is an outcome.**  `executePlan` reports a failed step by returning;
  only the database, a strategy or a bug throws.  Where an exception ends up
  (`start`, or the `catch` of one row) decides what becomes of the row, of the
  cooldown, and of the rest of the cycle.
- **Memory that a restart loses**: breaker, cooldowns, the place in a plan.
- **Two copies of one setting**: the row read in this cycle and the command line.
- **Plans that stop in the middle**, with amounts handed from one step to the next.
- **Data of different ages** from watchers that reconnect, back up and overlap.

What makes each component correct:

- *engine and queue*: an approval buys at most one run; withdrawn operations do not
  run; no row is left between two statuses unless something broke; approved rows are
  served; one plan runs at a time;
- *risk*: the breaker is open exactly when a threshold is reached, and no venue call
  is made behind an open breaker;
- *cooldown*: two runs of one opportunity are a cooldown apart;
- *dispatch, bridge, seeder*: a step is reported as it went; amounts handed on are
  amounts received; nothing is spent twice after a timeout or a restart;
- *strategies*: a plan uses what the reserve permits and its adjustments settle;
- *planner, clips, quotes*: what is planned can be paid for, the clip is the best of
  what was sampled, the two directions of a quote agree;
- *watchers*: one connection, books in their order, every swap of a tracked pool in
  the table, rows that say what was observed;
- *state*: what is accepted as fresh is fresh;
- *paper account, paper file, table of balances*: writes add up and are kept.

## 2. Modules

| Module | What it is | Code |
|---|---|---|
| `CircuitBreaker` | the breaker and the per-operation limits, as operators on a record | `domain/risk/*` |
| `BridgeEngine` | engine process, queue, settings, dashboard endpoints, clock, restarts | `engine*.ts`, `cli.ts`, `api/engine/queue`, `api/engine/runner`, `schema.prisma` |
| `OperationLifecycle` | abstract: what the approval workflow promises about an operation | the promise, no code of its own |
| `VenueExecution` | one plan at the venues: the loop, the dispatch, the executors, await by await | `engine.execution.ts`, `domain/execution/*`, `services/{evm,bridge,zephyr,cex,mexc}` |
| `PoolSeeder` | seeding: wrap, wait, claim, mint, by several processes at one address | `services/evm/poolSeeder.ts`, `waitForClaims`, `claimWithSignature`, `executeLpMint`, the setup command and route |
| `SwapIndexer` | the EVM watcher: syncs, subscription, saves, cursor, maintenance commands | `services/evm/uniswapV4/*`, `services/evm/poolMaintenance.ts` |
| `MexcFeed` | the MEXC watcher's socket, polls and snapshot | `services/mexc/ws.ts`, `apps/watchers/src/mexc/watcher.ts`, `snapshot.ts` |
| `SnapshotRows` | the rows written of that snapshot, and the shutdown's | `apps/watchers/src/mexc/snapshot.ts` |
| `MexcRelay` | the watcher's server and the page that connects to it | `apps/watchers/src/mexc/http.ts`, `wsServer.ts`, `apps/web/app/mexc` |
| `ReserveWatch` | the Zephyr watcher and its rows | `apps/watchers/src/zephyr/*` |
| `MarketState` | the building of a state, beside the watcher; the choice of a pool; freshness | `domain/state/*`, `engine.ts` |
| `MarketAnalysis` | reserve, rates, policy; the gap of a pool to its reference | `domain/zephyr/reserve.ts`, `domain/arbitrage/analysis.ts` |
| `Strategies` | the four strategies: findings, plans, automatic execution | `domain/strategies/*` |
| `StrategyRuns` | their plans carried out, and the strategies asked again | the same |
| `Quoting` | gates of the operations and their quotes | `domain/runtime/*`, `domain/quoting/*` |
| `Pathing` | conversion graph, paths, evaluation, ranking, preparation of a leg | `domain/inventory/graph.ts`, `domain/pathing/*`, `domain/arbitrage/routing.ts` |
| `ArbPlanner` | the plan from balances and clips | `domain/arbitrage/planner*.ts`, `services/arbitrage/balances.ts`, `domain/inventory/balances.ts` |
| `ClipScenario` | the clips of both closes, by the state and by the chain | `domain/arbitrage/clip.ts`, `calibration.clip.ts`, `quoting.onchain.swap.ts` |
| `ClipSizing` | the two searches for the size of a clip, sample by sample | `calibration.clip.ts`, `calibration.iterative.ts`, `calibration.twoVenue.ts` |
| `PaperExchange` | the account of the paper exchange | `services/mexc/paper.ts`, `api/paper/account` |
| `PaperBalances` | the file of paper balances | `services/paperBalanceStore.ts`, `api/balances/paper` |
| `InventoryTable` | the table of balances and its two writers | `domain/inventory/balances.ts`, `api/inventory/actions` |
| `LiquidityMath` | bands, amounts, liquidity, depth of a pool | `uniswapV4/liquidityMath.ts`, `poolSeeder.ts`, `persistence.math.ts`, `persistence.metrics.ts` |
| `Market` | the parts above that share nothing with the engine, one to a behaviour | |
| `MC*` | instances: `MCBridgeEngine`, `MCVenueExecution`, `MCSwapIndexer`, `MCPoolSeeder`, `MCMarket` | |
| `*Proofs` | proofs: `BridgeEngine`, `PoolSeeder`, `SwapIndexer`, `VenueExecution`, `MexcRelay`, `InventoryTable`, `Market` (with `MexcFeed`), `MarketQuestion` (what the market asks once) | |

`Quoting` and `Strategies` extend `MarketAnalysis`, `Pathing` extends both, `ArbPlanner`
that, and `ClipScenario` that.  `MCVenueExecution` composes `Strategies` with
`VenueExecution`: the plans that are executed are those the strategies build.
`StrategyRuns` composes them with balances and positions.  `RowsPermitWhat` compares the
rows of `ReserveWatch` with the policy of `MarketAnalysis`.  `BridgeEngine` takes plans
and their outcomes as inputs, so that its properties hold whatever the other modules say
of them.

### How BridgeEngine corresponds to the code

The engine is one sequential Node process that gives way only at an `await`.  `pc`
names the await it is at, so each database call and each venue call is one action,
and the code between two awaits belongs to the action before it:

| `pc` | the engine awaits | actions |
|---|---|---|
| `sleep` | the loop delay and the settings query | `LoadSettings` |
| `state` | `buildState`, `loadInventory` | `StateUsable`, `StateUnusable` |
| `evaluate` | `strategy.evaluate` | `Evaluate` |
| `opportunity` | `buildPlan`, the queue insert | `SkipCooling`, `Decline`, `QueueForApproval`, `QueueRefused`, `AutoExecute`, `LoopDone`, `LoopThrows` |
| `begin`, `step`, `history` | inside `executePlan`: the start, a venue call, the history insert | `Begin*`, `StepSucceeds`, `LastStepSucceeds`, `StepFails`, `WriteHistory*`, `History*Throws` |
| `fetch`, `dequeue` | the query for approved rows; the update to executing | `FetchApproved`, `MarkExecuting`, `FinishCycle`, `*Throws` |
| `completed`, `failed` | the update that closes a row | `MarkCompleted`, `MarkFailed`, `*Throws` |

`status`, `planOf`, `lastResult` and `settings` are the tables; `auto`, `manual` and
`cooldown` what the cycle read from them; `batch` the rows fetched and not yet taken
up; `exec` the call of `executePlan` in progress; `age` the time since
`lastExecutionByKey`.  `approvals`, `attempts`, `sinceAuto` and `faults` only record
what happened.  Market data, what the strategies find and build, the exposure of an
asset and the outcome of a venue call are inputs, chosen freely.  A plan is a record:
its cooldown key, its priority, whether that priority is a whole number, its expected
PnL, the number of its steps, and whether its strategy would run it unasked.

The dashboard's actions are each one `updateMany` over a set of ids, guarded by the
status they name.  `Restart` is SIGINT, SIGTERM or a crash at any await: the memory
starts again from the constructor, the tables stay.

Simplified: the four strategies' opportunities are handled in any order (the code
goes strategy by strategy); a strategy's exception costs a fault like any other;
`queued` stays as it was when a cycle is abandoned (nothing reads it).

### How SwapIndexer corresponds to the code

The watcher is a Node process too, but with several call chains in progress at once.
A *task* is one of them: the historical sync (`Watcher`), a periodic sync (`Syncs`,
started by `setInterval` whether or not the last one has ended), the handler of one
websocket notification (a log's own index), or a maintenance command, which runs the
historical sync in a process of its own (`Maintenance`).  `task[t].pc` is the await
it is at:

| `pc` | the task awaits | actions |
|---|---|---|
| `cursor`, `height` | the cursor query, `getBlockNumber` | `ReadCursor`; `NothingNew`, `ReadHeight` |
| `discover` | the next Initialize log to save | `SaveInitialize`, `EndDiscovery` |
| `pools` | the query for known pools | `ReadPools` |
| `scan` | the next log in the order of batch, chunk of pools, kind | `SaveSwap`, `SwapNotInserted`, `SaveModify`, `PositionNotFound`, `SaveDonate`, `SwapOrModifyOfUnknownPool`, `EndScan` |
| `upsert`, `setCursor`, `reread`, `recompute`, `meta` | the calls of one save | `UpsertPosition`, `SetCursor`, `Reread`, `Recompute`, `WriteMeta`, `MetaNotWritten` |

`pool`, `stored`, `position` and `cursor` are the tables `Pool`, `SwapEvent`,
`Position` and `ScanCursor`.  A price is the index of the log it was taken from,
depth and value of a pool the index of the last liquidity change they include, which
is all that the properties tell apart.  `overlapped` and `disturbed` only record
that tasks have been in progress at once, and that one was cut short.

Simplified: one position per pool; blocks are final once mined, as in the code,
which treats no reorganisation; the `bothTracked` mode, the default; a request that
is retried with success is one request; liquidity changes without a token id in
their salt, which return early and leave no trace, are not logs of the model; the
metadata a save begins with is not kept, since it is overwritten with price and
metrics of the same save, or read again (`Reread`); a maintenance pass subscribes
for the moment between start and stop, which is left out.

### How PoolSeeder corresponds to the code

`run[s].pc` is the part of `seedAll` that seeder `s` is in: `account` and `wrap` are
`wrapAssets`, `poll` is `waitForClaims`, `claim` the loop of `claimWrappedTokens`,
`seed` that of `seedPools`.  Each transfer, claim and mint is an action, with a second
one for the call that fails or whose answer is lost after it took effect, and a third
for the transaction that the chain reverts.  `stage` is what the bridge and the token
contract know of a deposit, `funds` the tokens of the address that all processes
share.  The bridge confirms deposits when it likes and lets claims expire; the engine
wraps and spends.  `alone` only records which calls had bridge and address to
themselves and met no trouble.

Simplified: amounts are counted in seedings (a deposit pays for one seeding of the
pools that need it); the bands of a pool are one mint; loops run in some fixed order.

### How VenueExecution corresponds to the code

`Script(op)` is what the executor of an operation awaits, in order: `ask` (an address, an
allowance, a prepared unwrap), `approve`, `send` (a transaction's hash), `receipt`, `call`
(an RPC of the wallet or an order at the exchange).  `at` is the place in the script of
the step the loop is at.  `Answer`, `Send`, `Receipt`, `Call` are returns, `Throw`,
`CallRefused` refusals, `SendUnanswered`, `CallUnanswered` and `ReceiptTimesOut` answers
that never come although the effect may.  `Finish` is the rest of the loop's body: the
result is pushed, the next step's input overwritten by `amountOut` where there is one,
the loop left at a failure.  `move` is what a step set going, `Mine`, `Revert` and
`Arrive` what chains, bridge and exchange do with it at any later time.  `Simulate` is
paper mode, `SkipStep` the dry run, `Refuse` what `dispatchToVenue` refuses.

Simplified: delays; gas; encodings; amounts are whole units of about one thousandth
of a clip, and the price of the exchange one number.  A conversion of the wallet is asked
for in multiples of `Precision`, because the wallet's `doConversion` cuts the amount to
four decimals before the call: the rest is not spent.

### The watchers, their rows and the page

`MexcFeed`: `sock` are the connections in the order they were made, each with the frames
that were sent on it and are not handled; a poll is idle, asked, or answered with the book
of a time.  `Receive` is the whole handler of a frame, down to the change of the snapshot.
`SnapshotRows` and `ReserveWatch` have the guards of the flush timer (`pending`,
`lastFlush`) beside the inserts under way, so that a flush and a shutdown overlap; in
`ReserveWatch` an insert may outlive its process.  `MexcRelay` has the server's record of
clients, the frames on their way, the page's request and its timer; one behaviour is about
one of the three topics, whose connections the page keeps independently.

Simplified: pings, for which there is no answer to wait; payloads, which are the time
of a book, the height of a reserve, the number of an event.

### The state, the strategies, plans, clips and quotes

`MarketState`: each read of `buildGlobalState` is an action (`build.stage`), and between two
of them swaps happen, the watcher saves them or syncs, and health changes; a price is the
time of its swap.  `isStateFresh` and `shouldReplacePool` are operators with the code's
treatment of what is missing.

`Strategies`, `Quoting`, `Pathing`, `ArbPlanner` and `ClipScenario` are pure operators.
Prices are whole cents, rates hundredths, fees basis points; an asset has few atomic
units, in the proportion of its decimals, so that rounding and the shift between 12 and 18
decimals are still there.  Amounts are floored or rounded where the code does.  Missing
values are `None`, which follows the code's own comparisons with `null`.  `StrategyRuns`
is the loop over them: `Rebalance` and `AdjustRange` carry out a plan exactly and ask
again.

`ClipSizing` is a search as a process: `stage` says what the next sample is for, and a
sample has any gap of `Gaps` and any closing price of `ClosePrices`, is unknown, or fails,
because the quote is awaited from a chain that moves; so no curve is assumed.  The two
searches measure differently.  A native one stops at a gap that is small; one against the
exchange at a gap that is a small part of the sample's *own* closing price
(`priceDiffBps`), although it ranks samples by the gap itself (`pickBetter`).  And a clip
against the exchange need not be of one sample: in the stage `legs` its amount is that of
the chosen sample (`result`), while the close leg sells what the *last* one brought
(`closing`, which is `latest` where that has an output).  `ClipScenario` takes the amounts
a search ends at as inputs, and computes the clips from them.

### Accounts and tables

`PaperExchange`: an order waits for its price and all else goes on; USDT in thousandths.
The route asks for no sign but of an order's quantity, so deposits, withdrawals and the
balances of a reset may be negative.  `PaperBalances`: the read, the truncation and the
write of the file are actions of their own, of requests that overlap or die; `doubted` are
the tokens whose last edit met another write, or whose balance a request found gone.
`InventoryTable`: the engine's loop of upserts (`left`) beside requests of the dashboard
that overlap (`Posts`), each with its check and, any time later, its transaction.  A row's
key is a name and a venue, and the names of the two writers differ as they do in the code
(`EngineKey`, `SymbolKey`).

`LiquidityMath`: the roots of the price at the ticks are a table (`RootAt`), 16 stands for
2^96, every root is whole and the integer formulas keep their rounding; a band is what the
root is divided and multiplied by.  In the run the roots double from tick to tick; the
proof holds of any that rise.

## 3. Runs

| Run | Instance | Shows |
|---|---|---|
| `lifecycle` | two rows, three plans, two taken per cycle, one fault, fairness | `TypeOK`, `OneAttemptPerApproval`, `NoOrphanWithoutFault`, `FailedOnlyByFault`, `CancelOverriddenOnlyInBatch`, `ImplementsLifecycle`, `ApprovedIsServed` |
| `auto` | runs from the loop and one row, cooldowns 1 and 2, two faults | `BreakerOpenExactlyWhenTripped`, `NoStepBehindOpenBreaker`, `AutoRunsAreSpaced` |
| `completed` | no fault | violated: *completed* does not mean executed |
| `override` | no `--auto` | violated: the table does not override the command line |
| `cooldown` | one row | violated: the queue does not honour the cooldown |
| `starved` | a fractional priority, fairness | violated: the approved queue is never reached |
| `indexer` | two pools, three blocks, with and without websocket, two tasks at a time (symmetric syncs), one event out of the ordinary | `TypeOK`, `PollingLosesNothing`, `PriceIsOfLastSwap`, `MetricsAreOfPositions` |
| `polling` | the same without websocket and without such events, fairness | `SwapsAreStored` |
| `scanned` | the same with websocket | violated: the cursor's block is not the last one scanned |
| `seeder` | two assets, two pools, two processes (symmetric), two calls, one trouble | `TypeOK`, `OwnWrapsAreClaimed`, `FailsOnlyByTrouble` |
| `venue` | every plan of the strategies in two markets, live, on paper and dry, two troubles, fairness | `TypeOK`, `OnlyLostAnswersSpendSilently`, `SuccessMeansDone`, `RoundTripsPayForThemselves`, `RebalancingMovesItsAmount`, `EveryPlanEnds` |
| `market` | the other modules, one part to a behaviour (see below) | sixteen properties, one or two to a part |

`Market` chooses a `part` in the initial state and leaves the variables of the others
alone: the parts are independent, and one run costs what they cost together.

| Part | Module | Property | What it says |
|---|---|---|---|
| all | | `MarketTypeOK` | the type invariant of the part |
| `feed`, `relay` | `MexcFeed`, `MexcRelay` | `OneConnection` | the watcher, and a page, have one connection or one timer that will make it |
| `feed`, `relay` | | `BooksKeepTheirOrder` | only an answer over HTTP, unordered with the frames, sets what is shown back |
| `feed` | | `ConnectionIsReplaced` | a lost connection is replaced by an open one |
| `rows`, `reserve` | `SnapshotRows`, `ReserveWatch` | `RowsTellTheirSource` | a shutdown's last snapshot is written; rows of the reserve follow the chain and permit what the policy permits |
| `state` | `MarketState` | `FreshStateIsVouchedFor` | a price from the tables that is accepted is that of the last swap the last sync could see, and the exchange's comes with its time |
| `pools` | `MarketState` | `ChosenPoolIsPriced` | of a pair's pools one with both prices is chosen if there is one |
| `strategies` | `StrategyRuns` | `PlansUsePermittedConversions` | no plan mints or redeems what the reserve forbids |
| `strategies` | | `AdjustmentsSettle` | a rebalancing brings the balances nearer their targets, a new range does not call for another |
| `clip` | `ClipSizing` | `ClipIsNearestSample` | the clip is the nearest sample that is safe (close on the chain), or one within the tolerance of its own price, or the nearest where none is (on the exchange); its legs are of two samples only where none is within the tolerance |
| `quote` | `Quoting` | `ExactOutIsEnough` | the input quoted for an output brings that output |
| `path` | `Pathing` | `NoPathMakesValue` | no path gains anything where prices agree |
| `plan` | `ArbPlanner`, `ClipScenario` | `UnlimitedPlansAreFunded` | a plan the inventory does not limit is funded by what may be spent |
| `liquidity` | `LiquidityMath` | `LiquidityAddsUp` | a band costs no more than its budget; a walk through ticks adds up to what the positions hold |
| `account` | `PaperExchange` | `AccountAddsUp` | balances are the opening and the events; no trade and no withdrawal takes more than there is |
| `file`, `table` | `PaperBalances`, `InventoryTable` | `WritesAreKept` | an edit that met no other write is kept; what a cycle wrote stands, because no action of the dashboard finds a row |

**Bounds.**  `Ops`: two rows are enough for a batch with a row still waiting behind the
one that runs, for priorities to matter, and for an `updateMany` over several rows.
`MaxFaults` counts exceptions and restarts: one in `lifecycle`, so that a row can fail and
be retried, two in `auto`, so that a restart can follow an exception.  Retries need
failures, so approvals and attempts are bounded by the faults.  `AgeCap` is the longest
cooldown of the instance: beyond it ages make no difference.  `MaxOps` is one where rows
must wait for each other and two where a batch matters.  The plans are chosen at the
thresholds: a loss of exactly the daily limit, two failures in a row at a limit of two, a
size of 90 under a limit of 80, a plan without steps.

The chain of the indexer's runs has a pool that is only donated to, so that with one
pool to a chunk the cursor runs ahead of the other pool's logs and back again, and a
batch of two blocks, so that it does so across blocks.  The other pool has a swap, a
liquidity change and a second swap, the least that can show a stale price and stale
metrics.  The watcher may be started before, between or after the blocks.
`MaxTasks` bounds the tasks in progress when another starts; a block with several
logs starts several handlers at once all the same.  `MaxEvents` counts exceptions,
restarts, lost messages, resets and maintenance commands.

In `seeder`, two assets are the least for which a count of claims can be wrong by one,
and two pools that share an asset the least in which one mint can take what the other
needs.  Two calls suffice for one to leave deposits to the other, by a timeout or a
death, or to race it for the same claims.  `MaxTroubles` counts calls that fail,
processes that die and claims that expire.  Deadlock is not checked: when all calls
have ended and the bridge has nothing to confirm, the system rests.

In `venue`, plans have at most four steps; with a `Precision` of three, some amounts are
cut and some are not.  A trouble fails its step and so ends its plan:
one is all that happens, though two are allowed.  Slips of one unit below, at and above an
estimate are the least that distinguish what was estimated from what was given.  The two
markets make every leg take each of its closes, and the inventory is poor in one coin, so
that a wallet may be empty.  Deadlock is not checked there: a plan that has ended stays
so.

In `market`: three sockets and two losses let a connection be lost, and the one that
replaces it; one frame under way beside a poll is enough for them to be out of order,
within a clock of two ticks.  The rows have three flush intervals (`RowsMaxTime` 6,
`FlushEvery` 2), enough for a flush, one that overlaps it, and the shutdown's; the reserve
has two heights on either side of the thresholds, two polls at a time and one failure or
restart.  One mount, two frames under way, three events and one hitch are enough for a
page to show, lose, ask again and be late; further mounts are what the proof is for.  The
search for a clip starts at 16 with a least amount of 2, so that it can halve three times
before it meets its floor, and has six evaluations and three expansions where the code has
64 and 32: every stage can run out.  `Gaps` has both signs, and gaps within the tolerance
of one of the two `ClosePrices` and not of the other, so that a sample that ends the
search may lie farther off than one that did not.  The state is built within two ticks,
the ages allowed being one and none.  Two orders or requests at a time are the least that
overlap, three events or edits the least after which an earlier one can be lost to a later
one, or an edit puts right what two others lost.  `Amounts` has one of either sign, and
`Openings` an account with a debt; the two `Transfers` would take of the same row, which
two `Posts` may do at once.  The cases of the questions (`QuoteCases`, `PathCases`,
`PlanCases`, `PoolCases`, `BandCases`, `DepthCases`) are defined in `MCMarket`: every hop
that has a context, every pair of assets, every failure of a wallet, every pair of pool
rows over known and missing values, positions over five ticks.
Deadlock is not checked: a question has no step, and the other parts end at their bounds.

**Fairness.**  `WF_vars(Engine)`: the engine's sleeps end and its awaits return or
throw (every venue and database call has a timeout of its own library).
`SF_vars(StateUsable)`: again and again a cycle finds fresh data and an inventory;
without this an approved row rightly waits for ever.  No fairness is assumed of the
operator.  Faults are bounded, which says that the database does not fail for ever.
The `lifecycle` run assumes priorities that are whole numbers; `starved` shows what
happens without that assumption.  That rows are finite leaves out a row of low
priority that more urgent ones keep out of every batch, which the code allows.

In `polling`, `WF_vars(Begin(t) \/ Step(t))` for the historical and the periodic syncs:
someone keeps the watcher running, its timer fires, and requests return.  Nothing
makes the chain move.

In `venue`, `WF_vars(Progress)` and `WF_vars(Venues)`: the engine goes on (every await has
an answer, a refusal or a timeout) and transactions are mined or revert in the end.  In
`market`, weak fairness of `Websocket`: sockets open or close, frames are handled, the
timer fires, and the exchange accepts a connection in the end, losses being bounded.  No
frame has to come.

`PollingLosesNothing` is about polling alone because `scanned` shows that it fails
with a websocket, and about tasks that are not cut short because a crash between
discovery and backfill has the same effect.  `PriceIsOfLastSwap` and
`MetricsAreOfPositions` say nothing once tasks have overlapped: `saveSwap` reads the
positions and writes the metadata in two calls, so that two saves can undo each other
until the pool's next event.

`OwnWrapsAreClaimed` and `FailsOnlyByTrouble` speak of calls that were alone, because
`waitForClaims` counts the claims of an address whosever they are: beside another
seeding, the engine's wraps or the leftovers of a call that timed out, a call may
begin to mint with its own deposits still unconfirmed, or fail on a claim that
somebody else has taken.  What is left over then can be claimed only by wrapping
again, since `--skip-wrap` skips the claims as well.

The properties of `market` and `venue` have exceptions of the same kind, each named in the
property because the code shows it: `RowsFollowTheChain` is silent once two polls have
overlapped; `LoneEditsAreKept` of a token whose edit was written beside another write, or
whose balance a request found gone in an emptied file (as is every balance, after a crash
in between), until the next edit of it that meets no other; `ClipIsNearestSample` lets the
legs of a clip be of two samples where no sample was near enough; `AccountAddsUp` lets a
balance be negative that was opened so, or by a deposit of less than nothing;
`SuccessMeansDone` about deposits, which only notify, and about the exchange of the
development network, which trades nothing; `RoundTripsPayForThemselves` supposes that no
conversion gave less than its estimate, since the engine does not correct the amounts of
later steps by what a conversion gave; `AdjustmentsSettle` leaves out the crisis mode, in
which ranges do not settle; `FreshStateIsVouchedFor` says nothing of a watcher in its
first sync or one that cannot be asked, both of which pass for fresh.

**Disagreements between code and documents** (`findings`):

1. `completed` -- a row whose plan failed, or was blocked by the risk checks, becomes
   *completed*: `executePlan` returns `null` instead of throwing.
2. `override` -- `shouldAutoExecute` is given the command-line configuration, so that
   `manualApproval: false` in the table executes nothing unless `--auto` was given.
3. `cooldown` -- approved rows neither test nor start the cooldown.
4. `starved` -- `calculatePriority` adds a fractional PnL to an integer column.  The
   insert throws, the cycle ends before the approved queue, and the same opportunity
   is found in the next cycle.
5. `scanned` -- a swap handled before its pool's row is written, or mined between the
   historical sync and the subscription, is dropped, and the next event moves
   `ScanCursor` past it.

## 4. Proofs

Assumptions: the named assumptions of each module, which give the types of its constants
(`RiskAssumption` and `EngineAssumption`: positive `MaxOps` and thresholds;
`SeederAssumption`; `IndexerAssumption`: pools are finitely many and the names of the
tasks differ; `VenueAssumption`; `FeedAssumption`; `MarketAssumption`, which joins those
of the market's parts: connections and mounts are numbered from one, the tolerances and
bounds of a search are natural numbers and closing prices positive, deposits, withdrawals,
resets and edits are whole numbers of any sign, orders are positive, and so is what a
request of the dashboard would move, rows of pools are rows, holdings natural numbers, the
ticks of a position in their order, a watcher's clock begins at a flush and can poll at
least once, and the chain starts at height 0; in a question about a quote, a path or a
plan a market has one pool to a pair and a fee below the whole, balances are natural
numbers, and a wanted output is one the operation can be quoted for, of a pool that holds
it and whose reserves agree with its price: `IsMarket`, `IsWorld`, `IsQuoteCase`,
`IsPlanCase`; in a question about a path the prices agree, which is what the property is
about: no pool gives more than it is given at the prices the evaluator uses, minting is at
the dearer price and redeeming at the cheaper, no bid is above the price and no ask below
it, and a level of a book has a price of its own: `IsPathCase`, `PricesAgree`; the roots
of the ticks rise, a band is no narrower than a tick and ends at ticks, a position's
lower tick is below its upper, and depth is sampled upwards: `GridAssumption`,
`IsBandCase`, `IsDepthCase`).
Nothing bounds rows, plans, faults, the chain, the tasks, reconnections, samples, events,
balances, amounts or prices. One more assumption is about data: `PlansAssumption` says
that the plans are chained as `buildExecutionSteps` and `buildRebalanceSteps` chain them
(each step draws on what the one before it was estimated to bring, the bridge keeping the
fee it quoted; the pieces of a rebalancing have one amount); every plan the strategies
build satisfies it, which TLC evaluates with the run `venue`.

**Engine.**  `BridgeEngineProofs` proves `Spec => []Inv` (theorem `Invariance`), where
`Inv` is

- `TypeOK`;
- `ExecFollowsPc`: `exec` is idle except inside `executePlan`, and its row, plan, step
  and verdict are those its `pc` allows;
- `RowsArePlanned`: a row that exists has a plan;
- `BatchWasApproved`: the rows of the batch are distinct, none is the row that runs,
  and each is `approved`, or `cancelled` since;
- `ApprovalsCover`: `attempts <= approvals`, strictly for a row that is approved, in
  the batch, or taken up and not yet past the risk checks -- the bare inequality is
  not inductive, because nothing in it says that a row about to run has an unspent
  approval;
- `BreakerIsFaithful`, `VerdictsAreEarned`: open exactly when tripped; steps are under
  way only behind a closed breaker; a failed row or an orphan means a fault;
- `ClocksAgree`: while there are no faults, the engine's `age` and the true time since
  the last run are the same.

From it follow, for all constants: `TypeCorrect`, `ApprovalsAreSpentOnce`,
`OrphansComeFromFaults`, `FailuresComeFromFaults`, `BreakerMatchesThresholds`,
`OpenBreakerStopsSteps`, and the action properties `CancelIsFinalOutsideBatch` and
`CooldownSpacesAutoRuns`.

The same module proves `Refinement`: `Spec => ImplementsLifecycle`.  The mapping gives a
row that is being executed the phase *running*, a row in the batch the phase *permitted*
even if the dashboard has cancelled it meanwhile (the engine will run it, and if it gives
the batch up the withdrawal takes effect then: `Abort(W)`), and a row in `executing` that
nobody executes the phase *lost*.  The invariant is what makes the running row unique and
the taken row permitted.

**Indexer.**  `SwapIndexerProofs` proves `NoSwapIsLost`: `Spec => []PollingLosesNothing`.
That the swaps up to the cursor are stored is far from inductive: the cursor moves back
and forth, and syncs overlap.  The invariant `IInv` says of undisturbed polling (`Order`)
that a historical sync is alone (`Lone`), that what each task has in hand lies in the
blocks it reads (`InRange`) and is of a known pool (`Marked`), that while pools are
discovered the cursor is behind the blocks they are discovered in (`Discovers`, `Behind`),
and `Covers`: a swap of a known pool behind the cursor, or behind the place where some
task is, is stored, or still in the hands of a task, or in the range of one that has not
finished its discovery.  A task moves the cursor only to the block of a log it has saved,
all logs of earlier blocks being stored or in hand.

A second invariant, of tasks that have not met (theorem `OneTaskPutsRight`), gives
`ShownPriceIsOfLastSwap` and `ShownMetricsAreOfPositions`: one task at most is at work,
so a pool row that is behind its last swap, or has metrics of other positions than those
stored, is one that task still has in hand, with a price it has read from the log itself.

**Seeder.**  `PoolSeederProofs` proves `OwnWrapsAreClaimed` and `FailsOnlyByTrouble`.
`waitForClaims` only counts; the count suffices because every outstanding deposit is the
call's own while it is alone (`Solitary`), one to an asset (`Progress`, which also
accounts for the tokens it still has for the pools it still has to seed), and calls are
numbered (`Numbered`).

**Venues.**  `VenueExecutionProofs` proves `OnlyLostAnswersSpendSilently` and
`SuccessMeansDone`, by where in its script a step is: nothing is under way before it has
been dispatched (`Unbegun`), and before it waits for a receipt (`AtStep`); the loop ends
at a failure (`FailureIsLast`).  Two theorems more are about money.  `LedgerInv` accounts
for every asset: its balance is the opening, less what the dispatched steps spent, plus
what those that have settled brought (`Accounted`), each step's part in it being fixed
when it is dispatched (`Followed`).  At the end of a plan that succeeded and settled the
sum telescopes, because the plan is chained: `RebalancingMoves` (what left the first place
arrived at the last, less the bridge's fee) and `RoundTripsPayBack` (a round trip without
a conversion below its estimate has drawn on no asset but the one it started with).
`RebalancingMovesItsAmount` is stated asset by asset.

**Market.**  Its parts are independent, so `MarketProofs` first shows that a behaviour of
the market is a behaviour of each part, or leaves it alone (`PartsBegin`, `PartsStep`);
an invariant of a part is then one of the market.  What is asked once of a state of the
world is in `MarketQuestionProofs`, but for the liquidity, at the end of `MarketProofs`.

- *Feed and page* (with `MexcRelayProofs`): connections are made in their
  order and only the last is alive (`Latest`), which gives `OneSocket`; its frames wait
  in the order in which they were sent, and none is older than a frame that is shown
  (`Sorted`), which gives `FramesKeepTheirOrder`.  A mount to come has neither connection
  nor timer, which makes the page's `OneConnection` inductive; and of its frames, the one
  on the screen and those under way, each begins with a later event (`Follows`), which
  gives `PageKeepsItsOrder`.  Theorems `ConnectionsAreSingle`, `BooksKeepOrder`.
- *Rows* (`RowsTell`): while a shutdown is under way its row is in the table, in the
  insert it sent, or lost with an insert that failed (`RowsInv`); and a row of the reserve
  is never ahead of a request, nor of the reserve that is kept, as long as no two polls
  met (`ReserveInv`).
- *Tables* (`WritesStand`): of a token that is not in doubt, the file has what was entered
  last, and so has what a request that is to write has read; one that repairs the file has
  put every token in doubt (`FileInv`, `Sound`).  Of a cycle's
  assets each has its row, or is still to come, or failed (`Written`); and no row has a
  name of the dashboard's, so whatever a request has read is nothing, and less than it
  asks for (`Unnamed`, in `InventoryTableProofs`).
- *State* (`FreshIsVouchedFor`): the row has every swap up to the cursor, and the cursor
  every swap up to the height the watcher vouches for; a sync under way started no earlier
  than the one before it ended (`VouchInv`).
- *Account* (`EventsExplainBalances`): the balances are the value of a recursive function
  of the events; what is inductive is that *some* account of the events, line by line,
  ends at them, and has no negative line where something was taken (`AccountInv`).  Such
  an account is unique, so it is the one the property names.
- *Clip* (`ClipIsNearest`): as long as the search goes on, the best sample is the nearest
  of those seen, none is within the tolerance, the bracket has the reference between its
  ends, and the last try with the least amount is made only when no sample was safe
  (`ClipInv`).  When the legs of a clip against the exchange are to be built, its sample is
  the last one and within the tolerance, or the best of samples that are not (`Chosen`).
- *Pools* (`ChosenIsPriced`): the choice among a pair's rows goes through them in order;
  once it has a priced pool it never exchanges it for one without a price (`Chooses`).
- *Strategies* (`ConversionsArePermitted`): of every state, whatever led to it.  The close
  that `CloseOf` takes is native only where the policy allowed it, an arbitrage without
  another close was found only then, and the other strategies convert nothing.
- *Adjustments* (`AdjustmentsComeToRest`): the shares of a coin's places add up to the
  whole, so their deviations cancel (`DeviationsCancel`); the place that is most over its
  target gives at most what it is over to the one that is most under it
  (`MovesFromOverToUnder`), so the sum of the distances sinks (`RebalanceSettles`). The
  middle of a recommended range lies less than a drift below the middle of the old one, in
  every mode but the crisis (`RecommendedSettles`, `AdjustRangeSettles`).
- *Quotes* (`QuotedInputsSuffice`): what is rounded up for a wanted output is enough for
  it when the same quote rounds down (`RoundedUpIsEnough`, `RoundedDownFits`), through the
  bridge's flat fee, the two roundings of a conversion, and a pool's fee on top of its
  reserves (`ReservesGive`) or its price (`PriceGives`, rounded to the nearest); so the
  first input tried is the one that is answered (`LeastIsFirst`).
- *Plans* (`UnlimitedPlansPay`): the amount of a plan is a number, whichever clip,
  candidate or estimate it is of (`PlansSpendNumbers`: the best of the clips is one of
  them); without a limit every listed step, so every hop, is covered
  (`UnlimitedIsCovered`); and what is known of a balance never exceeds what may be spent
  of it, whichever reads failed and whatever is on paper (`KnownMayBeSpent`).
- *Paths* (`PathsMakeNoValue`): at the prices of the assets a hop gives no more than it is
  given, but for half a unit of what it gives, which rounding to the nearest may add
  (`Fair`, `StepIsFair`).  Operation by operation: the bridge, the exchange's transfers
  and the reserve's conversions (`BridgeIsFair`, `DepositIsFair`, `WithdrawalIsFair`,
  `ConversionIsFair`), a pool by its reserves or its price (`SwapIsFair`), and a walk
  through a book, of which only the last level is filled in part and rounds
  (`LevelsFill`, `TradeIsFair`).  What the search finds leads to no asset twice
  (`PathsAreWalks`), so the halves add up to half a unit of each asset at most, hop by hop
  (`HopsLeaveNothing`), and a gain within them is no gain (`WalkMakesNoValue`).
- *Liquidity* (`LiquidityFits`): sums over positions and over ticks are unfolded by any
  element first (`SumOver`, `SumsAdd`), and the folds of the code are such sums
  (`FoldIsSum`).  The net changes of the ticks up to one sum to the liquidity of the
  positions around it (`NetsAreChanges`, `ActiveIsOfThoseAround`).  After every round of
  the walk the liquidity is that of the positions around the price, the amounts are what
  they hold more and less than in the beginning, and the ticks ahead are those above the
  price (`WalkInv`); a round that does not reach the goal leaves one tick less, so there
  are rounds enough (`WalkEnds`).  A budget is kept because every division on the way
  rounds down (`AmountsFit`), and a band no narrower than a tick has the price inside
  (`BandHolds`).
- *Types* (`PartsKeepTypes`): the type invariant of every part.  What a type rests on is
  mostly in the invariant found for the part's properties: the height a sync saves is one
  the watcher has seen, an amount that is asked lies inside the bracket, an event is one
  the account made.  So the two are inductive together (`PartsTyped`), part by part, and
  the bounds of the model (retries, edits, events, hitches) are shown to be kept.

Some of these are inductions over data, which the library's induction theorems state with
an operator as a parameter that no installed prover can instantiate.  `Inductively`,
`BySize` and `ChoiceExists` take a set instead, and rest on `WFMin`: a set of numbers that
has no least element outside it is all of them.

**Only model-checked**: the liveness (`ApprovedIsServed`, `SwapsAreStored`,
`EveryPlanEnds`, `ConnectionIsReplaced`), which is beyond the prover.

## 5. What could follow

1. *Composition*: `MarketState` over `SwapIndexer` and `MexcFeed` themselves instead of
   its own small watchers, and `BridgeEngine` over `VenueExecution`, so that a restart
   falls between two awaits of one step.  Both are out of TLC's reach with the present
   bounds.
2. *Chain reorganisations*: the code treats none; a model of one would only show that.

## 6. Not modelled

The dashboard's pages and read-only routes keep no state; its routes that write are in
`BridgeEngine`, `PaperExchange`, `PaperBalances` and `InventoryTable`.  Of the parts that
are modelled *partly*, PROJECT.json says what is left out: encodings and read-only queries
of the executors, the dry run of the seeder, token and snapshot rows and the
`eitherTracked` mode of the indexer, deposits of the live exchange (watched by hand), gas
price and decimals of the state, and the 256-bit root of a price at a tick, which TLC's
integers do not represent.  Everywhere: log lines, counters that are only reported, texts,
and operations that no code calls (the breaker's `reset` and `resetDaily`, the executor's
`claimWrapped`).

## 7. Observations

What the modelling met that contradicts no document, so that it is no finding; the
properties leave room for it or the models show it.

- *Engine*: `resetDaily` has no caller, so the daily limit is one over the life of the
  process.
- *Dispatch*: a native mint is chosen by its target alone (`execution.dispatch.ts`),
  whatever it is from. Rebalancing of USDT builds unwraps that the dispatch refuses.
- *Strategies*: `PegKeeper.buildPlan` reads a `direction` its context never has
  (`pegkeeper.ts:145`); `minRebalanceUsd` is never compared (`rebalancer.ts:41`); in
  crisis mode new ranges call for newer ones; the fees of the application's table all land
  on the first position of a pool.
- *Clips and plans*: when a search against the exchange runs out, the close leg sells the
  output of its last sample, whatever the amount chosen (`calibration.clip.ts:460`,
  `:489`), and a price is near enough by a measure that is not the one samples are ranked
  by; a clip is in units of the leg's asset whatever the open swap spends;
  the preparation never picks a route since the direct candidate always scores as
  prepared; an unknown balance counts as prepared; a balance snapshot without an EVM
  address stops before exchange and wallet.
- *Quotes*: an exact-output quote of the exchange nets its fee below the target; one of a
  swap skips the check of divergence; a swap may be quoted by price beyond what the pool
  holds.
- *State*: missing timestamps of the pools and the exchange count as fresh; the watcher's
  time of a sync is its end, its prices are as of its beginning; the order among a pair's
  pools depends on the rows' order.
- *MEXC*: a trade refreshes the time of an old book; a clean close leaves `live` true; a
  page that is left keeps a connection that reconnects for ever; depth frames are whole
  books but are merged, so levels that vanished stay.
- *Zephyr watcher*: polls overlap, so an older answer may come last; first failures never
  mark it disconnected.
- *Paper exchange*: the route takes a negative deposit, which overdraws the account, a
  negative withdrawal, which credits it, and a reset to less than nothing.
- *Paper file*: no lock; a reader between truncation and write resets it to nothing.
- *Table of balances*: zero balances are skipped, so a row keeps its last amount; the
  dashboard's names never meet the engine's, so its actions find no balance.  If they did,
  two of them could overdraw it: the balance is looked at before the transaction
  (`route.ts:66`, `:76`).
- *Liquidity*: no depth is sampled while the active liquidity is zero; the current tick is
  taken from the decimal-adjusted price; the seeder's maxima are two per cent above its
  amounts and may exceed the budget.
