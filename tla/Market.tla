--------------------------------- MODULE Market ---------------------------------
(***************************************************************************)
(* What the engine knows of the markets and makes of it, in one run: a     *)
(* behaviour is about one part of it, which is chosen in the beginning,    *)
(* and leaves the variables of the others alone.                           *)
(*                                                                         *)
(*   feed        the MEXC feed (MexcFeed)                                  *)
(*   rows        the rows written of its snapshot (SnapshotRows)           *)
(*   reserve     the Zephyr watcher and its rows (ReserveWatch)            *)
(*   relay       the page that shows the feed (MexcRelay)                  *)
(*   strategies  plans carried out one after the other (StrategyRuns)      *)
(*   clip        the search for a clip (ClipSizing)                        *)
(*   state       the state of the markets, read while they move            *)
(*               (MarketState)                                             *)
(*   account     the account of the paper exchange (PaperExchange)         *)
(*   file        the file of paper balances (PaperBalances)                *)
(*   table       the table of balances (InventoryTable)                    *)
(*   quote, path, plan  one question to Quoting, Pathing and ClipScenario  *)
(*   pools, liquidity   one to MarketState and LiquidityMath               *)
(***************************************************************************)
EXTENDS MexcFeed

CONSTANTS
    FlushEvery, RowsMaxTime, MaxFailures,
    FirstAmount, LeastAmount, ClosePrices, Tolerance, MaxEvaluations, MaxExpansions,
    EvmMaxAge, CexMaxAge, StateMaxTime, MaxTroubles,
    Orders, Amounts, Quantities, Openings, Prices, MaxEvents,
    Requests, Edited, MaxEdits,
    MaxRevision, Mounts, MaxQueue, MaxHitches,
    ReserveMaxTime, MaxPolls, MaxMishaps,
    Tabled, Held, Posts, Transfers, TableTroubles,
    Gaps, Ratios, Holdings, Markets, LpMarkets, Books, LeastTick,
    QuoteCases, PathCases, PlanCases, PoolCases, BandCases, DepthCases, \* the questions
    RootAt

VARIABLES
    part,
    rowNow, ticker, inserts, pending, lastFlush, rows, final, phase, failures, lost,
    coin, held, book, market,
    flavor, stage, at, tries, count, seen, first, low, high, best, latest, result, closing,
    stateNow, swaps, row, cursor, health, job, missed, build, state, troubles,
    balances, opening, events, order,
    file, op, entered, doubted, edits,
    topic, revision, since, up, clients, mounts, page, conn, frames, retry, fetch, screen, source, hitches,
    watchNow, height, watching, polls, asked, raw, reserveInserts, flushing, flushedAt, reserveRows, raced, mishaps,
    balance, cycle, left, errors, table, request, tableTroubles,
    case

rowsVars == <<rowNow, ticker, inserts, pending, lastFlush, rows, final, phase, failures, lost>>
strategyVars == <<coin, held, book, market>>
clipVars == <<flavor, stage, at, tries, count, seen, first, low, high, best, latest, result, closing>>

stateVars == <<stateNow, swaps, row, cursor, health, job, missed, build, state, troubles>>

accountVars == <<balances, opening, events, order>>
fileVars == <<file, op, entered, doubted, edits>>

relayVars ==
    <<topic, revision, since, up, clients, mounts, page, conn, frames, retry, fetch, screen, source, hitches>>

reserveVars ==
    <<watchNow, height, watching, polls, asked, raw, reserveInserts, flushing, flushedAt, reserveRows, raced, mishaps>>

tableVars == <<balance, cycle, left, errors, table, request, tableTroubles>>

others == <<strategyVars, clipVars, relayVars, reserveVars>>
paperVars == <<accountVars, fileVars, tableVars>>

allVars == <<part, vars, rowsVars, others, stateVars, paperVars, case>>

NoCase == <<>>

A == INSTANCE ClipScenario
L == INSTANCE LiquidityMath

-----------------------------------------------------------------------------
(* The parts *)

Rows == INSTANCE SnapshotRows WITH now <- rowNow, MaxTime <- RowsMaxTime
Relay == INSTANCE MexcRelay

Reserve == INSTANCE ReserveWatch WITH
    MaxTime <- ReserveMaxTime, now <- watchNow, phase <- watching, inserts <- reserveInserts,
    pending <- flushing, lastFlush <- flushedAt, rows <- reserveRows

Runs == INSTANCE StrategyRuns WITH MinTick <- LeastTick
Clip == INSTANCE ClipSizing
Global == INSTANCE MarketState WITH now <- stateNow, MaxTime <- StateMaxTime

Account == INSTANCE PaperExchange
File == INSTANCE PaperBalances

Table == INSTANCE InventoryTable WITH
    Coins <- Tabled, held <- balance, snapshot <- cycle, troubles <- tableTroubles, MaxTroubles <- TableTroubles

\* A question about an output: of an operation that can be quoted for one, in a pool that has it and
\* whose reserves are what its price says (the two are tried in different orders in the two directions).
IsQuoteCase(c) ==
    /\ c.hop.op \in {"wrap", "unwrap", "nativeMint", "nativeRedeem", "swapEVM"}
    /\ c.wanted \in Nat /\ c.wanted > 0
    /\ A!IsMarket(c.st) /\ c.st.hasReserve
    /\ A!ContextAvailable(c.hop.op, c.hop.from, c.hop.to, c.st)
    /\ c.hop.op = "swapEVM" => A!SwapEnabled(c.hop.from, c.hop.to, c.st)
    /\ \A p \in A!SwapContext(c.hop.from, c.hop.to, c.st) : A!ReservesKnown(p) =>
          A!HeldOf(p, c.hop.to) * A!Units(c.hop.to) > c.wanted /\ ~A!Diverges(p, c.hop.from, c.hop.to)

\* One side of a book: finite, one level to a price.
IsSide(levels) ==
    /\ IsFiniteSet(levels) /\ \A l, k \in levels : l.price = k.price => l = k
    /\ \A l \in levels : l.price \in Nat /\ l.price > 0 /\ l.amount \in Nat

\* The prices of a market agree: in either direction no pool gives more than it is given at the prices
\* of assets, nor holds more; minting is quoted at the dearer, redeeming at the cheaper; no price of
\* the reserve has a fraction of a cent; no bid is above the price, and no ask below it.
PricesAgree(st) ==
    LET usd(asset) == A!AssetPrice(asset, st)
        rates == st.reserve.rates
        zeph == A!SpotUsd("ZEPH", rates)
    IN  /\ \A p \in st.pools : \A d \in {<<p.base, p.quote>>, <<p.quote, p.base>>} :
            /\ usd(d[1]) # A!None
            /\ A!PriceFrom(p, d[1]) * usd(d[2]) <= 100 * usd(d[1])
            /\ A!ReservesKnown(p) => A!HeldOf(p, d[2]) * usd(d[2]) <= A!HeldOf(p, d[1]) * usd(d[1])
        /\ \A c \in A!Coins : rates[c].redeem <= rates[c].spot /\ rates[c].spot <= rates[c].mint
        /\ \A pair \in A!Redeemed :
            rates[pair[1]].spot * A!SpotUsd(pair[2], rates) <= 100 * A!SpotUsd(pair[1], rates)
        /\ (\A l \in st.bids : l.price <= zeph) /\ (\A l \in st.asks : zeph <= l.price)

\* A question about the paths from one asset to another.
IsPathCase(c) ==
    /\ c.coins \in Nat /\ A!IsMarket(c.st) /\ c.st.hasReserve /\ PricesAgree(c.st)
    /\ IsSide(c.st.bids) /\ IsSide(c.st.asks) /\ c.st.takerBps \in Nat
    /\ \A a \in {"ZEPH", "USDT"} : c.st.withdrawFee[a] \in Nat

\* A question about a plan.
IsPlanCase(c) ==
    /\ c.leg \in A!ArbDefs /\ c.override \in Nat /\ A!IsMarket(c.st) /\ A!IsWorld(c.w)
    /\ c.sizing.chosen \in Nat

ASSUME MarketAssumption ==
    /\ Rows!RowsAssumption /\ Clip!SizingAssumption /\ Global!StateAssumption
    /\ Account!ExchangeAssumption /\ File!BalancesAssumption /\ Relay!RelayAssumption /\ Reserve!ReserveAssumption
    /\ Table!TableAssumption /\ Runs!RunsAssumption
    /\ PoolCases \subseteq Seq(Global!Metas)
    /\ \A c \in QuoteCases : IsQuoteCase(c)
    /\ \A c \in PathCases : IsPathCase(c)
    /\ \A c \in PlanCases : IsPlanCase(c)
    /\ L!GridAssumption /\ (\A c \in BandCases : L!IsBandCase(c)) /\ (\A c \in DepthCases : L!IsDepthCase(c))

Lasting == {"feed", "rows", "relay", "reserve", "strategies", "clip", "state", "account", "file", "table"}

MarketInit ==
    /\ part \in Lasting \cup {"quote", "path", "plan", "pools", "liquidity"}
    /\ Init /\ Rows!Init /\ Reserve!Init /\ Global!Init /\ File!Init
    /\ \/ part = "account" /\ Account!Init
       \/ part # "account" /\ balances = (CHOOSE o \in Openings : TRUE) /\ Account!Init
    /\ \/ part = "table" /\ Table!Init
       \/ part # "table" /\ balance = [a \in Table!Assets |-> 0] /\ Table!Init
    /\ \/ part = "strategies" /\ Runs!Init
       \/ /\ part # "strategies" /\ coin = "ZSD" /\ held = NoCase
          /\ book = NoCase /\ market = NoCase
    /\ \/ part = "relay" /\ Relay!Init
       \/ part # "relay" /\ topic = "ticker" /\ Relay!Init
    /\ \/ part = "clip" /\ Clip!Init
       \/ part # "clip" /\ flavor = "native" /\ Clip!Init
    /\ \/ part \in Lasting /\ case = NoCase
       \/ part = "quote" /\ case \in QuoteCases
       \/ part = "path" /\ case \in PathCases
       \/ part = "plan" /\ case \in PlanCases
       \/ part = "pools" /\ case \in PoolCases
       \/ part = "liquidity" /\ case \in BandCases \cup DepthCases

FeedStep     == part = "feed" /\ Next /\ UNCHANGED <<rowsVars, others, stateVars, paperVars>>
RowsStep     == part = "rows" /\ Rows!Next /\ UNCHANGED <<vars, others, stateVars, paperVars>>
StrategyStep == part = "strategies" /\ Runs!Next /\ UNCHANGED <<vars, rowsVars, clipVars, relayVars, reserveVars, stateVars, paperVars>>
ClipStep     == part = "clip" /\ Clip!Next /\ UNCHANGED <<vars, rowsVars, strategyVars, relayVars, reserveVars, stateVars, paperVars>>
RelayStep    == part = "relay" /\ Relay!Next /\ UNCHANGED <<vars, rowsVars, strategyVars, clipVars, reserveVars, stateVars, paperVars>>
ReserveStep  == part = "reserve" /\ Reserve!Next /\ UNCHANGED <<vars, rowsVars, strategyVars, clipVars, relayVars, stateVars, paperVars>>
StateStep    == part = "state" /\ Global!Next /\ UNCHANGED <<vars, rowsVars, others, paperVars>>
AccountStep  == part = "account" /\ Account!Next /\ UNCHANGED <<vars, rowsVars, others, stateVars, fileVars, tableVars>>
FileStep     == part = "file" /\ File!Next /\ UNCHANGED <<vars, rowsVars, others, stateVars, accountVars, tableVars>>
TableStep    == part = "table" /\ Table!Next /\ UNCHANGED <<vars, rowsVars, others, stateVars, accountVars, fileVars>>

MarketNext ==
    /\ FeedStep \/ RowsStep \/ RelayStep \/ ReserveStep \/ StrategyStep \/ ClipStep \/ StateStep \/ AccountStep \/ FileStep \/ TableStep
    /\ UNCHANGED <<part, case>>

\* The feed's fairness.
MarketSpec ==
    /\ MarketInit /\ [][MarketNext]_allVars
    /\ WF_allVars(part = "feed" /\ Websocket /\ UNCHANGED <<part, rowsVars, others, stateVars, paperVars, case>>)

-----------------------------------------------------------------------------
(* Properties *)

\* Each part's variables keep their types.
MarketTypeOK ==
    /\ part = "feed" => TypeOK
    /\ part = "rows" => Rows!TypeOK
    /\ part = "relay" => Relay!TypeOK
    /\ part = "reserve" => Reserve!TypeOK
    /\ part = "strategies" => Runs!RunsTypeOK
    /\ part = "clip" => Clip!TypeOK
    /\ part = "state" => Global!TypeOK
    /\ part = "account" => Account!TypeOK
    /\ part = "file" => File!TypeOK
    /\ part = "table" => Table!TypeOK

\* The connections of the watcher and of the page (services/mexc/ws.ts; web/app/mexc/useMexcWebSocket.ts).
OneConnection == OneSocket /\ (part = "relay" => Relay!OneConnection)

\* What the watcher and the page show follows the exchange and the watcher (mexc/snapshot.ts; useMexcWebSocket.ts).
BooksKeepTheirOrder == FramesKeepTheirOrder /\ Relay!PageKeepsItsOrder

\* The row a shutdown of the watcher owes (apps/watchers/src/mexc/snapshot.ts, flushToDbNow), and the
\* rows of the reserve (apps/watchers/src/zephyr/snapshot.ts; domain/zephyr/reserve.ts, policy).
RowsTellTheirSource ==
    Rows!ShutdownPersists /\ Reserve!RowsFollowTheChain /\ Reserve!RowsPermitWhat(A!Policy)

\* Arbitrage plans and the policy of the reserve (strategies/arbitrage.ts, zephyr/reserve.ts).
PlansUsePermittedConversions == part = "strategies" => Runs!PlansUsePermittedConversions

\* A rebalancing that does not go to and fro, a new range that is not adjusted again
\* (strategies/rebalancer.ts, lpmanager.ts).
AdjustmentsSettle == Runs!AdjustmentsSettle

\* The clip is made of the sample that will do best (arbitrage/calibration.clip.ts, calibration.twoVenue.ts).
ClipIsNearestSample == Clip!ClipIsNearestSample

\* What the engine's question of freshness lets through (engine.ts, state/state.evm.ts, state.cex.ts).
FreshStateIsVouchedFor == Global!FreshStateIsVouchedFor

\* The choice among the pools of a pair (state/state.evm.ts, shouldReplacePool).
ChosenPoolIsPriced == part = "pools" => Global!ChosenIsPriced(case)

\* The account of the paper exchange, its events and what takes of it (mexc/paper.ts; api/paper/account).
AccountAddsUp == Account!AccountAddsUp

\* The file of paper balances and the edits of it (paperBalanceStore.ts), and the table of balances with
\* its two writers (inventory/balances.ts, syncInventoryToDb; api/inventory/actions/route.ts).
WritesAreKept == File!LoneEditsAreKept /\ Table!SyncedRowsStand

\* Positions, what they cost and what a pool is said to move (uniswapV4/liquidityMath.ts, persistence.math.ts).
LiquidityAddsUp ==
    part = "liquidity" => IF "band" \in DOMAIN case THEN L!BandFits(case) ELSE L!DepthIsOfThe(case)

\* An input that is quoted for a wanted output is quoted, and given to the same quote it brings that
\* output: the two directions of a quote agree, with reserves and without
\* (quoting/quoting.state.swap.ts, quoting.zephyr.ts, quoting.bridge.ts).
ExactOutIsEnough ==
    part = "quote" =>
        LET Asked(in, out) == A!InvokeQuoter(
                A!Request(case.hop.op, case.hop.from, case.hop.to, in, out), case.st)
            in == Asked(0, case.wanted).amountIn
        IN  in > 0 /\ Asked(in, 0).amountOut >= case.wanted

\* No path makes value out of prices that agree: what an evaluation calls a gain comes from a
\* difference of prices, never from decimals or fees (pathing/evaluator.ts).
NoPathMakesValue ==
    part = "path" =>
        \A e \in A!EvaluatePaths(case.from, case.to, case.coins * A!Units(case.from), 4, 100, <<>>, case.st) :
            ~A!MakesValue(e, case.st)

\* A plan that the inventory does not limit is funded by what may be spent
\* (arbitrage/planner.ts, inventory/balances.ts, services/arbitrage/balances.ts).
UnlimitedPlansAreFunded ==
    part = "plan" =>
        \A options \in {A!BuildClipScenario(case.leg, case.override, case.sizing, 2, case.chain, case.st)} :
            A!IsFunded(case.leg,
                       A!BuildArbPlan(case.leg, options, case.override, 2, 5, case.w, case.st), case.w)
===============================================================================
