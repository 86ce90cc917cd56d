------------------------------ MODULE Strategies ------------------------------
(***************************************************************************)
(* The four strategies (src/domain/strategies): what each finds, the plan  *)
(* it builds for a finding, and whether the plan may run unasked.  Pure    *)
(* operators on a state of the markets (see MarketAnalysis) and balances.  *)
(***************************************************************************)
EXTENDS MarketAnalysis, Sequences, Functions

-----------------------------------------------------------------------------
(* Steps and modes *)

NoLp == [id |-> FALSE, lower |-> 0, upper |-> 0]

\* expected is None when the strategy leaves expectedAmountOut out.
Step(op, from, to, amountIn, expected, ctx) ==
    [op |-> op, from |-> from, to |-> to, amountIn |-> amountIn, expected |-> expected,
     ctx |-> ctx, lp |-> NoLp]

LpStep(op, pool, ctx, lp) ==
    [op |-> op, from |-> pool, to |-> pool, amountIn |-> 0, expected |-> None,
     ctx |-> ctx, lp |-> lp]

(***************************************************************************)
(* What a strategy finds: an opportunity, with what is expected of it and  *)
(* the context that its plan will be built from.  A plan is its steps; a   *)
(* plan without steps is none.                                             *)
(***************************************************************************)
Opportunity(asset, direction, pnl, urgency, context) ==
    [asset |-> asset, direction |-> direction, pnl |-> pnl, urgency |-> urgency, context |-> context]

OperationPlan(opportunity, steps, cost) ==
    [opportunity |-> opportunity, steps |-> steps, cost |-> cost]

RRMode(ratio) ==
    CASE ratio >= 400 -> "normal" [] ratio \in 200..399 -> "defensive" [] OTHER -> "crisis"

SpotMaSpreadBps(rate) ==
    IF rate.ma \in {None, 0} THEN 0 ELSE Rounded((rate.spot - rate.ma) * 10000, rate.ma)

-----------------------------------------------------------------------------
(* Arbitrage: the legs *)

Hop(from, to, op) == [from |-> from, to |-> to, op |-> op]

NoHop == Hop(Asset("", ""), Asset("", ""), "")

Leg(asset, direction, open, native, cex) ==
    [asset |-> asset, direction |-> direction, open |-> open, native |-> native, cex |-> cex]

OpenSwap(from, to) == Hop(Asset(from, "e"), Asset(to, "e"), "swapEVM")

Conversion(from, to, op) == Hop(Asset(from, "n"), Asset(to, "n"), op)

ArbDefs == {
    Leg("ZEPH", "evm_discount", OpenSwap("ZSD", "ZEPH"), Conversion("ZEPH", "ZSD", "nativeMint"),
        Hop(Asset("ZEPH", "x"), Asset("USDT", "x"), "tradeCEX")),
    Leg("ZEPH", "evm_premium", OpenSwap("ZEPH", "ZSD"), Conversion("ZSD", "ZEPH", "nativeRedeem"),
        Hop(Asset("USDT", "x"), Asset("ZEPH", "x"), "tradeCEX")),
    Leg("ZSD", "evm_discount", OpenSwap("USDT", "ZSD"),
        Hop(Asset("ZSD", "e"), Asset("ZSD", "n"), "unwrap"), NoHop),
    Leg("ZSD", "evm_premium", OpenSwap("ZSD", "USDT"), Conversion("ZEPH", "ZSD", "nativeMint"), NoHop),
    Leg("ZRS", "evm_discount", OpenSwap("ZEPH", "ZRS"), Conversion("ZRS", "ZEPH", "nativeRedeem"), NoHop),
    Leg("ZRS", "evm_premium", OpenSwap("ZRS", "ZEPH"), Conversion("ZEPH", "ZRS", "nativeRedeem"), NoHop),
    Leg("ZYS", "evm_discount", OpenSwap("ZSD", "ZYS"), Conversion("ZYS", "ZSD", "nativeRedeem"), NoHop),
    Leg("ZYS", "evm_premium", OpenSwap("ZYS", "ZSD"), Conversion("ZSD", "ZYS", "nativeMint"), NoHop) }

-----------------------------------------------------------------------------
(* Arbitrage: what is found *)

IsNativeCloseAvailable(leg, policy) ==
    CASE leg.asset = "ZEPH" -> IF leg.direction = "evm_discount" THEN policy.zsdMintable
                               ELSE policy.zsdRedeemable
      [] leg.asset = "ZRS"  -> IF leg.direction = "evm_discount" THEN policy.zrsRedeemable
                               ELSE policy.zrsMintable
      [] OTHER -> TRUE

\* In tenths of a dollar for the estimate's clip of 1000: swap, bridge, conversion, exchange, gas.
EstimateFees(leg) ==
    (IF leg.asset = "ZSD" THEN 3 ELSE 30) + 100 + (IF leg.asset = "ZRS" THEN 100 ELSE 10)
        + (IF leg.cex # NoHop THEN 10 ELSE 0) + 50

EstimatedPnl(leg, market) == Abs(market.gapBps) - EstimateFees(leg)

LegAnalysis(leg, st) ==
    [native |-> IsNativeCloseAvailable(leg, st.reserve.policy),
     cex    |-> leg.cex # NoHop /\ st.hasCex,
     market |-> AnalyzeArbMarket(leg.asset, st)]

HasOpportunity(leg, analysis) ==
    /\ analysis.market.direction = leg.direction
    /\ analysis.native \/ analysis.cex
    /\ EstimatedPnl(leg, analysis.market) > 0

ArbUrgency(pnl) ==
    CASE pnl > 1000 -> "high" [] pnl \in 501..1000 -> "medium" [] OTHER -> "low"

ArbOpportunity(leg, analysis) ==
    LET pnl == EstimatedPnl(leg, analysis.market)
    IN  Opportunity(leg.asset, leg.direction, pnl, ArbUrgency(pnl), analysis)

ArbFindings(st) ==
    IF ~st.hasReserve THEN {}
    ELSE {ArbOpportunity(leg, LegAnalysis(leg, st)) :
            leg \in {l \in ArbDefs : HasOpportunity(l, LegAnalysis(l, st))}}

-----------------------------------------------------------------------------
(* Arbitrage: the plan *)

\* price in cents, fee in millionths, slippage in basis points.
EstimateSwapOutput(amountIn, price, fee, slippageBps) ==
    LET gross == (amountIn * price) \div 100
    IN  IF amountIn <= 0 \/ price <= 0 THEN 0
        ELSE Larger(0, gross - (gross * fee) \div 1000000 - (gross * slippageBps) \div 10000)

PoolsOf(from, to, st) == {p \in st.pools : {p.base, p.quote} = {from, to}}

LookupSwapContext(from, to, st) == \E p \in PoolsOf(from, to, st) : p.address

PoolFee(from, to, st) == (CHOOSE p \in PoolsOf(from, to, st) : p.address).fee

StepPrice(hop, st) ==
    LET pool == {p \in PoolsOf(hop.from, hop.to, st) :
                    IF p.base = hop.from THEN p.price # None ELSE p.inverse # None}
        rates == st.reserve.rates
        mid == (st.bid + st.ask) \div 2
        from == hop.from[1]
        to == hop.to[1]
    IN  CASE hop.op = "swapEVM" /\ pool # {} ->
                LET p == CHOOSE q \in pool : TRUE
                IN  IF p.base = hop.from THEN p.price ELSE p.inverse
          [] hop.op \in {"nativeMint", "nativeRedeem"} ->
                (CASE from = "ZEPH" /\ to \in {"ZSD", "ZRS"} -> rates[to].spot
                   [] to = "ZEPH" /\ from \in {"ZSD", "ZRS"} -> Reciprocal(rates[from].spot)
                   [] from = "ZSD" /\ to = "ZYS" -> rates.ZYS.spot
                   [] from = "ZYS" /\ to = "ZSD" -> Reciprocal(rates.ZYS.spot))
          [] hop.op = "tradeCEX" /\ st.bid # None /\ st.ask # None ->
                IF from = "ZEPH" THEN mid ELSE Reciprocal(mid)
          [] OTHER -> 100

\* Shares in basis points, rounded down as Math.floor does.
Share(amount, bps) == (amount * bps) \div 10000

(***************************************************************************)
(* The open swap, an unwrap if the close begins on the native chain, the   *)
(* close, and a wrap if it ends there.  Each step's input is the estimated *)
(* output of the one before it, whatever asset that is.                    *)
(***************************************************************************)
BuildExecutionSteps(leg, close, clip, st) ==
    LET ctx      == LookupSwapContext(leg.open.from, leg.open.to, st)
        fee      == IF ctx THEN PoolFee(leg.open.from, leg.open.to, st) ELSE 0
        opened   == EstimateSwapOutput(clip, StepPrice(leg.open, st), fee, 50)
        bridged  == leg.open.to[2] = "e" /\ close.from[2] = "n"
        unwraps  == IF bridged THEN opened - Share(opened, st.unwrapFeeBps) ELSE opened
        takerFee == IF close.op = "tradeCEX" THEN st.takerBps * 100 ELSE 0
        closed   == EstimateSwapOutput(unwraps, StepPrice(close, st), takerFee, 50)
        wraps    == closed - Share(closed, st.wrapFeeBps)
    IN  <<Step(leg.open.op, leg.open.from, leg.open.to, clip, opened, ctx)>>
        \o (IF bridged
            THEN <<Step("unwrap", leg.open.to, Asset(leg.open.to[1], "n"), opened, unwraps, FALSE)>>
            ELSE <<>>)
        \o <<Step(close.op, close.from, close.to, unwraps, closed, FALSE)>>
        \o (IF close.to[2] = "n"
            THEN <<Step("wrap", close.to, Asset(close.to[1], "e"), closed, wraps, FALSE)>>
            ELSE <<>>)

\* Mutant: the native close whatever the reserve allows.
CloseNatively(leg, nativeAvailable) == leg.native

\* Native if the reserve allowed it when the opportunity was found, else the exchange, else native
\* all the same.
CloseOf(leg, nativeAvailable) == IF nativeAvailable \/ leg.cex = NoHop THEN leg.native ELSE leg.cex

\* The clip in atomic units of the asset, whatever asset the open swap spends.
ClipUsd(coin) == CASE coin = "ZSD" -> 1000 [] coin = "ZRS" -> 250 [] OTHER -> 500

ClipAmount(coin, st) ==
    LET price == IF coin = "ZSD" THEN 100 ELSE SpotUsd(coin, st.reserve.rates)
    IN  (ClipUsd(coin) * 100) \div price

LegOf(opportunity) ==
    CHOOSE leg \in ArbDefs : leg.asset = opportunity.asset /\ leg.direction = opportunity.direction

\* The cost is in tenths, as the PnL is.
ArbPlan(opportunity, st) ==
    LET leg == LegOf(opportunity)
    IN  OperationPlan(opportunity,
            BuildExecutionSteps(leg, CloseOf(leg, opportunity.context.native),
                                ClipAmount(leg.asset, st), st),
            IF opportunity.pnl < 0 THEN -opportunity.pnl ELSE 100)

-----------------------------------------------------------------------------
(* Arbitrage: the gates.  PnL and thresholds in tenths of a dollar. *)

SpreadAllows(leg, spreadBps) ==
    /\ Abs(spreadBps) < 500
    /\ leg.asset \in {"ZEPH", "ZRS"} =>
        IF leg.direction = "evm_discount" THEN spreadBps <= 300 ELSE spreadBps >= -300

RRModeAllows(leg, mode, pnl) ==
    CASE mode = "normal"    -> TRUE
      [] mode = "defensive" -> leg.asset # "ZRS" /\ (leg.asset = "ZEPH" => pnl >= 200)
      [] mode = "crisis"    -> leg.asset = "ZYS" /\ leg.direction = "evm_discount"

ArbAutoExecutes(plan, st, config) ==
    LET leg == LegOf(plan.opportunity)
        pnl == plan.opportunity.pnl
    IN  /\ ~config.manualApproval
        /\ pnl >= config.minProfit
        /\ SpreadAllows(leg, SpotMaSpreadBps(st.reserve.rates.ZEPH))
        /\ RRModeAllows(leg, RRMode(st.reserve.ratio), pnl)

-----------------------------------------------------------------------------
(* The rebalancer.  Balances are a record with fields e, n and x. *)

Target(coin) ==
    CASE coin = "ZEPH" -> [e |-> 30, n |-> 50, x |-> 20]
      [] coin = "ZSD"  -> [e |-> 60, n |-> 30, x |-> 10]
      [] coin = "ZRS"  -> [e |-> 40, n |-> 60, x |-> 0]
      [] coin = "ZYS"  -> [e |-> 50, n |-> 50, x |-> 0]
      [] coin = "USDT" -> [e |-> 70, n |-> 0, x |-> 30]

TotalOf(b) == b.e + b.n + b.x

\* Percentage points over the target, times the total.
Deviation(coin, b, v) == 100 * b[v] - Target(coin)[v] * TotalOf(b)

\* Array.reduce keeps the later of two equal elements.
Later(v, w) == <<v, w>> \in {<<"n", "e">>, <<"x", "e">>, <<"x", "n">>}

MostOver(coin, b) ==
    CHOOSE v \in {"e", "n", "x"} : \A w \in {"e", "n", "x"} \ {v} :
        \/ Deviation(coin, b, v) > Deviation(coin, b, w)
        \/ Deviation(coin, b, v) = Deviation(coin, b, w) /\ Later(v, w)

MostUnder(coin, b) ==
    CHOOSE v \in {"e", "n", "x"} : \A w \in {"e", "n", "x"} \ {v} :
        \/ Deviation(coin, b, v) < Deviation(coin, b, w)
        \/ Deviation(coin, b, v) = Deviation(coin, b, w) /\ Later(v, w)

NeedsRebalance(coin, b) ==
    TotalOf(b) > 0 /\ Deviation(coin, b, MostOver(coin, b)) >= 10 * TotalOf(b)

\* Mutant: a quarter of everything, however little is over.
RebalanceQuarter(coin, b) == TotalOf(b) \div 4

RebalanceAmount(coin, b) ==
    Smaller(Deviation(coin, b, MostOver(coin, b)), 25 * TotalOf(b)) \div 100

RebalanceSteps(coin, from, to, amount) ==
    LET at(v) == Asset(coin, v)
        hop(op, v, w) == Step(op, at(v), at(w), amount, None, FALSE)
    IN  CASE <<from, to>> = <<"e", "n">> -> <<hop("unwrap", "e", "n")>>
          [] <<from, to>> = <<"n", "e">> -> <<hop("wrap", "n", "e")>>
          [] <<from, to>> = <<"e", "x">> -> <<hop("unwrap", "e", "n"), hop("deposit", "n", "x")>>
          [] <<from, to>> = <<"n", "x">> -> <<hop("deposit", "n", "x")>>
          [] <<from, to>> = <<"x", "n">> -> <<hop("withdraw", "x", "n")>>
          [] <<from, to>> = <<"x", "e">> -> <<hop("withdraw", "x", "n"), hop("wrap", "n", "e")>>
          [] <<from, to>> = <<"e", "e">> -> <<hop("swapEVM", "e", "e")>>
          [] OTHER -> <<>>


\* In tenths: 1% of what is unwrapped, bridge gas, the exchange's fee.
RebalanceCost(from, to, amount) ==
    (IF from = "e" /\ to = "n" THEN amount \div 10 ELSE 0)
        + (IF {from, to} = {"e", "n"} THEN 50 ELSE 0)
        + (IF "x" \in {from, to} THEN 20 ELSE 0)

\* Of a deviation in percentage points, times the total.
RebalanceUrgency(deviation, total) ==
    CASE deviation > 40 * total -> "high"
      [] deviation > 25 * total /\ deviation <= 40 * total -> "medium"
      [] OTHER -> "low"

RebalanceOpportunity(coin, b, mode) ==
    LET from == MostOver(coin, b)
        to == MostUnder(coin, b)
        amount == RebalanceAmount(coin, b)
    IN  Opportunity(coin, <<from, to>>, -RebalanceCost(from, to, amount),
                    RebalanceUrgency(Deviation(coin, b, from), TotalOf(b)),
                    [mode |-> mode, from |-> from, to |-> to, amount |-> amount])

\* inventory: the balances of each coin that has a target.
RebalanceFindings(inventory, st) ==
    IF ~st.hasReserve THEN {}
    ELSE {RebalanceOpportunity(coin, inventory[coin], RRMode(st.reserve.ratio)) :
            coin \in {c \in DOMAIN inventory : NeedsRebalance(c, inventory[c])}}

RebalancePlan(opportunity) ==
    OperationPlan(opportunity,
        RebalanceSteps(opportunity.asset, opportunity.context.from, opportunity.context.to,
                       opportunity.context.amount),
        -opportunity.pnl)

RebalanceAutoExecutes(plan, config) ==
    ~config.manualApproval /\ plan.opportunity.context.mode = "normal" /\ plan.cost <= 500

-----------------------------------------------------------------------------
(* The peg keeper *)

ZsdPrice(st) ==
    LET hits == PoolsOf(Asset("ZSD", "e"), Asset("USDT", "e"), st)
        pool == CHOOSE p \in hits : TRUE
    IN  IF hits = {} THEN None
        ELSE IF pool.base = Asset("ZSD", "e") THEN pool.price ELSE Reciprocal(pool.price)

\* In basis points.
PegThresholds(mode) ==
    CASE mode = "normal"    -> [least |-> 30, urgent |-> 100, critical |-> 300]
      [] mode = "defensive" -> [least |-> 100, urgent |-> 200, critical |-> 500]
      [] mode = "crisis"    -> [least |-> 300, urgent |-> 500, critical |-> 1000]

PegUrgency(absDeviation, thresholds) ==
    CASE absDeviation >= thresholds.critical -> "critical"
      [] absDeviation \in thresholds.urgent..thresholds.critical - 1 -> "high"
      [] OTHER -> IF absDeviation >= 2 * thresholds.least THEN "medium" ELSE "low"

PegClipUsd(absDeviation) ==
    CASE absDeviation >= 200 -> 2000 [] absDeviation \in 100..199 -> 1000 [] OTHER -> 500

\* In tenths of a dollar: the deviation's share of the clip, without a fee of 0.03% and gas.
PegProfit(deviation, clipUsd) == (Abs(deviation) * clipUsd) \div 1000 - (clipUsd * 3) \div 1000 - 20

\* What is found.  The context, unlike the opportunity around it, names no direction.
PegOpportunity(deviation, mode) ==
    LET clipUsd == PegClipUsd(Abs(deviation))
    IN  Opportunity("ZSD", IF deviation > 0 THEN "zsd_premium" ELSE "zsd_discount",
                    PegProfit(deviation, clipUsd), PegUrgency(Abs(deviation), PegThresholds(mode)),
                    [mode |-> mode, deviation |-> deviation, clipUsd |-> clipUsd])

PegFindings(st) ==
    IF ~st.hasReserve \/ ZsdPrice(st) = None THEN {}
    ELSE {PegOpportunity(deviation, RRMode(st.reserve.ratio)) :
            deviation \in {d \in {(ZsdPrice(st) - 100) * 100} :
                Abs(d) >= PegThresholds(RRMode(st.reserve.ratio)).least}}

PegSteps(direction, clipUsd, nativeZsd, evmZsd, st) ==
    LET swap(from, to) == Step("swapEVM", Asset(from, "e"), Asset(to, "e"), clipUsd, None,
                               LookupSwapContext(Asset(from, "e"), Asset(to, "e"), st))
    IN  IF direction = "zsd_discount" THEN <<swap("USDT", "ZSD")>>
        ELSE (IF nativeZsd > evmZsd /\ nativeZsd > clipUsd
              THEN <<Step("wrap", Asset("ZSD", "n"), Asset("ZSD", "e"), clipUsd, None, FALSE)>>
              ELSE <<>>) \o <<swap("ZSD", "USDT")>>

\* buildPlan takes the direction from the context, and gives up when it is not there.
PegPlan(opportunity, nativeZsd, evmZsd, st) ==
    LET context == opportunity.context
    IN  OperationPlan(opportunity,
            IF "direction" \in DOMAIN context
            THEN PegSteps(context.direction, context.clipUsd, nativeZsd, evmZsd, st) ELSE <<>>,
            50)

PegAutoExecutes(plan, config) ==
    LET context == plan.opportunity.context
    IN  /\ ~config.manualApproval
        /\ context.mode = "crisis" =>
             plan.opportunity.direction = "zsd_discount" /\ Abs(context.deviation) >= 500
        /\ context.mode = "defensive" => Abs(context.deviation) >= 100
        /\ plan.opportunity.pnl >= 0

-----------------------------------------------------------------------------
(***************************************************************************)
(* The LP manager.  A price is the tick it lies at, so that a factor on    *)
(* the price is a distance in ticks: 0.8 is 2231.5 ticks down, 1.2 is      *)
(* 1823.3 up.                                                              *)
(*                                                                         *)
(* A book is what the database has of the wallet's positions: its owner is *)
(* known or not, the query may fail, rows are the positions the watcher    *)
(* indexed (pool, ticks, fees, token id or None), ticks the last state of  *)
(* the pools that have one, and apps the fees that the table LPPosition    *)
(* has for a pool.  A pool is the set of its two coins.                    *)
(***************************************************************************)
\* The first that is in one of the two symbols.
PoolAsset(pool) ==
    CASE "ZSD" \in pool -> "ZSD"
      [] pool \cap {"ZSD", "ZEPH"} = {"ZEPH"} -> "ZEPH"
      [] pool \cap {"ZSD", "ZEPH", "ZRS"} = {"ZRS"} -> "ZRS"
      [] pool \cap {"ZSD", "ZEPH", "ZRS", "ZYS"} = {"ZYS"} -> "ZYS"
      [] OTHER -> "Unknown"

CurrentTick(pool, book) == IF pool \in DOMAIN book.ticks THEN book.ticks[pool] ELSE 0

IsFirstOfPool(i, rows) == \A j \in 1..i - 1 : rows[j].pool # rows[i].pool

\* Fees of the table LPPosition replace those of the pool's first position.
FeesOf(i, book) ==
    IF book.rows[i].pool \in DOMAIN book.apps /\ IsFirstOfPool(i, book.rows)
    THEN book.apps[book.rows[i].pool] ELSE book.rows[i].fees

InRange(tick, row) == row.lower <= tick /\ tick < row.upper

LoadedPosition(i, book) ==
    [pool |-> book.rows[i].pool, lower |-> book.rows[i].lower, upper |-> book.rows[i].upper,
     inRange |-> InRange(CurrentTick(book.rows[i].pool, book), book.rows[i]),
     fees |-> FeesOf(i, book), id |-> book.rows[i].id]

LoadPositions(book) ==
    IF ~book.owner \/ book.fails THEN <<>>
    ELSE [i \in DOMAIN book.rows |-> LoadedPosition(i, book)]

\* The limits of the range to be, below and above the middle (or the peg), as floor(log) leaves them.
RangeOf(coin, mode) ==
    CASE coin = "ZSD" /\ mode = "normal"    -> [down |-> -203, up |-> 198]
      [] coin = "ZSD" /\ mode = "defensive" -> [down |-> -1054, up |-> 487]
      [] coin = "ZSD" /\ mode = "crisis"    -> [down |-> -6932, up |-> 953]
      [] coin # "ZSD" /\ mode = "normal"    -> [down |-> -2232, up |-> 1823]
      [] coin # "ZSD" /\ mode = "defensive" -> [down |-> -3567, up |-> 2623]
      [] coin # "ZSD" /\ mode = "crisis"    -> [down |-> -6932, up |-> 4054]

\* Mutant: the two ends of the range change places.
RangeReversed(coin, mode, position) ==
    LET middle == IF coin = "ZSD" THEN 0 ELSE (position.lower + position.upper) \div 2
    IN  [lower |-> middle + RangeOf(coin, mode).up, upper |-> middle + RangeOf(coin, mode).down]

\* Pools of ZSD have absolute ranges, the others ranges about the middle of the position's ticks.
RecommendedRange(coin, mode, position) ==
    LET middle == IF coin = "ZSD" THEN 0 ELSE (position.lower + position.upper) \div 2
    IN  [lower |-> middle + RangeOf(coin, mode).down, upper |-> middle + RangeOf(coin, mode).up]

\* A price 10% off the recommended one is 953 ticks above it or 1053 below it.
Drifted(tick, recommended) == tick - recommended > 953 \/ recommended - tick > 1053

ShouldAdjustRange(position, recommended) ==
    Drifted(position.lower, recommended.lower) \/ Drifted(position.upper, recommended.upper)

LpAction(position, mode) ==
    CASE ~position.inRange -> "reposition"
      [] position.inRange /\ position.fees > 50 -> "collect_fees"
      [] OTHER -> IF ShouldAdjustRange(position,
                        RecommendedRange(PoolAsset(position.pool), mode, position))
                  THEN "adjust_range" ELSE "none"

LpUrgency(action) ==
    CASE action = "reposition" -> "high" [] action = "adjust_range" -> "medium"
      [] action = "collect_fees" -> "low"

LpOpportunity(position, mode) ==
    LET action == LpAction(position, mode)
    IN  Opportunity(PoolAsset(position.pool), action,
                    IF action = "collect_fees" THEN position.fees - 5 ELSE 0, LpUrgency(action),
                    [mode |-> mode, pool |-> position.pool, id |-> position.id, fees |-> position.fees,
                     current |-> [lower |-> position.lower, upper |-> position.upper],
                     recommended |-> RecommendedRange(PoolAsset(position.pool), mode, position)])

LpFindings(book, st) ==
    IF ~st.hasReserve THEN {}
    ELSE LET mode == RRMode(st.reserve.ratio)
         IN  {LpOpportunity(position, mode) :
                position \in {p \in Range(LoadPositions(book)) : LpAction(p, mode) # "none"}}

\* The steps of an action; the mint that follows a burn is given no amount and no liquidity.
LpSteps(action, pool, ctx, tokenId, position, recommended) ==
    LET old == [id |-> tokenId, lower |-> position.lower, upper |-> position.upper]
        new == [id |-> FALSE, lower |-> recommended.lower, upper |-> recommended.upper]
    IN  CASE action = "collect_fees" -> <<LpStep("lpCollect", pool, ctx, old)>>
          [] action \in {"reposition", "adjust_range"} ->
                <<LpStep("lpBurn", pool, ctx, old), LpStep("lpMint", pool, ctx, new)>>
          [] action = "add_liquidity" -> <<LpStep("lpMint", pool, ctx, NoLp)>>
          [] action = "remove_liquidity" -> <<LpStep("lpBurn", pool, ctx, old)>>
          [] OTHER -> <<>>

FindPool(pool, st) == \E p \in st.pools : p.address /\ {p.base[1], p.quote[1]} = pool

LpCost(action) ==
    CASE action = "reposition" -> 20 [] action \in {"add_liquidity", "remove_liquidity"} -> 10
      [] OTHER -> 5

LpPlan(opportunity, st) ==
    LET context == opportunity.context
        action == opportunity.direction
    IN  OperationPlan(opportunity,
            LpSteps(action, context.pool, FindPool(context.pool, st), context.id # None,
                    context.current, context.recommended),
            LpCost(action))

LpAutoExecutes(plan, config) ==
    LET opportunity == plan.opportunity
    IN  ~config.manualApproval /\ opportunity.direction = "collect_fees" /\ opportunity.context.fees > 10
===============================================================================
