------------------------------ MODULE ClipScenario ------------------------------
(***************************************************************************)
(* The clips an arbitrage is offered (src/domain/arbitrage/clip.ts and     *)
(* calibration.clip.ts): for either close, what the opening swap of an     *)
(* amount and the close after it would give, by the state of the markets   *)
(* and by the chain (src/domain/quoting/quoting.onchain.swap.ts), and what *)
(* the search for the amount sees of that.  The search itself is           *)
(* ClipSizing's; here the amounts it tried are given.                      *)
(*                                                                         *)
(* The chain has moved on since the state was read.  chain.quote is what   *)
(* the quoter contract gives of the output the state lets expect, in       *)
(* percent, chain.trace what a trace of that call shows a moment later;    *)
(* None when the call fails.                                               *)
(***************************************************************************)
EXTENDS ArbPlanner

\* Pools are compared in tenths of a coin.
Tenths(amount, asset) == (10 * amount) \div Units(asset)

PoolBetween(a, b, st) == {p \in st.pools : {p.base, p.quote} = {a, b}}

\* The one there is, if any.
OnlyOf(S) == IF S = {} THEN None ELSE CHOOSE x \in S : TRUE

PoolPrice(base, quote) == IF base <= 0 THEN None ELSE Rounded(100 * quote, base)

\* applySwapToPool, and the totals a trace leaves: what the pool holds after a swap, in tenths.
Totals(pool, from, in, out) ==
    LET to == IF pool.base = from THEN pool.quote ELSE pool.base
        change(a) == IF a = from THEN Tenths(in, from) ELSE -Tenths(out, to)
    IN  [base |-> 10 * pool.totalBase + change(pool.base),
         quote |-> 10 * pool.totalQuote + change(pool.quote)]

PriceOf(totals) == PoolPrice(totals.base, totals.quote)

-----------------------------------------------------------------------------
(* A swap quoted by the chain *)

NoAnswer == [out |-> None, traced |-> None, price |-> None]

PartOf(percent, amount) == IF percent = None THEN None ELSE (percent * amount) \div 100

\* The price a pool is left at with these totals: that of the state, moved as far as they moved.
PriceMoved(pool, after) ==
    IF ~ReservesKnown(pool) \/ after.base <= 0 \/ after.quote <= 0 THEN None
    ELSE IF pool.price > 0 /\ pool.totalQuote > 0
    THEN (pool.price * after.quote * pool.totalBase) \div (after.base * pool.totalQuote)
    ELSE PriceOf(after)

PriceAfter(pool, from, in, out) ==
    IF out = None THEN None ELSE PriceMoved(pool, Totals(pool, from, in, out))

\* What the quote and its trace say, given what the state lets expect.
ChainAnswer(pool, from, in, expected, chain) ==
    [out |-> PartOf(chain.quote, expected), traced |-> PartOf(chain.trace, expected),
     price |-> PriceAfter(pool, from, in, PartOf(chain.trace, expected))]

\* No answer where the pool is not fresh or the call fails.
QuoteSwapOnchain(hop, amountIn, chain, st) ==
    IF chain.quote = None \/ ~SwapEnabled(hop.from, hop.to, st) THEN NoAnswer
    ELSE LET pool == CHOOSE p \in SwapContext(hop.from, hop.to, st) : PriceFrom(p, hop.from) > 0
         IN  ChainAnswer(pool, hop.from, amountIn, OutExactIn(pool, hop.from, hop.to, amountIn), chain)

-----------------------------------------------------------------------------
(* Prices to compare with *)

\* resolveNativeRateContext: the rate of the conversion; None where the step is none or has no rate.
NativeContext(hop, st) ==
    IF st.hasReserve /\ NativePair(hop.op, hop.from, hop.to)
    THEN LET rate == NativeRate(Request(hop.op, hop.from, hop.to, 0, 0), st)
         IN  IF rate > 0 THEN rate ELSE None
    ELSE None

\* The rate, which is in the coin it is quoted in; without one the dollars of what is given.
ReferencePrice(hop, st) ==
    IF NativeContext(hop, st) # None THEN NativeContext(hop, st) ELSE ClipPrice(hop.from, st)

\* clampCalibrationPrice.
ClampCalibrationPrice(price, initial, reference) ==
    IF price = None \/ initial = None \/ reference = None THEN price
    ELSE Larger(Smaller(initial, reference), Smaller(price, Larger(initial, reference)))

\* The middle of two prices, or the one there is.
Middle(a, b) == IF a # None /\ b # None THEN (a + b) \div 2 ELSE IF a # None THEN a ELSE b

-----------------------------------------------------------------------------
(***************************************************************************)
(* An execution of one step: what goes in, what the state and the chain    *)
(* say comes out, the price the pool is left at, and the score's net and   *)
(* cost.                                                                   *)
(***************************************************************************)
Execution(amountIn, out, chainOut, price, evaluations) ==
    [amountIn |-> amountIn, out |-> out, chainOut |-> chainOut, price |-> price,
     net  |-> {e.net.usd : e \in {f \in evaluations : f.net.known}},
     cost |-> {e.cost.usd : e \in {f \in evaluations : f.cost.known}}]

\* derivePoolStateWithDeltas: the pool gives what the path gains.
PredictedPrice(pool, hops) ==
    LET left(a, total) == 10 * total - Tenths(Delta(a, hops), a)
    IN  IF ReservesKnown(pool)
        THEN PoolPrice(left(pool.base, pool.totalBase), left(pool.quote, pool.totalQuote)) ELSE None

\* With the totals of the trace where it shows any, else with what the quote says comes out.
ChainPrice(pool, from, in, answer) ==
    IF ~ReservesKnown(pool) \/ answer.out = None THEN None
    ELSE PriceOf(Totals(pool, from, in, IF answer.price # None THEN answer.traced ELSE answer.out))

FirstKnown(a, b) == IF a # None THEN a ELSE b

Executed(hop, amountIn, evaluations, pools, answer) ==
    Execution(amountIn, OnlyOf({Delta(hop.to, e.hops) : e \in evaluations}), answer.out,
              OnlyOf({FirstKnown(ChainPrice(p, hop.from, amountIn, answer), PredictedPrice(p, e.hops)) :
                      p \in pools, e \in evaluations}),
              evaluations)

\* simulateExecution: by the first way from the one asset to the other, and for a swap by the chain.
SimulateExecution(hop, amountIn, depth, chain, st) ==
    Executed(hop, amountIn, EvaluatePaths(hop.from, hop.to, amountIn, depth, 1, <<>>, st),
             PoolBetween(hop.from, hop.to, st),
             IF hop.op = "swapEVM" THEN QuoteSwapOnchain(hop, amountIn, chain, st) ELSE NoAnswer)

\* buildCexExecutionVariant: the quote of the exchange, without a score.
CexExecution(hop, amountIn, st) ==
    LET quote == QuoteCexTrade(Request("tradeCEX", hop.from, hop.to, amountIn, 0), st)
    IN  Execution(amountIn, quote.amountOut, quote.amountOut, None, {})

-----------------------------------------------------------------------------
(* What a search sees of an amount *)

InitialPrice(hop, st) == OnlyOf({p.price : p \in PoolBetween(hop.from, hop.to, st)})

\* The close takes the number that comes out of the opening, in units of its own, one at least.
Carried(out, open, close) == Larger(1, Scaled(out, open.to, close.from))

\* evaluateAmount of calibrateNativeRoute.  The gap is counted from the side the pool starts on.
Gap(price, reference, start) ==
    IF start = None \/ reference >= start THEN price - reference ELSE reference - price

Sampled(amount, price, other, gap, open, closes) ==
    [amount |-> amount, known |-> price # None /\ other # None,
     gap |-> IF price # None /\ other # None THEN gap ELSE 0,
     middle |-> Middle(price, other), open |-> open, closes |-> closes]

NativeSample(leg, amount, quote, open, depth, chain, st) ==
    LET out == FirstKnown(open.chainOut, FirstKnown(quote.out, open.out))
        price == FirstKnown(quote.price, open.price)
        reference == ReferencePrice(leg.native, st)
        taken == IF out > 0 THEN {Carried(out, leg.open, leg.native)} ELSE {}
    IN  Sampled(amount, price, reference, Gap(price, reference, InitialPrice(leg.open, st)), open,
                {SimulateExecution(leg.native, n, depth, chain, st) : n \in taken})

EvaluateNativeAmount(leg, amount, depth, chain, st) ==
    NativeSample(leg, amount, QuoteSwapOnchain(leg.open, amount, chain, st),
                 SimulateExecution(leg.open, amount, depth, chain, st), depth, chain, st)

\* The average price at which the book fills the close, or as much of it as the book has.
CexClosePrice(hop, in, st) ==
    LET rq == Request("tradeCEX", hop.from, hop.to, in, 0)
        sold == FilledAll(rq, st, in, InZeph)
        spent == FilledAll(rq, st, 10 * in, InCents)
    IN  IF ~st.hasCex \/ BookSide(rq, st) = {} THEN None
        ELSE IF Sells(rq) THEN Rounded(ForZeph(rq, st, in), sold)
        ELSE Rounded(100 * spent, ForCents(rq, st, 10 * in))

\* What the close gets of it, nothing where there was no answer.
CloseInput(leg, out) == IF out > 0 THEN Scaled(out, leg.open.to, leg.cex.from) ELSE 0

\* evaluate of calibrateSwapVsCex: the price of the pool against that of the exchange.
CexSample(leg, amount, quote, st) ==
    LET in == CloseInput(leg, quote.out)
        price == IF in > 0 THEN CexClosePrice(leg.cex, in, st) ELSE None
    IN  Sampled(amount, quote.price, price, quote.price - price, quote.out, {in})

EvaluateCexAmount(leg, amount, chain, st) ==
    CexSample(leg, amount, QuoteSwapOnchain(leg.open, amount, chain, st), st)

-----------------------------------------------------------------------------
(***************************************************************************)
(* The options.  sizing gives the amount a search settled for and the last *)
(* one it tried, in hundredths of the estimate.                            *)
(***************************************************************************)

\* buildRouteOutcome: known of both legs, or not at all.
Both(a, b) == {x + y : x \in a, y \in b}

RouteOutcome(flavor, amount, usd, open, close, target) ==
    [flavor |-> flavor, amount |-> amount, usd |-> usd, open |-> open, close |-> close,
     net |-> Both(open.net, close.net), cost |-> Both(open.cost, close.cost), target |-> target]

NoExecution == Execution(0, None, None, None, {})

ClosingOf(sample) == IF sample.closes = {} THEN NoExecution ELSE CHOOSE c \in sample.closes : TRUE

\* calibrateNativeRoute: the option of the sample the search chose.
CalibrateNativeRoute(leg, amount, usd, depth, chain, st) ==
    {RouteOutcome("native", amount, usd, s.open, ClosingOf(s),
                  ClampCalibrationPrice(s.middle, InitialPrice(leg.open, st), ReferencePrice(leg.native, st)))
        : s \in {EvaluateNativeAmount(leg, amount, depth, chain, st)}}

\* calibrateCexRoute: the close is sized by the last amount that was tried, not by the one that is
\* chosen; a search whose first sample has no gap, and a close of nothing, give no option.
CalibrateCexRoute(leg, tried, usd, depth, chain, st) ==
    LET sample(amount) == EvaluateCexAmount(leg, amount, chain, st)
        anchored(price) == ClampCalibrationPrice(price, InitialPrice(leg.open, st), ClipPrice(leg.cex.from, st))
    IN  {RouteOutcome("cex", tried.chosen, usd,
                      SimulateExecution(leg.open, tried.chosen, depth, chain, st),
                      CexExecution(leg.cex, in, st), anchored(s.middle))
            : s \in {r \in {sample(tried.chosen)} : r.known /\ sample(tried.first).known},
              in \in {n \in sample(tried.last).closes : n > 0}}

\* calibrateClipRoute.
CalibrateClipRoute(flavor, leg, tried, usd, depth, chain, st) ==
    IF flavor = "native" THEN CalibrateNativeRoute(leg, tried.chosen, usd, depth, chain, st)
    ELSE CalibrateCexRoute(leg, tried, usd, depth, chain, st)

ReferenceFor(flavor, leg, st) ==
    IF flavor = "native" THEN ReferencePrice(leg.native, st) ELSE ClipPrice(leg.cex.from, st)

\* calibrateRoute: an amount of nothing is refused, and without a reference price there is nothing to
\* calibrate to.
CalibrateRoute(flavor, leg, tried, depth, chain, st) ==
    LET usd == IF ClipPrice(leg.open.from, st) = None THEN None
               ELSE Worth(tried.chosen, leg.open.from, st)
    IN  IF tried.chosen > 0 /\ ReferenceFor(flavor, leg, st) # None
        THEN CalibrateClipRoute(flavor, leg, tried, usd, depth, chain, st) ELSE {}

\* A step whose asset can be had: with no hop at all, or else by a path, of an amount to try.
Preparable(leg, hop, depth, probe) ==
    \/ ProbeAmount(hop.from, hop.from, probe) > 0
    \/ \E c \in Candidates(leg, hop.from, depth) : ProbeAmount(c.source, hop.from, probe) > 0

Tried(estimate, sizing) ==
    [first |-> estimate, chosen |-> (estimate * sizing.chosen) \div 100,
     last |-> (estimate * sizing.last) \div 100]

OptionsFor(leg, estimate, sizing, depth, chain, st) ==
    LET prepared(hop) == Preparable(leg, hop, depth, [asset |-> leg.open.from, amount |-> estimate])
    IN  IF estimate = None \/ ~prepared(leg.open) THEN {}
        ELSE UNION {CalibrateRoute(f, leg, Tried(estimate, sizing), depth, chain, st) :
                       f \in {g \in Closes(leg) : prepared(CloseHop(leg, g))}}

\* buildClipScenario: of each close that can be prepared, when the opening can.
BuildClipScenario(leg, override, sizing, depth, chain, st) ==
    OptionsFor(leg, EstimateClipAmount(leg, override, st), sizing, depth, chain, st)
===============================================================================
