-------------------------------- MODULE Quoting --------------------------------
(***************************************************************************)
(* What an operation would give: the runtime gates                         *)
(* (src/domain/runtime) and the quotes behind them (src/domain/quoting and *)
(* the two quotes of src/domain/pathing/evaluator.ts), each for a given    *)
(* input or a wanted output.                                               *)
(*                                                                         *)
(* Amounts are atomic units, of which a coin has few: the proportions of   *)
(* the decimals are kept, not their size.  Prices are in cents, rates in   *)
(* hundredths.  A state of the markets is that of MarketAnalysis, with the *)
(* coins each pool holds (None when unknown) and whether it is fresh, the  *)
(* bridge's fees and minima in units, and the exchange's book.             *)
(***************************************************************************)
EXTENDS MarketAnalysis, FiniteSetsExt

Native == {Asset(c, "n") : c \in Coins}
Wrapped == {Asset(c, "e") : c \in Coins}

\* A pool's fee is in millionths of what is swapped.
WholeFee == 1000000

\* A state of the markets.  There is one pool to a pair, and a pool's fee is less than what is swapped.
IsMarket(st) ==
    /\ \A p \in st.pools :
        /\ \A n \in {p.price, p.inverse, p.totalBase, p.totalQuote, p.tvl} : n \in Int /\ n >= None
        /\ p.fee \in Nat /\ p.fee < WholeFee
    /\ \A p, q \in st.pools : {p.base, p.quote} = {q.base, q.quote} => p = q
    /\ st.hasReserve => \A c \in Coins : \A r \in {st.reserve.rates[c]} :
            r.spot \in Nat /\ r.mint \in Nat /\ r.redeem \in Nat
    /\ \A n \in {st.bid, st.ask, st.wrapFee, st.unwrapFee} : n \in Int /\ n >= None
    /\ st.wrapFee # None /\ st.unwrapFee # None

\* Units of a coin: 12 decimals on the Zephyr chain and wrapped, 8 and 6 elsewhere.
Units(asset) ==
    CASE asset[1] = "USDT" -> 10 [] asset = Asset("ZEPH", "x") -> 100 [] OTHER -> 1000

CeilDiv(n, d) == (n + d - 1) \div d

\* From the units of one asset to those of another, one for one.
Scaled(amount, from, to)   == (amount * Units(to)) \div Units(from)
ScaledUp(amount, from, to) == CeilDiv(amount * Units(to), Units(from))

-----------------------------------------------------------------------------
(***************************************************************************)
(* A request names an input or, with amountIn 0, a wanted output.  A quote *)
(* has the input it is for, what comes out before and after the fee, and   *)
(* whether its policy allows the operation.                                *)
(***************************************************************************)
Request(op, from, to, amountIn, amountOut) ==
    [op |-> op, from |-> from, to |-> to, amountIn |-> amountIn, amountOut |-> amountOut]

Quote(amountIn, gross, amountOut, fee, allowed) ==
    [amountIn |-> amountIn, gross |-> gross, amountOut |-> amountOut, fee |-> fee, allowed |-> allowed]

\* No quote, and a quote of nothing that no policy forbids.
NoQuote == Quote(0, 0, None, 0, FALSE)
Nothing(rq) == Quote(rq.amountIn, 0, 0, 0, TRUE)

-----------------------------------------------------------------------------
(* The bridge *)

WrapEnabled(from, to, st) ==
    st.hasBridge /\ from \in Native /\ to = Asset(from[1], "e")

UnwrapEnabled(from, to, st) ==
    st.hasBridge /\ from \in Wrapped /\ to = Asset(from[1], "n")

\* A flat fee comes off what is received, and may take it all.
QuoteBridgeOperation(rq, st) ==
    LET fee    == IF rq.op = "wrap" THEN Scaled(st.wrapFee, rq.from, rq.to) ELSE st.unwrapFee
        least  == IF rq.op = "wrap" THEN st.minWrap ELSE st.minUnwrap
        used   == IF rq.amountIn > 0 THEN rq.amountIn
                  ELSE ScaledUp(rq.amountOut + fee, rq.to, rq.from)
        gross  == Scaled(used, rq.from, rq.to)
        net    == Larger(0, gross - fee)
    IN  Quote(used, gross, net, IF rq.op = "wrap" THEN st.wrapFee ELSE Smaller(fee, gross),
              used >= least /\ net > 0)

-----------------------------------------------------------------------------
(* Conversions on the Zephyr chain *)

Minted == {<<"ZEPH", "ZSD">>, <<"ZEPH", "ZRS">>, <<"ZSD", "ZYS">>}
Redeemed == {<<"ZSD", "ZEPH">>, <<"ZRS", "ZEPH">>, <<"ZYS", "ZSD">>}

NativePair(op, from, to) ==
    /\ from[2] = "n" /\ to[2] = "n"
    /\ <<from[1], to[1]>> \in IF op = "nativeMint" THEN Minted ELSE Redeemed

NativeMintEnabled(from, to, st) ==
    /\ NativePair("nativeMint", from, to)
    /\ to[1] = "ZSD" => st.reserve.policy.zsdMintable
    /\ to[1] = "ZRS" => st.reserve.policy.zrsMintable

NativeRedeemEnabled(from, to, st) ==
    /\ NativePair("nativeRedeem", from, to)
    /\ from[1] = "ZRS" => st.reserve.policy.zrsRedeemable

\* The coin whose rate it is, and its fee in basis points.
RateCoin(rq) == IF rq.op = "nativeMint" THEN rq.to[1] ELSE rq.from[1]
NativeFee(coin) == IF coin = "ZRS" THEN 100 ELSE 10

\* Mutant: the rates of minting and redeeming change places.
OtherRate(rq, st) ==
    LET rate == st.reserve.rates[RateCoin(rq)]
    IN  IF rq.op = "nativeMint" THEN rate.redeem ELSE rate.mint

NativeRate(rq, st) ==
    LET rate == st.reserve.rates[RateCoin(rq)]
    IN  IF rq.op = "nativeMint" THEN rate.mint ELSE rate.redeem

AfterFee(gross, bps) == (gross * (10000 - bps)) \div 10000

(***************************************************************************)
(* What the conversion would do to the reserve ratio, spot or averaged: a  *)
(* ratio in percent and ZSD in coins make assets in cents.                 *)
(***************************************************************************)
MintEffect(rq, in, out, ratio, price, st) ==
    [zsd    |-> 1000 * st.zsdCirc + (IF rq.to = Asset("ZSD", "n") THEN out ELSE 0),
     assets |-> 1000 * ratio * st.zsdCirc + in * price]

\* Nothing is less than nothing.
RedeemEffect(rq, in, out, ratio, price, st) ==
    [zsd    |-> Larger(0, 1000 * st.zsdCirc - (IF rq.from = Asset("ZSD", "n") THEN in ELSE 0)),
     assets |-> Larger(0, 1000 * ratio * st.zsdCirc - out * price)]

\* Bounds on the new ratio.  Liabilities of nothing leave the old one, and so does a redemption that
\* leaves no assets.
RatioAllows(rq, in, out, ratio, price, st) ==
    LET effect == IF rq.op = "nativeMint" THEN MintEffect(rq, in, out, ratio, price, st)
                                          ELSE RedeemEffect(rq, in, out, ratio, price, st)
        liabilities == effect.zsd
        assets == effect.assets
        kept == liabilities = 0 \/ (rq.op = "nativeRedeem" /\ assets = 0)
        least == IF kept THEN ratio >= 400 ELSE assets >= 400 * liabilities
        most  == IF kept THEN ratio <= 800 ELSE assets <= 800 * liabilities
    IN  /\ (rq.op = "nativeMint" \/ rq.from = Asset("ZRS", "n")) => least
        /\ rq.to = Asset("ZRS", "n") => most

ComputeNativeNetworkEffect(rq, in, out, st) ==
    LET zeph == st.reserve.rates.ZEPH
    IN  /\ RatioAllows(rq, in, out, st.reserve.ratio, zeph.spot, st)
        /\ RatioAllows(rq, in, out, st.reserve.ratioMa,
                       IF zeph.ma = None THEN zeph.spot ELSE zeph.ma, st)

\* What amountIn units convert to, and what must be put in for a gross output.
Converts(rq, st) ==
    LET rate == NativeRate(rq, st)
    IN  IF rq.op = "nativeMint" THEN (rq.amountIn * 100) \div rate ELSE (rq.amountIn * rate) \div 100

Requires(rq, gross, st) ==
    LET rate == NativeRate(rq, st)
    IN  IF rq.op = "nativeMint" THEN CeilDiv(gross * rate, 100) ELSE CeilDiv(gross * 100, rate)

QuoteNativeOperation(rq, enabled, st) ==
    LET bps   == NativeFee(RateCoin(rq))
        exact == rq.amountIn > 0
        gross == IF exact THEN Converts(rq, st) ELSE CeilDiv(rq.amountOut * 10000, 10000 - bps)
        net   == IF exact THEN AfterFee(gross, bps) ELSE rq.amountOut
        used  == IF exact THEN rq.amountIn ELSE Requires(rq, gross, st)
    IN  IF NativeRate(rq, st) = 0 THEN NoQuote
        ELSE IF net = 0 THEN Nothing(rq)
        ELSE Quote(used, gross, net, gross - net,
                   enabled /\ ComputeNativeNetworkEffect(rq, used, net, st))

-----------------------------------------------------------------------------
(* Swaps in a pool *)

PriceFrom(pool, from) == IF pool.base = from THEN pool.price ELSE pool.inverse
HeldOf(pool, asset)   == IF pool.base = asset THEN pool.totalBase ELSE pool.totalQuote

\* resolvePoolContext, isPoolFresh and the totals, as buildContext asks for them.
SwapContext(from, to, st) ==
    {p \in st.pools : {p.base, p.quote} = {from, to} /\ p.fresh /\ p.totalBase # 0 /\ p.totalQuote # 0}

SwapEnabled(from, to, st) ==
    \E p \in SwapContext(from, to, st) : PriceFrom(p, from) > 0

PoolFeeBps(pool) == pool.fee \div 100

FeeOn(pool, amount) == (amount * PoolFeeBps(pool)) \div 10000

OutByReserves(pool, from, to, amountIn) ==
    LET in == amountIn - FeeOn(pool, amountIn)
    IN  (in * HeldOf(pool, to) * Units(to)) \div (HeldOf(pool, from) * Units(from) + in)

OutByPrice(pool, from, to, amountIn) ==
    Rounded((amountIn - FeeOn(pool, amountIn)) * PriceFrom(pool, from) * Units(to),
            100 * Units(from))

ReservesKnown(pool) == pool.totalBase # None /\ pool.totalQuote # None

\* The price of the reserves is more than 5% off the price of the pool.
Diverges(pool, from, to) ==
    LET byPrice == PriceFrom(pool, from) * HeldOf(pool, from)
    IN  20 * Abs(100 * HeldOf(pool, to) - byPrice) > byPrice

\* The reserves, unless they give nothing or are too far from the price.
OutExactIn(pool, from, to, amountIn) ==
    LET byReserves == OutByReserves(pool, from, to, amountIn)
        byPrice == OutByPrice(pool, from, to, amountIn)
    IN  IF ~ReservesKnown(pool) \/ byReserves = 0 THEN byPrice
        ELSE IF Diverges(pool, from, to) /\ byPrice > 0 THEN byPrice ELSE byReserves

\* Mutant: what must be put in is not raised by the fee.
FirstTryWithoutFee(pool, after) == after

\* The input that leaves at least "after" when its fee is off.
FirstTry(pool, after) == CeilDiv(after * 10000, 10000 - PoolFeeBps(pool))

\* The loops that add a unit until the output is there.
Slack == 3

LeastInput(first, wanted, Out(_)) ==
    LET enough == {n \in first..(first + Slack) : Out(n) >= wanted}
    IN  IF enough = {} THEN None ELSE Min(enough)

InExactOut(pool, from, to, wanted) ==
    LET in == HeldOf(pool, from) * Units(from)
        out == HeldOf(pool, to) * Units(to)
        byReserves(n) == OutByReserves(pool, from, to, n)
        byPrice(n) == OutByPrice(pool, from, to, n)
    IN  IF ReservesKnown(pool) /\ out > wanted
        THEN LeastInput(FirstTry(pool, CeilDiv(wanted * in, out - wanted)), wanted, byReserves)
        ELSE LeastInput(FirstTry(pool, CeilDiv(wanted * 100 * Units(from),
                                               PriceFrom(pool, from) * Units(to))), wanted, byPrice)

QuoteSwapState(rq, st) ==
    IF ~SwapEnabled(rq.from, rq.to, st) THEN NoQuote
    ELSE LET pool == CHOOSE p \in SwapContext(rq.from, rq.to, st) : PriceFrom(p, rq.from) > 0
             used == IF rq.amountIn > 0 THEN rq.amountIn
                     ELSE InExactOut(pool, rq.from, rq.to, rq.amountOut)
             out  == IF rq.amountIn > 0 THEN OutExactIn(pool, rq.from, rq.to, used)
                     ELSE IF ReservesKnown(pool) /\ HeldOf(pool, rq.to) * Units(rq.to) > rq.amountOut
                     THEN OutByReserves(pool, rq.from, rq.to, used)
                     ELSE OutByPrice(pool, rq.from, rq.to, used)
         IN  IF used = None THEN Nothing(rq) ELSE Quote(used, 0, out, FeeOn(pool, used), TRUE)

-----------------------------------------------------------------------------
(***************************************************************************)
(* A trade on the exchange walks the book.  Levels are sets of records of  *)
(* price (cents) and amount (coins), one to a price; what a level gives is *)
(* what better levels have left to be filled.                              *)
(***************************************************************************)
CexMarket == {Asset("ZEPH", "x"), Asset("USDT", "x")}

Sells(rq) == rq.from = Asset("ZEPH", "x")

BookSide(rq, st) == IF Sells(rq) THEN st.bids ELSE st.asks

\* hasUsableDepth, of the side the trade takes: bids for ZEPH, asks for USDT.
HasUsableDepth(rq, st) ==
    \E level \in (IF rq.from = Asset("ZEPH", "x") THEN st.bids ELSE st.asks) :
        level.price > 0 /\ level.amount > 0

TradeEnabled(rq, st) ==
    st.hasCex /\ {rq.from, rq.to} = CexMarket /\ st.cexFresh /\ HasUsableDepth(rq, st)

\* depositRuntime and withdrawRuntime: the exchange is known, whatever its age.
TransferEnabled(st) == st.hasCex

Betters(rq, st, level) ==
    {l \in BookSide(rq, st) : IF Sells(rq) THEN l.price > level.price ELSE l.price < level.price}

\* What a level can take: units of ZEPH, or cents.
InZeph(l)  == 100 * l.amount
InCents(l) == l.price * l.amount

Filled(rq, st, level, need, Size(_)) ==
    Larger(0, Smaller(Size(level), need - MapThenSumSet(Size, Betters(rq, st, level))))

FilledAll(rq, st, need, Size(_)) ==
    LET fill(l) == Filled(rq, st, l, need, Size)
    IN  MapThenSumSet(fill, BookSide(rq, st))

\* Hundredths of a cent for so many units of ZEPH, and units of ZEPH for so many cents; only the
\* last level that is touched leaves a fraction.
ForZeph(rq, st, need) ==
    LET worth(l) == Filled(rq, st, l, need, InZeph) * l.price
    IN  MapThenSumSet(worth, BookSide(rq, st))

ForCents(rq, st, need) ==
    LET zeph(l) == Rounded(100 * Filled(rq, st, l, need, InCents), l.price)
    IN  MapThenSumSet(zeph, BookSide(rq, st))

\* The fee comes off the output also when the output was asked for; depth that is missing makes
\* the quote one of nothing.
QuoteCexTrade(rq, st) ==
    LET exact  == rq.amountIn > 0
        amount == IF exact THEN rq.amountIn ELSE rq.amountOut
        byZeph == Sells(rq) = exact
        need   == IF byZeph THEN amount ELSE 10 * amount
        filled == IF byZeph THEN FilledAll(rq, st, need, InZeph) ELSE FilledAll(rq, st, need, InCents)
        other  == IF byZeph THEN Rounded(ForZeph(rq, st, need), 1000) ELSE ForCents(rq, st, need)
        gross  == IF exact THEN other ELSE amount
        net    == Rounded(gross * (10000 - st.takerBps), 10000)
    IN  IF ~st.hasCex \/ {rq.from, rq.to} # CexMarket \/ filled < need
        THEN Quote(rq.amountIn, 0, 0, 0, FALSE)
        ELSE Quote(IF exact THEN amount ELSE other, gross, net, gross - net,
                   TradeEnabled(rq, st) /\ net > 0)

-----------------------------------------------------------------------------
(* Deposits and withdrawals *)

QuoteDeposit(rq, st) ==
    LET out == Scaled(rq.amountIn, rq.from, rq.to)
    IN  Quote(rq.amountIn, out, out, 0, TRUE)

\* A withdrawal carries the number over, whatever the decimals on both sides.
QuoteWithdraw(rq, st) ==
    LET fee == st.withdrawFee[rq.from[1]]
        net == Larger(0, rq.amountIn - fee)
    IN  Quote(rq.amountIn, rq.amountIn, net, fee, net > 0)

-----------------------------------------------------------------------------
(* By operation *)

\* enabled of each runtime.
RuntimeEnabled(op, from, to, st) ==
    CASE op = "swapEVM"      -> SwapEnabled(from, to, st)
      [] op = "wrap"         -> WrapEnabled(from, to, st)
      [] op = "unwrap"       -> UnwrapEnabled(from, to, st)
      [] op = "nativeMint"   -> NativeMintEnabled(from, to, st)
      [] op = "nativeRedeem" -> NativeRedeemEnabled(from, to, st)
      [] op = "tradeCEX"     -> TradeEnabled(Request(op, from, to, 0, 0), st)
      [] op \in {"deposit", "withdraw"} -> TransferEnabled(st)

\* buildContext of each runtime gives one.
ContextAvailable(op, from, to, st) ==
    CASE op = "swapEVM"      -> SwapContext(from, to, st) # {}
      [] op = "wrap"         -> WrapEnabled(from, to, st)
      [] op = "unwrap"       -> UnwrapEnabled(from, to, st)
      [] op \in {"nativeMint", "nativeRedeem"} ->
            NativePair(op, from, to) /\ NativeRate(Request(op, from, to, 0, 0), st) # 0
      [] op = "tradeCEX"     -> st.hasCex /\ {from, to} = CexMarket
      [] op \in {"deposit", "withdraw"} -> TransferEnabled(st)

\* invokeQuoter: native conversions are quoted whether or not the reserve allows them.
InvokeQuoter(rq, st) ==
    CASE rq.op = "swapEVM" -> QuoteSwapState(rq, st)
      [] rq.op \in {"wrap", "unwrap"} -> QuoteBridgeOperation(rq, st)
      [] rq.op \in {"nativeMint", "nativeRedeem"} ->
            QuoteNativeOperation(rq, RuntimeEnabled(rq.op, rq.from, rq.to, st), st)
      [] rq.op = "tradeCEX" -> QuoteCexTrade(rq, st)
      [] rq.op = "deposit"  -> QuoteDeposit(rq, st)
      [] rq.op = "withdraw" -> QuoteWithdraw(rq, st)
===============================================================================
