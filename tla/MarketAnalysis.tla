---------------------------- MODULE MarketAnalysis ----------------------------
(***************************************************************************)
(* What the strategies read of the markets: the reserve's rates and policy *)
(* (src/domain/zephyr/reserve.ts) and the gap between the price of a       *)
(* wrapped asset in its pool and its reference price                       *)
(* (src/domain/arbitrage/analysis.ts).                                     *)
(*                                                                         *)
(* Prices are whole numbers of cents, None where the code has null.        *)
(***************************************************************************)
EXTENDS Integers, FiniteSets

None == -1

\* An asset is a coin at a place: "e" (wrapped, on the EVM chain), "n" (native), "x" (exchange).
Asset(coin, at) == <<coin, at>>

Coins == {"ZEPH", "ZSD", "ZRS", "ZYS"}

Larger(a, b)  == IF a >= b THEN a ELSE b
Smaller(a, b) == IF a <= b THEN a ELSE b

Abs(n) == IF n < 0 THEN -n ELSE n

\* Math.round of n / d, for positive d.
Rounded(n, d) == (2 * n + d) \div (2 * d)

-----------------------------------------------------------------------------
(***************************************************************************)
(* The reserve.  A rate has a spot price and a moving average, which may   *)
(* be missing; minting is quoted at the dearer, redeeming at the cheaper.  *)
(***************************************************************************)
Rate(spot, ma) ==
    LET reference == IF ma = None THEN spot ELSE ma
    IN  [spot |-> spot, ma |-> ma, mint |-> Larger(spot, reference),
         redeem |-> Smaller(spot, reference)]

\* Ratios in percent.
Policy(ratio, ratioMa) ==
    LET healthy == ratio >= 400 /\ ratioMa >= 400
    IN  [zsdMintable   |-> healthy,
         zsdRedeemable |-> TRUE,
         zrsMintable   |-> healthy /\ ratio <= 800 /\ ratioMa <= 800,
         zrsRedeemable |-> healthy]

\* rates: a record of Rate for ZEPH (in USD), ZSD and ZRS (in ZEPH) and ZYS (in ZSD).
MapReserveInfo(ratio, ratioMa, rates) ==
    [ratio |-> ratio, ratioMa |-> ratioMa, rates |-> rates,
     policy |-> Policy(ratio, ratioMa)]

Times(a, b) == IF a = None \/ b = None THEN None ELSE (a * b) \div 100

SpotUsd(coin, rates) ==
    CASE coin = "ZEPH" -> rates.ZEPH.spot
      [] coin \in {"ZSD", "ZRS"} -> Times(rates[coin].spot, rates.ZEPH.spot)
      [] coin = "ZYS" -> Times(rates.ZYS.spot, Times(rates.ZSD.spot, rates.ZEPH.spot))

-----------------------------------------------------------------------------
(***************************************************************************)
(* Pools are records with base, quote, price, inverse, fee (in millionths) *)
(* and whether their address is known; there is one to a pair.             *)
(***************************************************************************)
Reciprocal(price) == IF price > 0 THEN 10000 \div price ELSE None

ReadPoolPrice(pools, a, b) ==
    LET hits == {p \in pools : {p.base, p.quote} = {a, b}}
        pool == CHOOSE p \in hits : TRUE
    IN  IF hits = {} THEN None
        ELSE IF pool.base = a THEN pool.price
        ELSE IF pool.inverse # None THEN pool.inverse
        ELSE Reciprocal(pool.price)

QuoteOf(coin) ==
    CASE coin = "ZSD" -> "USDT" [] coin \in {"ZEPH", "ZYS"} -> "ZSD" [] coin = "ZRS" -> "ZEPH"

(***************************************************************************)
(* A state of the markets has pools, a reserve (possibly none) and the bid *)
(* and ask of the exchange.  The quote currency of a pool is turned into   *)
(* dollars by the WZSD pool, or the reserve, or the price of ZEPH.         *)
(***************************************************************************)
WzsdUsd(st) ==
    LET price == ReadPoolPrice(st.pools, Asset("ZSD", "e"), Asset("USDT", "e"))
    IN  IF price # None THEN price
        ELSE IF st.hasReserve THEN SpotUsd("ZSD", st.reserve.rates) ELSE None

DexPriceUsd(coin, st) ==
    LET price == ReadPoolPrice(st.pools, Asset(coin, "e"), Asset(QuoteOf(coin), "e"))
    IN  CASE coin = "ZSD" -> price
          [] coin \in {"ZEPH", "ZYS"} -> Times(price, WzsdUsd(st))
          [] coin = "ZRS" -> Times(price, IF st.hasReserve THEN st.reserve.rates.ZEPH.spot
                                          ELSE None)

\* The average of what there is of bid and ask.
CexPrice(st) ==
    IF st.bid # None /\ st.ask # None THEN (st.bid + st.ask) \div 2
    ELSE IF st.bid # None THEN st.bid ELSE st.ask

ReferenceUsd(coin, st) ==
    CASE coin = "ZSD" -> 100
      [] coin = "ZEPH" /\ CexPrice(st) # None -> CexPrice(st)
      [] OTHER -> IF st.hasReserve THEN SpotUsd(coin, st.reserve.rates) ELSE None

TriggerBps(coin) ==
    CASE coin = "ZSD" -> 12 [] coin = "ZYS" -> 30 [] coin \in {"ZEPH", "ZRS"} -> 100

GapKnown(dexUsd, referenceUsd) == dexUsd # None /\ referenceUsd # None /\ referenceUsd # 0

GapBps(dexUsd, referenceUsd) == Rounded((dexUsd - referenceUsd) * 10000, referenceUsd)

ResolveDirection(gapBps, triggerBps) ==
    CASE gapBps >= triggerBps  -> "evm_premium"
      [] gapBps <= -triggerBps -> "evm_discount"
      [] OTHER -> "aligned"

\* The gap of one asset: 0 and aligned where a price is missing.
AnalyzeArbMarket(coin, st) ==
    LET dex == DexPriceUsd(coin, st)
        reference == ReferenceUsd(coin, st)
        gap == IF GapKnown(dex, reference) THEN GapBps(dex, reference) ELSE 0
    IN  [gapBps |-> gap,
         direction |-> IF GapKnown(dex, reference) THEN ResolveDirection(gap, TriggerBps(coin))
                       ELSE "aligned"]
===============================================================================
