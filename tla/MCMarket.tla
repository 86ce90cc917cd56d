------------------------------- MODULE MCMarket -------------------------------
(***************************************************************************)
(* An instance of Market: markets whose prices agree, the questions put to *)
(* the quotes, paths and plans, and the strategies' world.                 *)
(***************************************************************************)
EXTENDS Market

-----------------------------------------------------------------------------
(* A market whose prices agree with each other *)

Pool(base, quote, cents, inverse, totals) ==
    [base |-> A!Asset(base, "e"), quote |-> A!Asset(quote, "e"), price |-> cents,
     inverse |-> inverse, fee |-> 3000, address |-> TRUE, fresh |-> TRUE,
     totalBase |-> totals[1], totalQuote |-> totals[2], tvl |-> None]

Rates(zephMa, zsdMa) ==
    [ZEPH |-> A!Rate(80, zephMa), ZSD |-> A!Rate(125, zsdMa), ZRS |-> A!Rate(250, 250),
     ZYS |-> A!Rate(150, 150)]

Agreeing(pools, rates, ratio) ==
    [pools |-> pools, hasReserve |-> TRUE, reserve |-> A!MapReserveInfo(ratio, ratio, rates),
     zsdCirc |-> 100, hasBridge |-> TRUE, wrapFee |-> 0, unwrapFee |-> 10,
     minWrap |-> 20, minUnwrap |-> 20, hasCex |-> TRUE, cexFresh |-> TRUE, bid |-> 80, ask |-> 80,
     bids |-> {[price |-> 80, amount |-> 3], [price |-> 79, amount |-> 9]},
     asks |-> {[price |-> 80, amount |-> 3], [price |-> 81, amount |-> 9]},
     takerBps |-> 10, withdrawFee |-> [ZEPH |-> 1, USDT |-> 1], gas |-> 1]

Pools == {Pool("ZSD", "USDT", 100, 100, <<20, 20>>), Pool("ZEPH", "ZSD", 80, 125, <<50, 40>>),
          Pool("ZYS", "ZSD", 150, 66, <<20, 30>>), Pool("ZRS", "ZEPH", 250, 40, <<10, 25>>)}

\* Reserves known and not; the averages where the spot prices are and not; the policies open and shut.
Unmeasured == {[p EXCEPT !.totalBase = None, !.tvl = IF p.base[1] = "ZYS" THEN None ELSE 40] : p \in Pools}
Calm  == Agreeing(Pools, Rates(80, 125), 500)
Moved == Agreeing(Unmeasured, Rates(90, 110), 500)
Stressed == Agreeing(Pools, Rates(80, 125), 300)

-----------------------------------------------------------------------------
(* The questions *)

\* Exact outputs: of a chain whose reserves say how much there is, or do not.
MCQuoteCases ==
    {c \in [hop : {h \in A!Hops : h.op \notin {"tradeCEX", "deposit", "withdraw"}},
            wanted : 1..12 \cup {77, 150, 777, 1000}, st : {Calm, Moved}] :
        /\ A!ContextAvailable(c.hop.op, c.hop.from, c.hop.to, c.st)
        /\ \A p \in A!SwapContext(c.hop.from, c.hop.to, c.st) :
              A!ReservesKnown(p) => A!HeldOf(p, c.hop.to) * A!Units(c.hop.to) > c.wanted}

MCPathCases == [from : A!Assets, to : A!Assets, coins : {2}, st : {Calm, Moved}]

\* Coins in each wallet, and which of them are on paper or cannot be read.
Worlds ==
    [configured : {TRUE}, evmFails : {FALSE}, unreadable : {{A!Asset("ZRS", "e")}}, evm : {9},
     mexcPaper : {TRUE}, zephyrPaper : BOOLEAN, cexFails : BOOLEAN, zephyrFails : {FALSE},
     hasPaper : {TRUE}, paperZephyr : {6}, paperCex : {6}, cex : {0, 9}, locked : {6}, unlocked : {1, 9}]
    \cup
    [configured : BOOLEAN, evmFails : BOOLEAN, unreadable : {{}}, evm : {9}, mexcPaper : {FALSE},
     zephyrPaper : {FALSE}, cexFails : {FALSE}, zephyrFails : BOOLEAN, hasPaper : {FALSE},
     paperZephyr : {6}, paperCex : {6}, cex : {9}, locked : {6}, unlocked : {9}]

\* What the chain says beside the state, and the amounts the searches for a clip tried.
Silent == [quote |-> None, trace |-> None]
Chains == {Silent, [quote |-> 100, trace |-> None], [quote |-> 90, trace |-> 95]}

Sized(chosen, last) == [chosen |-> chosen, last |-> last]

PlanCase(legs, override, st, sizing, chain) ==
    [leg : legs, override : {override}, w : Worlds, st : st, sizing : {sizing}, chain : chain]

BothCloses == {l \in A!ArbDefs : l.cex # A!NoHop}

MCPlanCases ==
    PlanCase({l \in A!ArbDefs : l.open.from # A!Usdt("e")}, 0, {Calm}, Sized(100, 100), {Silent})
    \cup PlanCase(BothCloses, 2000, {Calm}, Sized(100, 100), {Silent})
    \cup PlanCase(BothCloses, 0, {Calm, Stressed}, Sized(50, 200), Chains)
    \cup PlanCase({l \in A!ArbDefs : l.open.from # A!Usdt("e")}, 0, {Moved}, Sized(100, 100), {Silent})

PoolRows == [price : {None, 0, 20}, inverse : {None, 5}, tvl : {None, 7}, swapAt : {None, 1}]

MCPoolCases == {<<a, b>> : a, b \in PoolRows} \cup {<<a, b, a>> : a, b \in PoolRows}

\* A band to be seeded, or the way from one price to another through two positions.
\* The square root of the price doubles from tick to tick; the roots asked about divide Scale.
MCRootAt == [t \in -4..4 |-> 2 ^ (t + 4)]
Roots == {4, 6, 8, 12, 16, 24, 32, 48, 64}

LpPositions == {p \in [lower : -2..2, upper : -2..2, liquidity : {1, 3}] : p.lower < p.upper}

MCBandCases ==
    [sqrt : Roots, band : {2, 4}, spacing : {1, 2}, budget : {1, 5, 40, 100}, quoteIsToken1 : BOOLEAN]

MCDepthCases ==
    {d \in [positions : {<<p, q>> : p, q \in LpPositions}, sqrt : Roots, goal : Roots, decimals : {0}] :
        d.sqrt < d.goal /\ d.goal <= 3 * d.sqrt}

-----------------------------------------------------------------------------
(* The strategies' world *)

MCHoldings == [e : {0, 30, 100}, n : {0, 20, 70}, x : {0, 90}]

StrategyPool(base, quote, cents) ==
    [base |-> A!Asset(base, "e"), quote |-> A!Asset(quote, "e"), price |-> cents,
     inverse |-> A!Reciprocal(cents), fee |-> 3000, address |-> TRUE]

StrategyMarket(zeph, zsd, zrs, zys, ratio, ratioMa, hasCex) ==
    [pools |-> {StrategyPool("ZEPH", "ZSD", zeph), StrategyPool("ZSD", "USDT", zsd),
                StrategyPool("ZRS", "ZEPH", zrs), StrategyPool("ZYS", "ZSD", zys)},
     hasReserve |-> TRUE,
     reserve |-> A!MapReserveInfo(ratio, ratioMa,
                    [ZEPH |-> A!Rate(80, 81), ZSD |-> A!Rate(125, 120), ZRS |-> A!Rate(250, 240),
                     ZYS |-> A!Rate(110, None)]),
     hasCex |-> hasCex, bid |-> 79, ask |-> 81, takerBps |-> 10, unwrapFeeBps |-> 100, wrapFeeBps |-> 0]

MCMarkets ==
    {StrategyMarket(zeph, zsd, zrs, zys, ratio, ratioMa, hasCex) :
        zeph \in {60, 80, 100}, zsd \in {95, 105}, zrs \in {200, 350}, zys \in {95, 130},
        ratio \in {100, 300, 900}, ratioMa \in {300, 500}, hasCex \in BOOLEAN}

MCLpMarkets ==
    {StrategyMarket(80, 100, 250, 110, ratio, ratio, TRUE) : ratio \in {100, 300, 500}}
    \cup {[StrategyMarket(80, 100, 250, 110, 500, 500, TRUE) EXCEPT !.hasReserve = FALSE]}

\* One position, in a pool whose last price is known or not; two of one pool, for which the
\* table LPPosition has fees; and a book that cannot be read.
StablePool == {"ZSD", "USDT"}
ZrsPool == {"ZRS", "ZEPH"}

Row(pool, lower, upper, fees, id) ==
    [pool |-> pool, lower |-> lower, upper |-> upper, fees |-> fees, id |-> id]

Book(positions, apps, ticks) ==
    [owner |-> TRUE, fails |-> FALSE, rows |-> positions, apps |-> apps, ticks |-> ticks]

MCBooks ==
    {Book(<<Row(pool, lower, upper, fees, id)>>, <<>>, ticks) :
        pool \in {StablePool, ZrsPool}, lower \in {-9000, -3000, -1000, -203},
        upper \in {-100, 198, 1800, 4000}, fees \in {0, 60}, id \in {A!None, 7},
        ticks \in {<<>>, [p \in {ZrsPool} |-> -300]}}
    \cup {Book(<<Row(ZrsPool, -3000, 1800, 0, 7), Row(ZrsPool, -1000, 4000, 60, 8)>>,
               [p \in {ZrsPool} |-> 70], <<>>)}
    \cup {[Book(<<Row(ZrsPool, -3000, 1800, 60, 7)>>, <<>>, <<>>) EXCEPT !.owner = owner, !.fails = owner] :
            owner \in BOOLEAN}

MCLeastTick == -12000

MCGaps == {-4, -2, -1, 1, 3, 5}

\* What the paper account may be reset with: the route asks for no sign.
MCOpenings ==
    {[ZEPH |-> 2, USDT |-> 4000], [ZEPH |-> 0, USDT |-> 4000], [ZEPH |-> -1, USDT |-> 3000]}

\* Two that would take of the same row.
MCTransfers == {<<"ZEPH", <<"native", "evm">>, 2>>, <<"ZEPH", <<"native", "cex">>, 2>>}

MCAmounts == {-1, 1, 3}

MCRatios == [h \in 0..1 |-> IF h = 0 THEN <<399, 800>> ELSE <<400, 801>>]
===============================================================================
