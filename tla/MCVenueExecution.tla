--------------------------- MODULE MCVenueExecution ---------------------------
(***************************************************************************)
(* The plans that the strategies build in a market where everything is     *)
(* worth a dollar, and in one where it is not, executed at the venues.     *)
(***************************************************************************)
EXTENDS VenueExecution

S == INSTANCE Strategies

Pool(base, quote, cents) ==
    [base |-> S!Asset(base, "e"), quote |-> S!Asset(quote, "e"), price |-> cents,
     inverse |-> S!Reciprocal(cents), fee |-> 3000, address |-> TRUE]

\* A market at par and one that is not: cents for a coin in its pool, and its rate in the reserve.
AtPar == [pool |-> [c \in S!Coins |-> 100], rates |-> [c \in S!Coins |-> S!Rate(100, 100)]]

OffPar ==
    [pool  |-> [ZEPH |-> 78, ZSD |-> 101, ZRS |-> 245, ZYS |-> 112],
     rates |-> [ZEPH |-> S!Rate(80, 90), ZSD |-> S!Rate(125, 120), ZRS |-> S!Rate(250, 240),
                ZYS |-> S!Rate(110, S!None)]]

Market(prices, ratio) ==
    [pools |-> {Pool(c, S!QuoteOf(c), prices.pool[c]) : c \in S!Coins}, hasReserve |-> TRUE,
     reserve |-> S!MapReserveInfo(ratio, ratio, prices.rates), hasCex |-> TRUE, bid |-> 99, ask |-> 101,
     takerBps |-> 10, unwrapFeeBps |-> UnwrapFeeBps, wrapFeeBps |-> 0]

\* Every leg, closed on the native chain and, with a poor reserve, on the exchange; and an open
\* swap whose pool is not known.
ArbSteps(leg, st) == S!ArbPlan(S!ArbOpportunity(leg, S!LegAnalysis(leg, st)), st).steps

ArbPlans ==
    {ArbSteps(leg, Market(prices, ratio)) :
        leg \in S!ArbDefs, prices \in {AtPar, OffPar}, ratio \in {500, 300}}
    \cup {ArbSteps(leg, [Market(AtPar, 500) EXCEPT !.pools = {}]) :
            leg \in {l \in S!ArbDefs : l.asset = "ZYS"}}

Held(e, n, x) == [e |-> e, n |-> n, x |-> x]

Holdings == {Held(100, 0, 0), Held(0, 100, 0), Held(0, 0, 100), Held(50, 50, 0), Held(30, 70, 0),
             Held(30, 30, 40), Held(10, 50, 40)}

RebalancePlans ==
    {S!RebalancePlan(S!RebalanceOpportunity(c, b, "normal")).steps :
        c \in {"ZEPH", "ZRS", "USDT"}, b \in {h \in Holdings : S!NeedsRebalance("ZEPH", h)}}

ZephPool == S!Asset("ZEPH", "e")

LpPlans ==
    {S!LpSteps(action, ZephPool, TRUE, known, [lower |-> -2000, upper |-> 2000],
               S!RecommendedRange("ZEPH", "normal", [lower |-> -2000, upper |-> 2000])) :
        action \in {"collect_fees", "reposition"}, known \in BOOLEAN}

AllPlans == ArbPlans \cup RebalancePlans \cup LpPlans

AllAssets == {S!Asset(c, v) : c \in S!Coins \cup {"USDT"}, v \in {"e", "n", "x"}}

Inventory == [a \in AllAssets |-> IF a = S!Asset("ZRS", "n") THEN 100 ELSE 2000]

AroundEstimate == {-1, 0, 1}
===============================================================================
