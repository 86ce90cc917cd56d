-------------------------------- MODULE Pathing --------------------------------
(***************************************************************************)
(* Ways from one asset to another (src/domain/inventory/graph.ts), what    *)
(* each would give and how they are ranked (src/domain/pathing), and the   *)
(* candidates that bring a leg of an arbitrage what it needs               *)
(* (src/domain/arbitrage/routing.ts).                                      *)
(*                                                                         *)
(* A path is a sequence of hops.  inventory is a function from the assets  *)
(* whose balance is known to units.  gas of a state is what a swap costs,  *)
(* in cents.                                                               *)
(***************************************************************************)
EXTENDS Quoting, Strategies

Ether == Asset("ETH", "e")
Usdt(at) == Asset("USDT", at)

\* ASSET_STEPS: every hop, with its place in the list of those that leave the same asset.
Listed(from, hops) == {[hop |-> Hop(from, hops[i][2], hops[i][1]), rank |-> i] : i \in DOMAIN hops}

AssetSteps == UNION {
    Listed(Asset("ZEPH", "n"), <<<<"wrap", Asset("ZEPH", "e")>>, <<"deposit", Asset("ZEPH", "x")>>,
           <<"nativeMint", Asset("ZSD", "n")>>, <<"nativeMint", Asset("ZRS", "n")>>>>),
    Listed(Asset("ZSD", "n"), <<<<"wrap", Asset("ZSD", "e")>>, <<"nativeRedeem", Asset("ZEPH", "n")>>,
           <<"nativeMint", Asset("ZYS", "n")>>>>),
    Listed(Asset("ZRS", "n"), <<<<"wrap", Asset("ZRS", "e")>>, <<"nativeRedeem", Asset("ZEPH", "n")>>>>),
    Listed(Asset("ZYS", "n"), <<<<"wrap", Asset("ZYS", "e")>>, <<"nativeRedeem", Asset("ZSD", "n")>>>>),
    Listed(Asset("ZEPH", "e"), <<<<"swapEVM", Asset("ZSD", "e")>>, <<"swapEVM", Asset("ZRS", "e")>>,
           <<"unwrap", Asset("ZEPH", "n")>>>>),
    Listed(Asset("ZSD", "e"), <<<<"swapEVM", Usdt("e")>>, <<"swapEVM", Asset("ZEPH", "e")>>,
           <<"swapEVM", Asset("ZYS", "e")>>, <<"unwrap", Asset("ZSD", "n")>>>>),
    Listed(Asset("ZRS", "e"), <<<<"swapEVM", Asset("ZEPH", "e")>>, <<"unwrap", Asset("ZRS", "n")>>>>),
    Listed(Asset("ZYS", "e"), <<<<"swapEVM", Asset("ZSD", "e")>>, <<"unwrap", Asset("ZYS", "n")>>>>),
    Listed(Usdt("e"), <<<<"swapEVM", Asset("ZSD", "e")>>, <<"swapEVM", Ether>>, <<"deposit", Usdt("x")>>>>),
    Listed(Ether, <<<<"swapEVM", Usdt("e")>>>>),
    Listed(Asset("ZEPH", "x"), <<<<"tradeCEX", Usdt("x")>>, <<"withdraw", Asset("ZEPH", "n")>>>>),
    Listed(Usdt("x"), <<<<"tradeCEX", Asset("ZEPH", "x")>>, <<"withdraw", Usdt("e")>>>>) }

Hops == {s.hop : s \in AssetSteps}
Assets == {h.from : h \in Hops}
RankOf(hop) == (CHOOSE s \in AssetSteps : s.hop = hop).rank

-----------------------------------------------------------------------------
(* The search *)

Visited(from, path) == {from} \cup {path[i].to : i \in DOMAIN path}

EndOf(from, path) == IF path = <<>> THEN from ELSE path[Len(path)].to

\* Walks of n hops that visit no asset twice and have not reached the target before.
WalksFrom(from, target, n) ==
    LET walks[k \in 0..n] ==
            IF k = 0 THEN {<<>>}
            ELSE UNION {{Append(w, h) : h \in {g \in Hops : g.from = EndOf(from, w)
                                                            /\ g.to \notin Visited(from, w)}}
                        : w \in {v \in walks[k - 1] : EndOf(from, v) # target}}
    IN  walks[n]

FindAssetPaths(from, target, depth) ==
    IF from = target THEN {<<>>}
    ELSE UNION {{w \in WalksFrom(from, target, n) : EndOf(from, w) = target} : n \in 1..depth}

\* The order of the search, by length: two paths are told apart where they first differ.
Before(p, q) ==
    \/ Len(p) < Len(q)
    \/ /\ Len(p) = Len(q)
       /\ \E i \in DOMAIN p : /\ SubSeq(p, 1, i - 1) = SubSeq(q, 1, i - 1)
                              /\ RankOf(p[i]) < RankOf(q[i])

\* The first n of a set in an order.
FirstOf(n, S, Precedes(_, _)) == {x \in S : Cardinality({y \in S : Precedes(y, x)}) < n}

-----------------------------------------------------------------------------
(* One hop *)

\* Thousandths of a cent of a unit, None where no price is known.
AssetPrice(asset, st) ==
    IF asset[1] = "USDT" THEN 100
    ELSE IF st.hasReserve /\ asset[1] \in Coins THEN SpotUsd(asset[1], st.reserve.rates) ELSE None

Worth(amount, asset, st) == amount * (1000 \div Units(asset)) * AssetPrice(asset, st)

BpsOf(fee, base) == IF fee <= 0 \/ base <= 0 THEN 0 ELSE (fee * 10000) \div base

ContextualFeeBps(hop, st) ==
    CASE hop.op = "swapEVM" -> PoolFeeBps(CHOOSE p \in SwapContext(hop.from, hop.to, st) : TRUE)
      [] hop.op \in {"nativeMint", "nativeRedeem"} ->
            NativeFee(IF hop.op = "nativeMint" THEN hop.to[1] ELSE hop.from[1])
      [] hop.op = "tradeCEX" -> st.takerBps
      [] OTHER -> None

\* What is paid, in the units it is paid in, over what comes out and what is paid.
FeeBps(hop, quote, context, st) ==
    IF quote.fee > 0 THEN BpsOf(quote.fee, quote.amountOut + quote.fee)
    ELSE IF quote.gross > 0 THEN BpsOf(quote.gross - quote.amountOut, quote.gross)
    ELSE LET known == IF context THEN ContextualFeeBps(hop, st) ELSE None
         IN  IF known = None /\ quote.amountOut = 0 THEN 0 ELSE known

Evaluation(hop, amountIn, context, quote, st) ==
    [hop |-> hop, amountIn |-> amountIn, amountOut |-> quote.amountOut,
     allowed |-> RuntimeEnabled(hop.op, hop.from, hop.to, st) /\ quote.allowed,
     feeBps |-> FeeBps(hop, quote, context, st),
     gas |-> IF hop.op = "swapEVM" /\ quote # NoQuote THEN st.gas ELSE 0]

\* amountIn is None when the hop before gave nothing to go on with.
EvaluateStep(hop, amountIn, st) ==
    LET context == ContextAvailable(hop.op, hop.from, hop.to, st)
    IN  Evaluation(hop, amountIn, context,
                   IF amountIn > 0 /\ context
                   THEN InvokeQuoter(Request(hop.op, hop.from, hop.to, amountIn, 0), st) ELSE NoQuote,
                   st)

-----------------------------------------------------------------------------
(* A whole path *)

\* Each hop goes on with what the one before gives.
Evaluated(path, amountIn, st) ==
    LET hops[i \in DOMAIN path] ==
            EvaluateStep(path[i], IF i = 1 THEN amountIn ELSE hops[i - 1].amountOut, st)
    IN  hops

AssetsOf(source, path) == Visited(source, path)

\* What the path takes from an asset and gives to it.
Delta(asset, hops) ==
    LET taken(i) == IF hops[i].hop.from = asset THEN Larger(0, hops[i].amountIn) ELSE 0
        given(i) == IF hops[i].hop.to = asset THEN Larger(0, hops[i].amountOut) ELSE 0
    IN  MapThenSumSet(given, DOMAIN hops) - MapThenSumSet(taken, DOMAIN hops)

NetUsd(assets, hops, st) ==
    LET usd(a) == Worth(Delta(a, hops), a, st)
    IN  MapThenSumSet(usd, {a \in assets : AssetPrice(a, st) # None})

InventoryStatus(assets, hops, inventory) ==
    IF \E a \in assets \cap DOMAIN inventory : inventory[a] + Delta(a, hops) < 0 THEN "short"
    ELSE IF hops = <<>> THEN "prepped"
    ELSE IF assets \subseteq DOMAIN inventory THEN "covered" ELSE "unknown"

\* The score of a path: a cost or a fee that is not known is None.
Score(source, path, amountIn, hops, inventory, st) ==
    LET assets == AssetsOf(source, path)
        fee(i) == hops[i].feeBps
        gas(i) == hops[i].gas
        priced == \E a \in assets : AssetPrice(a, st) # None
        missing == \E a \in assets : AssetPrice(a, st) = None /\ Delta(a, hops) # 0
        net == NetUsd(assets, hops, st)
        burnt == 1000 * MapThenSumSet(gas, DOMAIN path)
        given == {i \in DOMAIN hops : hops[i].amountOut # None}
    IN  [source |-> source, path |-> path, amountIn |-> amountIn, hops |-> hops,
         disallowed |-> Cardinality({i \in DOMAIN hops : ~hops[i].allowed}),
         out |-> IF given = {} THEN None ELSE hops[Max(given)].amountOut,
         net |-> [known |-> priced, usd |-> IF priced THEN net ELSE 0],
         cost |-> [known |-> priced \/ ~missing, usd |-> IF priced THEN burnt - net ELSE burnt],
         feeBps |-> IF \E i \in DOMAIN path : fee(i) = None THEN None ELSE MapThenSumSet(fee, DOMAIN path),
         gas |-> burnt,
         status |-> InventoryStatus(assets, hops, inventory)]

EvaluatePath(source, path, amountIn, inventory, st) ==
    Score(source, path, amountIn, Evaluated(path, amountIn, st), inventory, st)

\* More comes out than was put in, beyond what rounding gives: half a unit of each asset on the way.
MakesValue(e, st) ==
    LET unit(a) == Worth(1, a, st)
        priced == {a \in AssetsOf(e.source, e.path) : AssetPrice(a, st) # None}
    IN  e.net.known /\ e.out # None /\ 2 * e.net.usd > MapThenSumSet(unit, priced)

Allowed(e) == e.disallowed = 0

StatusRank(status) ==
    CASE status = "prepped" -> 0 [] status = "covered" -> 1 [] status = "unknown" -> 2 [] status = "short" -> 3

\* compareScores: by what is refused, what there is, the hops, the cost where both are known, the
\* fee, the gas.  Negative when a is the better.
CompareScores(a, b) ==
    LET unlike == a.cost.known /\ b.cost.known /\ a.cost.usd # b.cost.usd
    IN  IF a.disallowed # b.disallowed THEN a.disallowed - b.disallowed
        ELSE IF a.status # b.status THEN StatusRank(a.status) - StatusRank(b.status)
        ELSE IF Len(a.path) # Len(b.path) THEN Len(a.path) - Len(b.path)
        ELSE IF unlike THEN a.cost.usd - b.cost.usd
        ELSE IF a.feeBps # b.feeBps
             THEN IF b.feeBps = None \/ (a.feeBps # None /\ a.feeBps < b.feeBps) THEN -1 ELSE 1
        ELSE a.gas - b.gas

\* The sort is stable: what is equal keeps the order of the search.
Ranks(a, b, Order(_, _)) == CompareScores(a, b) < 0 \/ (CompareScores(a, b) = 0 /\ Order(a, b))

\* The first of the sorted.  Where some costs are not known the comparison may run in a circle, which
\* has no first; the sort puts one of them there all the same.
FirstRanked(evaluations, Order(_, _)) ==
    LET first == {e \in evaluations : \A f \in evaluations \ {e} : Ranks(e, f, Order)}
    IN  CHOOSE e \in evaluations : first = {} \/ e \in first

SearchOrder(a, b) == Before(a.path, b.path)

\* evaluatePaths, of the first "limit" paths, and its best: NoPath when there is none.
EvaluatePaths(from, target, amountIn, depth, limit, inventory, st) ==
    {EvaluatePath(from, p, amountIn, inventory, st)
        : p \in FirstOf(limit, FindAssetPaths(from, target, depth), Before)}

BestPath(from, target, amountIn, depth, limit, inventory, st) ==
    FirstRanked(EvaluatePaths(from, target, amountIn, depth, limit, inventory, st), SearchOrder)

-----------------------------------------------------------------------------
(* What a leg needs *)

\* Each step of a leg, forwards and backwards; the operation is not turned round with the assets.
ForbiddenEdges(leg) ==
    LET steps == {leg.open, leg.native, leg.cex} \ {NoHop}
    IN  steps \cup {Hop(s.to, s.from, s.op) : s \in steps}

\* Names of the assets in the order localeCompare gives them.
Names == <<Ether, Asset("USDT", "e"), Asset("USDT", "x"), Asset("ZEPH", "e"), Asset("ZRS", "e"),
           Asset("ZSD", "e"), Asset("ZYS", "e"), Asset("ZEPH", "n"), Asset("ZEPH", "x"),
           Asset("ZRS", "n"), Asset("ZSD", "n"), Asset("ZYS", "n")>>

NameRank(asset) == CHOOSE i \in DOMAIN Names : Names[i] = asset

\* findPathsToAsset: every way from every asset, the asset itself with no hop the first.
CandidateOrder(c, d) ==
    \/ Len(c.path) < Len(d.path)
    \/ Len(c.path) = Len(d.path) /\ NameRank(c.source) < NameRank(d.source)
    \/ Len(c.path) = Len(d.path) /\ c.source = d.source /\ Before(c.path, d.path)

FindPathsToAsset(target, depth) ==
    UNION {{[source |-> a, path |-> p] : p \in FindAssetPaths(a, target, depth)} : a \in Assets}

Candidates(leg, need, depth) ==
    {c \in FindPathsToAsset(need, depth) :
        \A i \in DOMAIN c.path : c.path[i] \notin ForbiddenEdges(leg)}

\* What a candidate is tried with: the amount asked for of its source, or of the need in the units
\* of the source, or one coin.
ProbeAmount(source, need, override) ==
    IF override.asset = source /\ override.amount > 0 THEN override.amount
    ELSE IF override.asset = need /\ override.amount > 0 THEN Scaled(override.amount, need, source)
    ELSE Units(source)

\* evaluateStepPreparation: the candidates with something to try; the inventory of one without hops
\* is corrected where it is shown, but not where the score keeps it.
EvaluateStepPreparation(leg, need, depth, limit, override, inventory, st) ==
    {[EvaluatePath(c.source, c.path, ProbeAmount(c.source, need, override), inventory, st)
        EXCEPT !.amountIn = ProbeAmount(c.source, need, override)]
        : c \in {d \in FirstOf(limit, Candidates(leg, need, depth), CandidateOrder) :
                    ProbeAmount(d.source, need, override) > 0}}

ShownStatus(e, need, inventory) ==
    IF e.path = <<>> /\ need \in DOMAIN inventory
    THEN IF inventory[need] < e.amountIn THEN "short" ELSE "prepped"
    ELSE e.status
===============================================================================
