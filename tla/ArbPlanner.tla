------------------------------- MODULE ArbPlanner -------------------------------
(***************************************************************************)
(* The plan of an arbitrage (src/domain/arbitrage/planner*.ts): from the   *)
(* balances that were read (services/arbitrage/balances.ts,                *)
(* domain/inventory/balances.ts) and the clips that were sized, which      *)
(* close it takes, what it spends, whether it is blocked and whether the   *)
(* inventory limits it.                                                    *)
(*                                                                         *)
(* A world w has what the wallets hold, in coins of each of the coins: evm *)
(* (configured, or reads that fail; the tokens whose read fails), zephyr   *)
(* (locked and unlocked) and cex, the paper balances of both, and which    *)
(* of the two are on paper.                                                *)
(***************************************************************************)
EXTENDS Pathing

-----------------------------------------------------------------------------
(* Balances *)

IsWorld(w) == {w.evm, w.paperZephyr, w.paperCex, w.cex, w.locked, w.unlocked} \subseteq Nat

OnEvm == {Asset(c, "e") : c \in Coins \cup {"USDT"}}
OnCex == {Asset("ZEPH", "x"), Asset("USDT", "x")}

\* loadBalanceSnapshot: a token that cannot be read counts as none; without an address or an RPC
\* nothing after the paper balances is loaded.
LoadBalanceSnapshot(w) ==
    [evm    |-> IF ~w.configured THEN "off" ELSE IF w.evmFails THEN "error" ELSE "ok",
     tokens |-> [a \in OnEvm |-> IF a \in w.unreadable THEN 0 ELSE w.evm * Units(a)],
     cex    |-> w.configured /\ w.mexcPaper /\ ~w.cexFails,
     zephyr |-> w.configured /\ ~w.zephyrPaper /\ ~w.zephyrFails]

\* Mutant: what the wallet has, not what it may spend.
WholeBalance(w) == w.unlocked + w.locked

SpendableBalance(w) == w.unlocked

\* mapBalanceSnapshot: paper where the wallet is on paper; a real wallet's nothing is left out; the
\* exchange's own balances before those on paper.
MapBalanceSnapshot(w) ==
    LET snapshot == LoadBalanceSnapshot(w)
        native == IF w.zephyrPaper /\ w.hasPaper THEN w.paperZephyr
                  ELSE IF snapshot.zephyr /\ SpendableBalance(w) # 0 THEN SpendableBalance(w) ELSE None
        cex == IF snapshot.cex THEN IF w.cex = 0 THEN None ELSE w.cex
               ELSE IF w.mexcPaper /\ w.hasPaper THEN w.paperCex ELSE None
        known == (IF snapshot.evm = "ok" THEN OnEvm ELSE {})
                   \cup (IF native = None THEN {} ELSE Native) \cup (IF cex = None THEN {} ELSE OnCex)
    IN  [a \in known |-> CASE a[2] = "e" -> snapshot.tokens[a]
                           [] a[2] = "n" -> native * Units(a)
                           [] a[2] = "x" -> cex * Units(a)]

-----------------------------------------------------------------------------
(* The clip without calibration *)

\* The least clip, in dollars: 500 in the code.
ClipMin == 5

\* findEvmPool: there is one pool to a pair.
OnlyPool(pools) == CHOOSE p \in pools : TRUE

\* The exchange's price of ZEPH goes before the reserve's.
ClipPrice(asset, st) ==
    IF asset[1] = "ZEPH" /\ st.hasCex /\ CexPrice(st) # None THEN CexPrice(st)
    ELSE IF asset[1] = "ZSD" /\ ~st.hasReserve THEN 100 ELSE AssetPrice(asset, st)

\* A tenth of what the pool holds of the asset; else, at the asset's price, a tenth of half the pool's
\* dollars, or the least clip.  None where there is neither a pool to take a share of nor a price.
EstimateClipAmount(leg, override, st) ==
    LET asset == leg.open.from
        pools == PoolsOf(asset, leg.open.to, st)
        holding == {p \in pools : HeldOf(p, asset) > 0}
        valued == {p \in pools : p.tvl > 0}
        price == ClipPrice(asset, st)
        cents == IF valued # {} THEN 5 * OnlyPool(valued).tvl ELSE 100 * ClipMin
    IN  IF override > 0 THEN override
        ELSE IF holding # {} THEN Larger(1, (HeldOf(OnlyPool(holding), asset) * Units(asset)) \div 10)
        ELSE IF price > 0 THEN Larger(1, (cents * Units(asset)) \div price)
        ELSE None

-----------------------------------------------------------------------------
(* The stages *)

\* selectClipOption: by the net, a set that is empty where it is not known, then by the dollars of the
\* amount; the native option is listed first.
Earns(o, p) == o.net # {} /\ \A x \in o.net, y \in p.net : x > y

SelectClipOption(options) ==
    CHOOSE o \in options : \A p \in options \ {o} :
        \/ Earns(o, p)
        \/ ~Earns(p, o) /\ o.usd > p.usd
        \/ ~Earns(p, o) /\ o.usd = p.usd /\ o.flavor = "native"

PickCandidate(candidates) ==
    LET allowed == {c \in candidates : Allowed(c)}
        ready == {c \in allowed : c.status \in {"prepped", "covered"}}
    IN  FirstRanked(IF ready # {} THEN ready ELSE IF allowed # {} THEN allowed ELSE candidates,
                    CandidateOrder)

Entry(pick, need, inventory) ==
    [blocked |-> ~Allowed(pick), limited |-> ShownStatus(pick, need, inventory) = "short",
     amountIn |-> pick.amountIn]

\* buildPreparationEntry, of one step of a leg.
BuildPreparationEntry(candidates, need, inventory) ==
    IF candidates = {} THEN [blocked |-> TRUE, limited |-> TRUE, amountIn |-> 0]
    ELSE Entry(PickCandidate(candidates), need, inventory)

\* As many coins of one asset as "amount" is of another.
Reaches(inventory, asset, amount, of) == inventory[asset] * Units(of) >= amount * Units(asset)

\* annotatePreparationInventory: a balance that is not known says nothing about an entry.
FallsShort(inventory, asset, amount, of) ==
    asset \in DOMAIN inventory /\ ~Reaches(inventory, asset, amount, of)

\* buildInventoryEntries: there it is not enough.
Covers(inventory, asset, amount, of) ==
    asset \in DOMAIN inventory /\ Reaches(inventory, asset, amount, of)

Stable == {Asset("ZSD", "e"), Asset("ZSD", "n"), Usdt("e"), Usdt("x")}

\* buildSettlementSteps: to WZSD unless the asset is stable, and on to USDT; an amount of nothing
\* and an asset without a way are blocked.
SettlementBlocked(asset, amount, depth, limit, inventory, st) ==
    LET blocked(from, to) == \/ amount <= 0 \/ FindAssetPaths(from, to, depth) = {}
                             \/ ~Allowed(BestPath(from, to, amount, depth, limit, inventory, st))
        settled == IF asset \in Stable THEN asset ELSE Asset("ZSD", "e")
        nowhere == asset \notin Stable /\ (amount <= 0 \/ FindAssetPaths(asset, settled, depth) = {})
    IN  \/ asset \notin Stable /\ blocked(asset, settled)
        \/ ~nowhere /\ settled # Usdt("e") /\ blocked(settled, Usdt("e"))

Closes(leg) == {"native"} \cup (IF leg.cex = NoHop THEN {} ELSE {"cex"})
CloseHop(leg, flavor) == IF flavor = "native" THEN leg.native ELSE leg.cex

\* The close of the clip that was chosen; without one the native close, unless only the other is free.
ChosenClose(leg, options, closing) ==
    LET free == {f \in Closes(leg) : ~closing[f].blocked}
    IN  IF options # {} THEN SelectClipOption(options).flavor
        ELSE IF "native" \in free \/ free = {} THEN "native" ELSE "cex"

\* What is asked of the inventory: the clip, if none was asked for.
Wanted(leg, options, override, st) ==
    LET clip == IF options # {} THEN SelectClipOption(options).amount
                ELSE EstimateClipAmount(leg, override, st)
    IN  [asset |-> leg.open.from, amount |-> IF override > 0 THEN override ELSE Larger(0, clip)]

\* Whether each of the listed steps has what it asks for: as many coins of its asset as are opened with.
InventorySteps(leg, amount, inventory) ==
    [s \in {"open"} \cup Closes(leg) |->
        Covers(inventory, IF s = "open" THEN leg.open.from ELSE CloseHop(leg, s).from, amount, leg.open.from)]

\* A variant of the close whose entry is short limits the plan even when another is chosen.
Limited(leg, chosen, amount, opening, closing, inventory) ==
    LET fallsShort(hop) == FallsShort(inventory, hop.from, amount, leg.open.from)
        listed == InventorySteps(leg, amount, inventory)
    IN  \/ opening.limited \/ \E f \in Closes(leg) : closing[f].limited
        \/ fallsShort(leg.open) \/ fallsShort(CloseHop(leg, chosen))
        \/ \E s \in DOMAIN listed : ~listed[s]

Planned(leg, chosen, amount, opening, closing, depth, limit, inventory, st) ==
    [close   |-> chosen,
     amount  |-> amount,
     blocked |-> \/ opening.blocked \/ closing[chosen].blocked
                 \/ SettlementBlocked(CloseHop(leg, chosen).to, amount, depth, limit, inventory, st),
     limited |-> Limited(leg, chosen, amount, opening, closing, inventory)]

\* The amount of the plan: what is wanted, or what the opening was tried with, or one coin.
BaseAmount(leg, wanted, opening) ==
    IF wanted.amount > 0 THEN wanted.amount
    ELSE IF opening.amountIn > 0 THEN opening.amountIn ELSE Units(leg.open.from)

WithEntries(leg, options, wanted, opening, closing, depth, limit, inventory, st) ==
    Planned(leg, ChosenClose(leg, options, closing), BaseAmount(leg, wanted, opening),
            opening, closing, depth, limit, inventory, st)

\* buildQuoterAwareLegPreparationPlan: the ways to what the opening and each of the closes need.
LegPreparation(leg, wanted, depth, limit, inventory, st) ==
    LET candidates(hop) == EvaluateStepPreparation(leg, hop.from, depth, limit, wanted, inventory, st)
    IN  [s \in {"open"} \cup Closes(leg) |-> candidates(IF s = "open" THEN leg.open ELSE CloseHop(leg, s))]

WithPreparation(leg, options, wanted, preparation, depth, limit, inventory, st) ==
    WithEntries(leg, options, wanted,
                BuildPreparationEntry(preparation["open"], leg.open.from, inventory),
                [f \in Closes(leg) |-> BuildPreparationEntry(preparation[f], CloseHop(leg, f).from, inventory)],
                depth, limit, inventory, st)

PlanFor(leg, options, wanted, depth, limit, inventory, st) ==
    WithPreparation(leg, options, wanted, LegPreparation(leg, wanted, depth, limit, inventory, st),
                    depth, limit, inventory, st)

\* options are the clips that were sized, {} when sizing failed; override is an amount asked for, or 0.
BuildArbPlan(leg, options, override, depth, limit, w, st) ==
    PlanFor(leg, options, Wanted(leg, options, override, st), depth, limit, MapBalanceSnapshot(w), st)

-----------------------------------------------------------------------------
(* Properties *)

\* What may be spent of an asset, in units: tokens, paper or unlocked coins, and on the exchange
\* its balance or, where that is not to be had, paper.
MayBeSpent(asset, w) ==
    Units(asset) * (CASE asset[2] = "e" -> w.evm
                      [] asset[2] = "n" -> IF w.zephyrPaper THEN w.paperZephyr ELSE w.unlocked
                      [] asset[2] = "x" -> IF w.cexFails \/ ~w.configured THEN w.paperCex ELSE w.cex)

\* A plan that the inventory does not limit can pay, from the wallets, for its opening swap and for
\* either close, whatever failed to be read.
IsFunded(leg, plan, w) ==
    ~plan.limited =>
        \A h \in {leg.open} \cup {CloseHop(leg, f) : f \in Closes(leg)} :
            MayBeSpent(h.from, w) * Units(leg.open.from) >= plan.amount * Units(h.from)
===============================================================================
