------------------------------ MODULE StrategyRuns ------------------------------
(***************************************************************************)
(* What the strategies' plans come to when a market stands still: the      *)
(* rebalancer asked again after each of its plans, the LP manager after    *)
(* each new range, and the plans for every market.                         *)
(***************************************************************************)
EXTENDS Strategies

CONSTANTS
    Holdings,  \* balances of one coin: records with e, n and x
    Markets,   \* states of the markets, as MarketAnalysis takes them
    LpMarkets, \* those the LP manager is asked in
    Books,     \* what the database has of the wallet's positions
    MinTick    \* bound: a position below it is left alone

\* A position of the database, and what the constants must be.
Positions == [pool : SUBSET (Coins \cup {"USDT"}), lower : Int, upper : Int, fees : Nat, id : Int]

RunsAssumption ==
    /\ Holdings # {} /\ Holdings \subseteq [{"e", "n", "x"} -> Nat]
    /\ Books # {} /\ \A b \in Books :
        /\ DOMAIN b = {"owner", "fails", "rows", "apps", "ticks"} /\ b.rows \in Seq(Positions)
        /\ \A i \in DOMAIN b.rows : b.rows[i].lower < b.rows[i].upper

VARIABLES
    coin,      \* the coin looked at
    held,      \* what there is of it
    book,      \* the positions
    market     \* the state of the markets

vars == <<coin, held, book, market>>

RunsTypeOK ==
    /\ coin \in Coins
    /\ held \in [{"e", "n", "x"} -> Nat]
    /\ \A i \in DOMAIN book.rows : book.rows[i].lower < book.rows[i].upper /\ book.rows[i].fees \in Nat

\* Three questions in one: the strategies do not look at each other's part of the world, which
\* is the same in all behaviours but those that ask about it.
Any(S) == CHOOSE x \in S : TRUE

Init ==
    \/ coin \in Coins /\ held \in Holdings /\ book = Any(Books) /\ market = Any(Markets)
    \/ coin = "ZEPH" /\ held = Any(Holdings) /\ book \in Books /\ market \in LpMarkets
    \/ coin = "ZEPH" /\ held = Any(Holdings) /\ book = Any(Books) /\ market \in Markets

RebalancePlans == {RebalancePlan(o) : o \in RebalanceFindings([c \in {coin} |-> held], market)}

LpPlans == {LpPlan(o, market) : o \in LpFindings(book, market)}

\* The rebalancer's plan, carried out: the amount goes from where there is most to where there is least.
Rebalance ==
    /\ \E plan \in {p \in RebalancePlans : p.steps # <<>>} :
        LET move == plan.opportunity.context
        IN  held' = [held EXCEPT ![move.from] = @ - move.amount, ![move.to] = @ + move.amount]
    /\ UNCHANGED <<coin, book, market>>

\* A step of the LP manager is carried out if the pool and the token are known.
Executable(step) == step.ctx /\ step.lp.id

\* The rows that are the position of a step.
IsOf(row, plan) ==
    LET context == plan.opportunity.context
    IN  row.pool = context.pool /\ row.id = context.id /\ row.lower = context.current.lower

\* The LP manager's plan: the position is burned, and minted in the recommended range, whose
\* middle is that of the old one even when the price has left it.
AdjustRange ==
    /\ \E plan \in {p \in LpPlans : Len(p.steps) = 2 /\ Executable(p.steps[1])} :
       \E i \in DOMAIN book.rows :
        /\ IsOf(book.rows[i], plan)
        /\ book.rows[i].lower > MinTick
        /\ book' = [book EXCEPT !.rows[i] = [@ EXCEPT !.lower = plan.steps[2].lp.lower,
                                                     !.upper = plan.steps[2].lp.upper]]
    /\ UNCHANGED <<coin, held, market>>

\* Fees are collected, and none are earned while the market stands still.
CollectFees ==
    /\ \E plan \in {p \in LpPlans : Len(p.steps) = 1 /\ Executable(p.steps[1])} :
       \E i \in DOMAIN book.rows :
        /\ IsOf(book.rows[i], plan)
        /\ book' = [book EXCEPT !.rows[i].fees = 0]
    /\ UNCHANGED <<coin, held, market>>

Next == Rebalance \/ AdjustRange \/ CollectFees

-----------------------------------------------------------------------------
(* Properties *)

DistanceTo(b) == Abs(Deviation(coin, b, "e")) + Abs(Deviation(coin, b, "n")) + Abs(Deviation(coin, b, "x"))

\* The two exceptions: in crisis mode the middle of a range about the price sinks by more than a drift.
RangesSettle(pool) == RRMode(market.reserve.ratio) # "crisis" \/ PoolAsset(pool) = "ZSD"

\* What is found of the i-th position of a book.
FoundOf(i, b) == LpAction(LoadPositions(b)[i], RRMode(market.reserve.ratio))

\* No adjustment is undone by the next.  A rebalancing brings the balances nearer their targets, so
\* that it ends although a plan moves all that is over into the one place where there is least; and
\* a new range is not adjusted again while the mode stays: the middle of its ticks lies below the
\* price it was made for, but less than a drift below.  (In crisis mode it does not settle.)
AdjustmentsSettle ==
    [][/\ held' # held => DistanceTo(held') < DistanceTo(held)
       /\ book' # book =>
            \A i \in DOMAIN book.rows :
                book'.rows[i].lower # book.rows[i].lower /\ RangesSettle(book.rows[i].pool)
                    => FoundOf(i, book') # "adjust_range"]_vars

\* The policy of the reserve, asked of a pair.
Permitted(from, to, policy) ==
    CASE <<from, to>> = <<"ZEPH", "ZSD">> -> policy.zsdMintable
      [] <<from, to>> = <<"ZEPH", "ZRS">> -> policy.zrsMintable
      [] <<from, to>> = <<"ZRS", "ZEPH">> -> policy.zrsRedeemable
      [] OTHER -> TRUE

Plans ==
    {ArbPlan(o, market) : o \in {f \in ArbFindings(market) : f.asset # "ZSD"}}
        \cup {PegPlan(o, held.n, held.e, market) : o \in PegFindings(market)}
        \cup RebalancePlans \cup LpPlans

Config == [manualApproval |-> FALSE, minProfit |-> 10]

\* The plans that the engine executes without asking anyone.
Unattended ==
    {p \in {ArbPlan(o, market) : o \in ArbFindings(market)} : ArbAutoExecutes(p, market, Config)}
        \cup {p \in {PegPlan(o, held.n, held.e, market) : o \in PegFindings(market)} : PegAutoExecutes(p, Config)}
        \cup {p \in RebalancePlans : RebalanceAutoExecutes(p, Config)}
        \cup {p \in LpPlans : LpAutoExecutes(p, Config)}

\* The plan of a finding makes no conversion that the reserve would refuse: where the native close
\* is not available it ends on the exchange, or nothing was found.  (ZSD's arbitrage at a premium,
\* whose close is not asked for, is the exception.)  And what runs unattended mints nothing in a
\* crisis, that exception included.
PlansUsePermittedConversions ==
    /\ \A plan \in Plans : \A i \in DOMAIN plan.steps :
        plan.steps[i].op \in {"nativeMint", "nativeRedeem"}
            => Permitted(plan.steps[i].from[1], plan.steps[i].to[1], market.reserve.policy)
    /\ market.hasReserve /\ RRMode(market.reserve.ratio) = "crisis" =>
        \A plan \in Unattended : \A i \in DOMAIN plan.steps : plan.steps[i].op # "nativeMint"
===============================================================================
