------------------------------ MODULE LiquidityMath ------------------------------
(***************************************************************************)
(* The mathematics of concentrated liquidity, at both places that do it:   *)
(* the pool seeder's positions (uniswapV4/liquidityMath.ts, in integers    *)
(* that round down) and the metrics the EVM watcher makes of the positions *)
(* of a pool (persistence.math.ts and persistence.metrics.ts, in decimals).*)
(*                                                                         *)
(* The ticks are those of RootAt, which gives the square root of the price *)
(* at each, whole: 16 of them are where the code has 2^96 (Q96).  Token 0  *)
(* of the metrics is counted in parts of Scale.                            *)
(***************************************************************************)
EXTENDS Integers, Sequences, FiniteSets, FiniteSetsExt

CONSTANT RootAt

TickRange == DOMAIN RootAt
MinTick == Min(TickRange)
MaxTick == Max(TickRange)

Q == 16
Scale == 768

\* getSqrtPriceAtTick, sqrtRatioAtTick.
SqrtAt(tick) == RootAt[tick]

GridAssumption ==
    /\ {MinTick, MaxTick} \subseteq Int /\ MinTick < MaxTick /\ TickRange = MinTick..MaxTick
    /\ RootAt \in [TickRange -> Nat \ {0}]
    /\ \A t, u \in TickRange : t < u => SqrtAt(t) < SqrtAt(u)

\* getTickAtSqrtPrice: the last tick that is not above.
TickAt(sqrt) == Max({t \in TickRange : SqrtAt(t) <= sqrt})

FloorTick(tick, spacing) == (tick \div spacing) * spacing

CeilTick(tick, spacing) == -((-tick) \div spacing) * spacing

-----------------------------------------------------------------------------
(* The position of a budget (liquidityMath.ts, poolSeeder.ts) *)

Clamp(sqrt) == IF sqrt < SqrtAt(MinTick) THEN SqrtAt(MinTick)
               ELSE IF sqrt > SqrtAt(MaxTick) THEN SqrtAt(MaxTick) ELSE sqrt

\* computeTickBounds.  A band is what the root is divided and multiplied by.
TickBounds(sqrt, band, spacing) ==
    LET lower == FloorTick(TickAt(Clamp(sqrt \div band)), spacing)
        upper == CeilTick(TickAt(Clamp(sqrt * band)), spacing)
    IN  [lower |-> lower, upper |-> IF lower >= upper THEN lower + spacing ELSE upper]

\* getLiquidityForAmounts
LiquidityFor(sqrt, lower, upper, amount0, amount1) ==
    IF sqrt <= lower THEN (amount0 * lower * upper) \div ((upper - lower) * Q)
    ELSE IF sqrt >= upper THEN (amount1 * Q) \div (upper - lower)
    ELSE Min({(amount0 * sqrt * upper) \div ((upper - sqrt) * Q), (amount1 * Q) \div (sqrt - lower)})

\* getAmountsForLiquidity
AmountsFor(sqrt, lower, upper, liquidity) ==
    LET at == IF sqrt < lower THEN lower ELSE IF sqrt > upper THEN upper ELSE sqrt
    IN  <<(liquidity * Q * (upper - at)) \div (upper * at), (liquidity * (at - lower)) \div Q>>

\* Both sides of a budget of either token, at the price (seedPool).
Desired(sqrt, budget, quoteIsToken1) ==
    IF quoteIsToken1 THEN <<(budget * Q * Q) \div (sqrt * sqrt), budget>>
    ELSE <<budget, (budget * sqrt * sqrt) \div (Q * Q)>>

\* What seedPool mints for a band; liquidity 0 is skipped.
SeedPosition(c) ==
    LET ticks == TickBounds(c.sqrt, c.band, c.spacing)
        desired == Desired(c.sqrt, c.budget, c.quoteIsToken1)
        liquidity == LiquidityFor(c.sqrt, SqrtAt(ticks.lower), SqrtAt(ticks.upper), desired[1], desired[2])
    IN  [ticks |-> ticks, desired |-> desired, liquidity |-> liquidity,
         amounts |-> AmountsFor(c.sqrt, SqrtAt(ticks.lower), SqrtAt(ticks.upper), liquidity)]

-----------------------------------------------------------------------------
(* The metrics of a pool (persistence.metrics.ts, persistence.math.ts) *)

\* computePositionAmountsDecimal.
PositionAmounts(p, sqrt) ==
    LET lower == SqrtAt(p.lower)
        upper == SqrtAt(p.upper)
        at == IF sqrt < lower THEN lower ELSE IF sqrt > upper THEN upper ELSE sqrt
    IN  <<p.liquidity * (Scale \div at - Scale \div upper), p.liquidity * (at - lower)>>

\* recomputePoolMetrics: what the positions change at a tick, and the ticks where they change anything.
NetAt(positions, tick) ==
    LET net(i) == IF positions[i].lower = tick THEN positions[i].liquidity
                  ELSE IF positions[i].upper = tick THEN -positions[i].liquidity ELSE 0
    IN  MapThenSumSet(net, DOMAIN positions)

Boundaries(positions) ==
    {positions[i].lower : i \in DOMAIN positions} \cup {positions[i].upper : i \in DOMAIN positions}

\* tickFromPrice, of the price for people: where the tokens' decimals differ it is another tick.
CurrentTick(sqrt, decimals) == TickAt(sqrt) + decimals

ActiveLiquidity(positions, currentTick) ==
    LET net(tick) == NetAt(positions, tick)
    IN  MapThenSumSet(net, {t \in Boundaries(positions) : t <= currentTick})

\* Mutant: the liquidity stays what it was before the boundary.
StepWithoutNet(positions, goal, w) ==
    LET over == w.ahead # {} /\ SqrtAt(Min(w.ahead)) <= goal
        stop == IF over THEN SqrtAt(Min(w.ahead)) ELSE goal
    IN  [at |-> stop, liquidity |-> w.liquidity,
         ahead |-> IF over THEN w.ahead \ {Min(w.ahead)} ELSE w.ahead,
         amount0 |-> w.amount0 + w.liquidity * (Scale \div w.at - Scale \div stop),
         amount1 |-> w.amount1 + w.liquidity * (stop - w.at)]

\* One round of simulateDepth's loop, upwards, as its only caller has it: to the next tick ahead, and
\* over it, or to the goal, whichever comes first.
DepthStep(positions, goal, w) ==
    LET over == w.ahead # {} /\ SqrtAt(Min(w.ahead)) <= goal
        stop == IF over THEN SqrtAt(Min(w.ahead)) ELSE goal
    IN  [at |-> stop,
         liquidity |-> w.liquidity + (IF over THEN NetAt(positions, Min(w.ahead)) ELSE 0),
         ahead |-> IF over THEN w.ahead \ {Min(w.ahead)} ELSE w.ahead,
         amount0 |-> w.amount0 + w.liquidity * (Scale \div w.at - Scale \div stop),
         amount1 |-> w.amount1 + w.liquidity * (stop - w.at)]

\* simulateDepth: the ticks above the current one are gone through until the goal is reached.
SimulateDepth(positions, sqrt, goal, currentTick) ==
    LET ticks == Boundaries(positions)
        walk[n \in 0..(Cardinality(ticks) + 1)] ==
            IF n = 0 THEN [at |-> sqrt, liquidity |-> ActiveLiquidity(positions, currentTick),
                           ahead |-> {t \in ticks : t > currentTick}, amount0 |-> 0, amount1 |-> 0]
            ELSE IF walk[n - 1].at >= goal THEN walk[n - 1] ELSE DepthStep(positions, goal, walk[n - 1])
    IN  walk[Cardinality(ticks) + 1]

\* buildDepthSamples takes no sample while no liquidity is active.
HasDepth(positions, sqrt, decimals) == ActiveLiquidity(positions, CurrentTick(sqrt, decimals)) > 0

-----------------------------------------------------------------------------
(* Properties *)

\* A band is no narrower than a tick (a basis point, the least there is, is one), and its ends are
\* ticks: of others getSqrtPriceAtTick makes nothing.
IsBandCase(c) ==
    /\ c \in [sqrt : Nat, band : Nat, spacing : Nat \ {0}, budget : Nat, quoteIsToken1 : BOOLEAN]
    /\ SqrtAt(MinTick) <= c.sqrt /\ c.sqrt < SqrtAt(MaxTick)
    /\ \A t \in TickRange \ {MaxTick} : SqrtAt(t + 1) <= c.band * SqrtAt(t)
    /\ LET ticks == TickBounds(c.sqrt, c.band, c.spacing) IN {ticks.lower, ticks.upper} \subseteq TickRange

\* The way up to a goal, through positions of any ranges.
IsDepthCase(c) ==
    /\ c \in [positions : Seq([lower : TickRange, upper : TickRange, liquidity : Nat]),
              sqrt : Nat, goal : Nat, decimals : Int]
    /\ \A i \in DOMAIN c.positions : c.positions[i].lower < c.positions[i].upper
    /\ SqrtAt(MinTick) <= c.sqrt /\ c.sqrt < c.goal

\* A band's position stays within the budget, in both tokens; and it is a range on the pool's spacing
\* around the price, so that both tokens go into it.
BandFits(c) ==
    LET p == SeedPosition(c)
    IN  /\ p.amounts[1] <= p.desired[1] /\ p.amounts[2] <= p.desired[2]
        /\ p.ticks.lower <= TickAt(c.sqrt) /\ TickAt(c.sqrt) < p.ticks.upper
        /\ p.ticks.lower % c.spacing = 0 /\ p.ticks.upper % c.spacing = 0

\* What a pool is said to take and give on the way to a price is what the positions in it would: the
\* sum of what each holds more and less at that price, over gaps and ticks that several share.  (Of
\* tokens of the same decimals: of others the walk begins at another tick.)
DepthIsOfThe(c) ==
    c.decimals = 0 /\ HasDepth(c.positions, c.sqrt, 0) =>
        LET w == SimulateDepth(c.positions, c.sqrt, c.goal, CurrentTick(c.sqrt, 0))
            more0(i) == PositionAmounts(c.positions[i], c.goal)[1] - PositionAmounts(c.positions[i], c.sqrt)[1]
            more1(i) == PositionAmounts(c.positions[i], c.goal)[2] - PositionAmounts(c.positions[i], c.sqrt)[2]
        IN  /\ w.amount0 = -MapThenSumSet(more0, DOMAIN c.positions)
            /\ w.amount1 = MapThenSumSet(more1, DOMAIN c.positions)
===============================================================================
