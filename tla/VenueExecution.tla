---------------------------- MODULE VenueExecution ----------------------------
(***************************************************************************)
(* One plan executed at the venues: executePlan's loop over the steps      *)
(* (apps/engine/src/engine.execution.ts), ExecutionEngine and              *)
(* dispatchToVenue (src/domain/execution), and the executors they call     *)
(* (src/services: evm, bridge, zephyr, cex, mexc).                         *)
(*                                                                         *)
(* A step is a script of awaits; each return, refusal or lost answer of an *)
(* await is an action.  What an await sets going is not undone when the    *)
(* step fails: a transaction stays in the mempool, a deposit stays with    *)
(* the bridge.  Amounts are whole units of about one thousandth of a clip. *)
(***************************************************************************)
EXTENDS Integers, Sequences, FiniteSets

CONSTANTS
    Assets,       \* coins at places
    Plans,        \* sequences of steps, as the strategies build them
    Initially,    \* the inventory before the plan: a function from Assets to Nat
    ExchangePrice, \* USDT for one ZEPH on the exchange
    UnwrapFeeBps, \* what the bridge keeps of an unwrap
    Slips,        \* what a conversion may give beyond or below its estimate
    Precision,    \* least amount of a coin the wallet converts: its fourth decimal
    MaxTroubles   \* bound: exceptions, lost answers and timeouts in a behaviour

None == -1

Ops == {"swapEVM", "tradeCEX", "nativeMint", "nativeRedeem", "wrap", "unwrap", "deposit", "withdraw",
        "lpMint", "lpBurn", "lpCollect"}

Steps == [op : Ops, from : Assets, to : Assets, amountIn : Nat, expected : Nat \cup {None},
          ctx : BOOLEAN, lp : [id : BOOLEAN, lower : Int, upper : Int]]

ASSUME VenueAssumption ==
    /\ Plans \subseteq Seq(Steps)
    /\ Initially \in [Assets -> Nat]
    /\ ExchangePrice \in Nat /\ UnwrapFeeBps \in 0..10000 /\ MaxTroubles \in Nat
    /\ Slips \subseteq Int /\ Precision \in Nat \ {0}

VARIABLES
    mode,     \* "paper", "devnet" or "live"
    wallets,  \* the exchange is CexWalletClient: always on devnet, live with MEXC_PAPER
    dryRun,
    plan,     \* plan.steps, whose amounts executePlan overwrites
    results,  \* the results of the steps done so far
    at,       \* place in the script of the current step, 0 before it is dispatched
    move,     \* what each step has set going: nothing, a pending or reverted transaction, a payment
    coming,   \* what each step has sent on its way and has not arrived
    funds,    \* what the wallets and accounts hold
    lost,     \* steps whose answer was lost
    below,    \* some conversion gave less than its estimate
    troubles

config == <<mode, wallets, dryRun>>
vars == <<config, plan, results, at, move, coming, funds, lost, below, troubles>>

Outcomes == {"success", "failed", "skipped"}

\* Every variable keeps its type, and no wallet is overdrawn.
TypeOK ==
    /\ mode \in {"paper", "devnet", "live"} /\ wallets \in BOOLEAN /\ dryRun \in BOOLEAN
    /\ results \in Seq(Outcomes) /\ Len(results) <= Len(plan)
    /\ at \in 0..4
    /\ move \in [1..Len(plan) -> {"none", "pending", "reverted", "done"}]
    /\ coming \in [1..Len(plan) -> Nat]
    /\ funds \in [Assets -> Nat]
    /\ lost \subseteq 1..Len(plan)
    /\ below \in BOOLEAN /\ troubles \in 0..MaxTroubles

Init ==
    /\ mode \in {"paper", "devnet", "live"}
    /\ wallets \in BOOLEAN /\ (mode = "devnet" => wallets)
    /\ dryRun \in BOOLEAN
    /\ plan \in Plans
    /\ results = <<>> /\ at = 0
    /\ move = [k \in 1..Len(plan) |-> "none"]
    /\ coming = [k \in 1..Len(plan) |-> 0]
    /\ funds = Initially
    /\ lost = {} /\ below = FALSE /\ troubles = 0

-----------------------------------------------------------------------------
(* Steps *)

Current == Len(results) + 1

step == plan[Current]

Failed == results # <<>> /\ results[Len(results)] = "failed"

Ended == Failed \/ Len(results) = Len(plan)

\* What each executor awaits: an allowance, an answer, the hash of a transaction and its receipt, or
\* a call that takes effect at once.
ExecuteSwap     == <<"approve", "send", "receipt">>
ExecuteLpMint   == <<"approve", "send", "receipt">>
ExecuteLpBurn   == <<"send", "receipt">>
ExecuteLpCollect == <<"send", "receipt">>
BurnWithData    == <<"send", "receipt">>
PrepareUnwrap   == <<"ask">>
BridgeUnwrap    == PrepareUnwrap \o BurnWithData
BridgeWrap      == <<"ask", "call">>
DoConversion    == <<"ask", "call">>
MarketOrder     == <<"call">>
RequestWithdraw == <<"call">>
NotifyDeposit   == <<"ask">>

\* What the dispatcher awaits of them for a step.
ExecuteWrap        == BridgeWrap
ExecuteUnwrap      == <<"ask">> \o BridgeUnwrap
ExecuteCexDeposit  == NotifyDeposit
ExecuteCexWithdraw == <<"ask">> \o RequestWithdraw

Script(op) ==
    CASE op = "swapEVM"   -> ExecuteSwap
      [] op = "lpMint"    -> ExecuteLpMint
      [] op = "lpBurn"    -> ExecuteLpBurn
      [] op = "lpCollect" -> ExecuteLpCollect
      [] op = "unwrap"    -> ExecuteUnwrap
      [] op = "wrap"      -> ExecuteWrap
      [] op \in {"nativeMint", "nativeRedeem"} -> DoConversion
      [] op = "tradeCEX"  -> MarketOrder
      [] op = "withdraw"  -> ExecuteCexWithdraw
      [] op = "deposit"   -> ExecuteCexDeposit

At(await) == ~Ended /\ at # 0 /\ Script(step.op)[at] = await

\* What the dispatcher or an executor asks of a step before it sets anything going.
Pair(s) == <<s.from[1], s.to[1]>>

\* The conversions of the wallet: a mint is told by its target alone, a redemption by both coins.
Mints == {<<"ZEPH", "ZSD">>, <<"ZEPH", "ZRS">>, <<"ZSD", "ZYS">>}
Redemptions == {<<p[2], p[1]>> : p \in Mints}

Conversions(s) == {p \in IF s.op = "nativeMint" THEN Mints ELSE Redemptions :
                      p[2] = s.to[1] /\ (s.op = "nativeRedeem" => p[1] = s.from[1])}

SwapDispatchable(s)    == s.ctx
Tradeable(s)           == Pair(s) \in {<<"ZEPH", "USDT">>, <<"USDT", "ZEPH">>}
Mintable(s)            == Conversions(s) # {}
Redeemable(s)          == Conversions(s) # {}
Unwrappable(s)         == s.from[1] # "USDT"
Withdrawable(s)        == wallets /\ s.from[1] = "ZEPH"
LpMintDispatchable(s)  == s.ctx /\ s.lp.lower # 0 /\ s.lp.upper # 0
LpBurnDispatchable(s)  == s.ctx /\ s.lp.id
LpCollectDispatchable(s) == s.ctx /\ s.lp.id

Dispatchable(s) ==
    CASE s.op = "swapEVM"      -> SwapDispatchable(s)
      [] s.op = "tradeCEX"     -> Tradeable(s)
      [] s.op = "nativeMint"   -> Mintable(s)
      [] s.op = "nativeRedeem" -> Redeemable(s)
      [] s.op = "unwrap"       -> Unwrappable(s)
      [] s.op = "withdraw"     -> Withdrawable(s)
      [] s.op = "lpMint"       -> LpMintDispatchable(s)
      [] s.op = "lpBurn"       -> LpBurnDispatchable(s)
      [] s.op = "lpCollect"    -> LpCollectDispatchable(s)
      [] s.op \in {"wrap", "deposit"} -> TRUE

\* The result of a step, and its amountOut handed to the next one unless it is missing or zero.
Finish(result, amountOut) ==
    /\ results' = Append(results, result)
    /\ at' = 0
    /\ plan' = IF result = "success" /\ amountOut > 0 /\ Current < Len(plan)
               THEN [plan EXCEPT ![Current + 1].amountIn = amountOut]
               ELSE plan

Share(amount, perMille) == (amount * perMille) \div 1000

\* amountOut of a simulated step.
Simulated(s) ==
    CASE s.op = "swapEVM" /\ s.expected = None  -> Share(s.amountIn, 997)
      [] s.op = "tradeCEX" /\ s.expected = None -> Share(s.amountIn, 999)
      [] s.op \in {"swapEVM", "tradeCEX", "nativeMint", "nativeRedeem"} /\ s.expected # None -> s.expected
      [] s.op = "lpCollect" -> 50
      [] OTHER -> s.amountIn

Unmoved == UNCHANGED <<config, move, coming, funds, lost, below, troubles>>

SkipStep ==
    /\ ~Ended /\ at = 0 /\ dryRun
    /\ Finish("skipped", None)
    /\ Unmoved

Simulate ==
    /\ ~Ended /\ at = 0 /\ ~dryRun /\ mode = "paper"
    /\ Finish("success", Simulated(step))
    /\ Unmoved

Refuse ==
    /\ ~Ended /\ at = 0 /\ ~dryRun /\ mode # "paper" /\ ~Dispatchable(step)
    /\ Finish("failed", None)
    /\ Unmoved

Dispatch ==
    /\ ~Ended /\ at = 0 /\ ~dryRun /\ mode # "paper" /\ Dispatchable(step)
    /\ at' = 1
    /\ UNCHANGED <<plan, results>> /\ Unmoved

-----------------------------------------------------------------------------
(* Awaits *)

\* An address, an allowance, a prepared unwrap, or the notice of a deposit, which moves nothing.
Answer ==
    /\ At("ask") \/ At("approve")
    /\ IF at < Len(Script(step.op))
       THEN at' = at + 1 /\ UNCHANGED <<plan, results>>
       ELSE Finish("success", step.amountIn)
    /\ Unmoved

InTrouble == troubles < MaxTroubles /\ troubles' = troubles + 1

\* The call is refused, or throws before it has any effect.
Throw ==
    /\ ~Ended /\ at # 0 /\ ~At("receipt")
    /\ InTrouble
    /\ Finish("failed", None)
    /\ UNCHANGED <<config, move, coming, funds, lost, below>>

Sent == move' = [move EXCEPT ![Current] = "pending"]

\* Mutant: the hash of a transaction is taken for its receipt.
SendAndForget ==
    /\ At("send")
    /\ Sent /\ Finish("success", None)
    /\ UNCHANGED <<config, coming, funds, lost, below, troubles>>

Send ==
    /\ At("send")
    /\ Sent /\ at' = at + 1
    /\ UNCHANGED <<config, plan, results, coming, funds, lost, below, troubles>>

SendUnanswered ==
    /\ At("send") /\ InTrouble
    /\ Sent /\ Finish("failed", None)
    /\ lost' = lost \cup {Current}
    /\ UNCHANGED <<config, coming, funds, below>>

\* Mutant: the status of the receipt is misread.
ReceiptMisread ==
    /\ At("receipt") /\ move[Current] \in {"done", "reverted"}
    /\ Finish(IF move[Current] = "done" THEN "failed" ELSE "success", None)
    /\ Unmoved

\* Mutant: a reverted transaction is waited for.
ReceiptOfSuccess ==
    /\ At("receipt") /\ move[Current] = "done"
    /\ Finish("success", None)
    /\ Unmoved

Receipt ==
    /\ At("receipt") /\ move[Current] \in {"done", "reverted"}
    /\ Finish(IF move[Current] = "done" THEN "success" ELSE "failed", None)
    /\ Unmoved

\* The transaction may still be mined.
ReceiptTimesOut ==
    /\ At("receipt") /\ InTrouble
    /\ Finish("failed", None)
    /\ lost' = lost \cup {Current}
    /\ UNCHANGED <<config, move, coming, funds, below>>

-----------------------------------------------------------------------------
(* What the venues do *)

\* A conversion spends what its name says, whatever the step is from.
Source(s) ==
    IF s.op \in {"nativeMint", "nativeRedeem"}
    THEN CHOOSE a \in Assets : a[2] = "n" /\ <<a[1], s.to[1]>> \in Conversions(s)
    ELSE s.from

Estimate(s) == IF s.expected = None THEN s.amountIn ELSE s.expected

\* Mutant: swaps at any price.
NoMinimum(s) == 0

\* amountOutMin of a swap.
AmountOutMin(s) == IF s.expected = None THEN 0 ELSE s.expected

\* Mutant: the balance is not checked.
PayOnCredit(k, spent, got, later) ==
    LET s == plan[k]
        paid == [funds EXCEPT ![Source(s)] = @ - spent]
    IN  /\ funds' = IF later THEN paid ELSE [paid EXCEPT ![s.to] = @ + got]
        /\ coming' = [coming EXCEPT ![k] = IF later THEN got ELSE 0]
        /\ move' = [move EXCEPT ![k] = "done"]

\* spent: how much leaves its source; got: how much arrives at s.to, at once or later.
Pay(k, spent, got, later) ==
    LET s == plan[k]
        paid == [funds EXCEPT ![Source(s)] = @ - spent]
    IN  /\ spent <= funds[Source(s)]
        /\ funds' = IF later THEN paid ELSE [paid EXCEPT ![s.to] = @ + got]
        /\ coming' = [coming EXCEPT ![k] = IF later THEN got ELSE 0]
        /\ move' = [move EXCEPT ![k] = "done"]

Converted(s) == {out \in {Estimate(s) + d : d \in Slips} : out >= 0}

MineSwap(k) ==
    \E out \in Converted(plan[k]) : out >= AmountOutMin(plan[k]) /\ Pay(k, plan[k].amountIn, out, FALSE)

\* The bridge pays out what was burned, less its fee.
LessFee(amount) == amount - (amount * UnwrapFeeBps) \div 10000

MineBurn(k) == Pay(k, plan[k].amountIn, LessFee(plan[k].amountIn), TRUE)

\* A transaction takes effect.
Mine(k) ==
    /\ k <= Len(plan) /\ move[k] = "pending"
    /\ CASE plan[k].op = "swapEVM" -> MineSwap(k)
         [] plan[k].op = "unwrap"  -> MineBurn(k)
         [] OTHER -> Pay(k, 0, 0, FALSE)
    /\ UNCHANGED <<config, plan, results, at, lost, below, troubles>>

\* It is mined and reverts: the price has moved, or the wallet is empty.
Revert(k) ==
    /\ k <= Len(plan) /\ move[k] = "pending"
    /\ move' = [move EXCEPT ![k] = "reverted"]
    /\ UNCHANGED <<config, plan, results, at, coming, funds, lost, below, troubles>>

\* A trade's quantity is that of the base asset, whichever side it is on.
Buys(s) == s.op = "tradeCEX" /\ s.from[1] = "USDT"

Due(s) == IF Buys(s) THEN s.amountIn * ExchangePrice ELSE s.amountIn

\* doConversion asks for whole precisions and leaves the rest where it is.
Truncated(amount) == (amount \div Precision) * Precision

\* Calls that take effect when they are made: RPCs of the wallet and orders at the exchange.
Convert ==
    \E out \in Converted(step) :
        /\ Pay(Current, Truncated(step.amountIn), out, FALSE)
        /\ below' = (below \/ out < Estimate(step))

SendToBridge == Pay(Current, step.amountIn, step.amountIn, TRUE) /\ UNCHANGED below

Withdraw == Pay(Current, step.amountIn, step.amountIn, TRUE) /\ UNCHANGED below

\* The exchange of the development network fills every order at its price, and moves nothing.
TradeByWallets == UNCHANGED <<funds, coming, move, below>>

TradeOnExchange ==
    /\ Pay(Current, Due(step), IF Buys(step) THEN step.amountIn ELSE step.amountIn * ExchangePrice, FALSE)
    /\ UNCHANGED below

CallTakesEffect ==
    CASE step.op \in {"nativeMint", "nativeRedeem"} -> Convert
      [] step.op = "wrap"     -> SendToBridge
      [] step.op = "withdraw" -> Withdraw
      [] step.op = "tradeCEX" -> IF wallets THEN TradeByWallets ELSE TradeOnExchange

\* Mutant: a withdrawal reports its amount net of a fee that was not taken from it.
AmountOutNet(s) == IF s.op \in {"tradeCEX", "withdraw"} THEN s.amountIn - 1 ELSE None

\* executedQty for a trade, the amount for a withdrawal; the others report none.
AmountOut(s) == IF s.op \in {"tradeCEX", "withdraw"} THEN s.amountIn ELSE None

Call ==
    /\ At("call")
    /\ CallTakesEffect
    /\ Finish("success", AmountOut(step))
    /\ UNCHANGED <<config, lost, troubles>>

CallUnanswered ==
    /\ At("call") /\ InTrouble
    /\ CallTakesEffect
    /\ Finish("failed", None)
    /\ lost' = lost \cup {Current}
    /\ UNCHANGED config

CallRefused ==
    /\ At("call")
    /\ Due(step) > funds[Source(step)] /\ ~(step.op = "tradeCEX" /\ wallets)
    /\ Finish("failed", None)
    /\ Unmoved

\* The bridge pays out an unwrap, somebody claims a wrap, a withdrawal is confirmed.
Arrive(k) ==
    /\ k <= Len(plan) /\ coming[k] > 0
    /\ funds' = [funds EXCEPT ![plan[k].to] = @ + coming[k]]
    /\ coming' = [coming EXCEPT ![k] = 0]
    /\ UNCHANGED <<config, plan, results, at, move, lost, below, troubles>>

MaxSteps == 4

Progress ==
    \/ SkipStep \/ Simulate \/ Refuse \/ Dispatch
    \/ Answer \/ Send \/ Receipt \/ Call \/ CallRefused

Trouble == Throw \/ SendUnanswered \/ ReceiptTimesOut \/ CallUnanswered

Venues == \E k \in 1..MaxSteps : Mine(k) \/ Revert(k) \/ Arrive(k)

Next == Progress \/ Trouble \/ Venues

Spec == Init /\ [][Next]_vars

\* Answers come, and transactions are mined; nothing has to go wrong.
FairSpec == Spec /\ WF_vars(Progress) /\ WF_vars(Venues)

-----------------------------------------------------------------------------
(* Properties *)

\* A step that is reported failed has spent nothing, and nothing of it is under way, unless its
\* answer was lost (a timeout of the receipt, an RPC that did not answer); and then it is the last.
OnlyLostAnswersSpendSilently ==
    \A k \in 1..Len(results) :
        results[k] = "failed" /\ move[k] \in {"pending", "done"} =>
            k \in lost /\ k = Len(results)

\* A step that is reported successful has been paid for, before the next one starts: except that a
\* deposit only notifies, and that the exchange of the development network trades nothing.
Immaterial(s) == s.op = "deposit" \/ (s.op = "tradeCEX" /\ wallets)

SuccessMeansDone ==
    mode # "paper" =>
        \A k \in 1..Len(results) :
            results[k] = "success" => move[k] = IF Immaterial(plan[k]) THEN "none" ELSE "done"

Settled == \A k \in 1..Len(plan) : coming[k] = 0 /\ move[k] # "pending"

Succeeded == Len(results) = Len(plan) /\ \A k \in 1..Len(plan) : results[k] = "success"

\* A plan whose steps hand one asset on until it is back where it began.
IsRoundTrip(p) ==
    /\ p[1].from = p[Len(p)].to
    /\ \A k \in 1..Len(p) - 1 : p[k].to = p[k + 1].from

\* A round trip that has succeeded and settled, and whose conversions gave what was estimated, has
\* drawn on no inventory but that of the asset it started with: the amounts fixed when it was
\* planned, which the engine does not correct by what a step really gave, never exceed it.
RoundTripsPayForThemselves ==
    mode # "paper" /\ Succeeded /\ Settled /\ IsRoundTrip(plan) /\ ~below =>
        \A a \in Assets \ {plan[1].from} : funds[a] >= Initially[a]

\* A rebalancing that has succeeded and settled, without a deposit, has moved its amount from the
\* first place to the last, less what the bridge keeps, and leaves nothing on the way.
IsTransfer(p) == \A k \in 1..Len(p) : p[k].op \in {"wrap", "unwrap", "withdraw"}

RebalancingMovesItsAmount ==
    mode # "paper" /\ Succeeded /\ Settled /\ IsTransfer(plan) =>
        LET amount == plan[1].amountIn
            left == IF plan[1].op = "unwrap" THEN LessFee(amount) ELSE amount
        IN  \A a \in Assets : funds[a] = Initially[a] + (IF a = plan[Len(plan)].to THEN left ELSE 0)
                                                    - (IF a = plan[1].from THEN amount ELSE 0)

\* What a step spends, and what it brings when it comes to what was estimated (a swap that was not
\* brings anything).
Spends(s) == IF s.op \in {"lpMint", "lpBurn", "lpCollect"} THEN 0 ELSE s.amountIn

Brings(s) ==
    CASE s.op = "swapEVM" -> IF s.expected = None THEN 0 ELSE s.expected
      [] s.op \in {"nativeMint", "nativeRedeem"} -> Estimate(s)
      [] s.op = "unwrap" -> LessFee(s.amountIn)
      [] OTHER -> Spends(s)

Convertible(s) == s.op \in {"nativeMint", "nativeRedeem"} => Conversions(s) # {}

\* How the strategies make plans: a rebalancing is one transfer, or a second one of the same amount
\* from where the first went (rebalancer.ts, buildRebalanceSteps); a round trip converts, without
\* an order at the exchange, and no step is planned to spend more than the one before it brings, when
\* the bridge keeps the fee it has quoted (arbitrage.execution.ts, buildExecutionSteps).
ASSUME PlansAssumption ==
    \A p \in Plans :
        /\ Len(p) \in 1..MaxSteps
        /\ IsTransfer(p) =>
            \/ Len(p) = 1
            \/ /\ Len(p) = 2 /\ p[1].op # "unwrap" /\ p[2].op # "unwrap"
               /\ p[2].from = p[1].to /\ p[2].amountIn = p[1].amountIn
        /\ IsRoundTrip(p) => \A k \in 1..Len(p) :
            /\ p[k].op \notin {"tradeCEX", "deposit", "withdraw"}
            /\ Convertible(p[k]) => Source(p[k]) = p[k].from
            /\ k < Len(p) => Spends(p[k + 1]) <= Brings(p[k])

\* A plan is not executed for ever: each step ends by an answer, a receipt, or an exception.
EveryPlanEnds == <>Ended
===============================================================================
