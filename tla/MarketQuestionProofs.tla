-------------------------- MODULE MarketQuestionProofs --------------------------
(***************************************************************************)
(* What is proved of the questions a behaviour of the Market asks once     *)
(* (which pool, quote, plan or path), of the plans the strategies make,    *)
(* and of the types of all its parts.                                      *)
(***************************************************************************)
EXTENDS MarketProofs

USE DEF rowsVars, strategyVars, clipVars, stateVars, accountVars, fileVars, relayVars, reserveVars, tableVars,
        others, paperVars

-----------------------------------------------------------------------------
(* The choice among the pools of a pair *)

\* What is chosen of the first n rows, for every n up to some number.
Chooses(f, metas, n) ==
    /\ f = [k \in 0..n |-> f[k]]
    /\ f[0] = Global!RequiredPool
    /\ \A k \in 1..n :
        f[k] = IF k = 1 \/ Global!ShouldReplacePool(f[k - 1], Global!PoolOf(metas[k]))
               THEN Global!PoolOf(metas[k]) ELSE f[k - 1]

\* There is such a choice, whatever the rows.
LEMMA ChoiceExists ==
    ASSUME NEW metas, NEW n \in Nat
    PROVE  \E f : Chooses(f, metas, n)
<1> DEFINE S == {m \in Nat : \E f : Chooses(f, metas, m)}
<1>1. 0 \in S
  <2> DEFINE f == [k \in 0..0 |-> Global!RequiredPool]
  <2>1. f[0] = Global!RequiredPool /\ f = [k \in 0..0 |-> f[k]]
    OBVIOUS
  <2> HIDE DEF f
  <2>2. Chooses(f, metas, 0)
    BY <2>1 DEF Chooses
  <2> QED
    BY <2>2
<1>2. ASSUME NEW m \in Nat, m \in S
      PROVE  m + 1 \in S
  <2>1. PICK f : Chooses(f, metas, m)
    BY <1>2
  <2> DEFINE pool == Global!PoolOf(metas[m + 1])
             last == IF m + 1 = 1 \/ Global!ShouldReplacePool(f[m], pool) THEN pool ELSE f[m]
             g == [k \in 0..m + 1 |-> IF k = m + 1 THEN last ELSE f[k]]
  <2>2. g = [k \in 0..m + 1 |-> g[k]] /\ g[m + 1] = last /\ \A k \in 0..m : g[k] = f[k]
    <3> HIDE DEF last
    <3> QED
      OBVIOUS
  <2> HIDE DEF g
  <2>3. ASSUME NEW k \in 1..m + 1
        PROVE  g[k] = IF k = 1 \/ Global!ShouldReplacePool(g[k - 1], Global!PoolOf(metas[k]))
                      THEN Global!PoolOf(metas[k]) ELSE g[k - 1]
    <3>1. CASE k = m + 1
      <4>1. k - 1 = m /\ m \in 0..m
        BY <3>1
      <4>2. g[k] = last /\ g[k - 1] = f[m]
        BY <2>2, <3>1, <4>1, Zenon
      <4>3. k = 1 <=> m + 1 = 1
        BY <3>1
      <4> QED
        BY <3>1, <4>2, <4>3, Zenon
    <3>2. CASE k \in 1..m
      <4>1. k \in 0..m /\ k - 1 \in 0..m
        BY <3>2
      <4>2. g[k] = f[k] /\ g[k - 1] = f[k - 1]
        BY <2>2, <4>1, Zenon
      <4>3. f[k] = IF k = 1 \/ Global!ShouldReplacePool(f[k - 1], Global!PoolOf(metas[k]))
                   THEN Global!PoolOf(metas[k]) ELSE f[k - 1]
        BY <2>1, <3>2, Zenon DEF Chooses
      <4> QED
        BY <4>2, <4>3
    <3> QED
      BY <3>1, <3>2
  <2>4. g[0] = Global!RequiredPool
    <3>1. 0 \in 0..m
      OBVIOUS
    <3> QED
      BY <2>1, <2>2, <3>1, Zenon DEF Chooses
  <2>5. Chooses(g, metas, m + 1)
    <3> HIDE DEF last, pool
    <3> QED
      BY <2>2, <2>3, <2>4 DEF Chooses
  <2> QED
    BY <2>5
<1> HIDE DEF S
<1>3. Nat \subseteq S
  BY <1>1, <1>2, Inductively
<1> QED
  BY <1>3 DEF S

\* A choice once made of a pool with a price is only given up for one with a price, and none
\* without a price keeps out one with it.
LEMMA ChoiceIsPriced ==
    ASSUME NEW metas, NEW f, NEW n \in Nat, Chooses(f, metas, n),
           \E i \in 1..n : Global!Priced(Global!PoolOf(metas[i]))
    PROVE  Global!Priced(f[n])
<1> DEFINE S == {m \in Nat : m <= n =>
                    ((\E i \in 1..m : Global!Priced(Global!PoolOf(metas[i]))) => Global!Priced(f[m]))}
<1>1. 0 \in S
  OBVIOUS
<1>2. ASSUME NEW m \in Nat, m \in S
      PROVE  m + 1 \in S
  <2> SUFFICES ASSUME m + 1 <= n, NEW i \in 1..m + 1, Global!Priced(Global!PoolOf(metas[i]))
               PROVE  Global!Priced(f[m + 1])
    OBVIOUS
  <2> DEFINE pool == Global!PoolOf(metas[m + 1])
  <2>1. f[m + 1] = IF m + 1 = 1 \/ Global!ShouldReplacePool(f[m], pool) THEN pool ELSE f[m]
    <3>1. m + 1 \in 1..n /\ (m + 1) - 1 = m
      OBVIOUS
    <3> HIDE DEF pool
    <3>2. \A k \in 1..n : f[k] = IF k = 1 \/ Global!ShouldReplacePool(f[k - 1], Global!PoolOf(metas[k]))
                               THEN Global!PoolOf(metas[k]) ELSE f[k - 1]
      BY DEF Chooses
    <3> QED
      BY <3>1, <3>2 DEF pool
  <2> HIDE DEF pool
  <2>2. CASE i = m + 1
    <3>1. Global!Priced(pool)
      BY <2>2 DEF pool
    <3> QED
      BY <2>1, <3>1 DEF Global!ShouldReplacePool, Global!Priced
  <2>3. CASE i \in 1..m
    <3>1. Global!Priced(f[m]) /\ m + 1 # 1
      BY <1>2, <2>3
    <3> QED
      BY <2>1, <3>1 DEF Global!ShouldReplacePool
  <2> QED
    BY <2>2, <2>3
<1> HIDE DEF S
<1>3. n \in S
  BY <1>1, <1>2, Inductively
<1> QED
  BY <1>3 DEF S

\* And it is the choice that buildEvmState makes.
LEMMA ChosenPool ==
    ASSUME NEW T, NEW metas \in Seq(T)
    PROVE  \E f : Chooses(f, metas, Len(metas)) /\ Global!ChoosePool(metas) = f[Len(metas)]
<1> DEFINE n0 == Len(metas)
           pools == [i \in DOMAIN metas |-> Global!PoolOf(metas[i])]
           F(g) == [n \in 0..n0 |->
                      IF n = 0 THEN Global!RequiredPool
                      ELSE IF n = 1 \/ Global!ShouldReplacePool(g[n - 1], pools[n]) THEN pools[n] ELSE g[n - 1]]
           g == CHOOSE h : h = F(h)
<1>1. n0 \in Nat /\ DOMAIN metas = 1..n0
  OBVIOUS
<1>2. PICK f : Chooses(f, metas, n0)
  BY <1>1, ChoiceExists
<1>3. \A i \in 1..n0 : pools[i] = Global!PoolOf(metas[i])
  BY <1>1
<1> HIDE DEF n0, pools
<1>4. \A k \in 0..n0 : k = 0 \/ k \in 1..n0
  BY <1>1
<1>5. f = F(f)
  <2>1. ASSUME NEW k \in 0..n0
        PROVE  f[k] = IF k = 0 THEN Global!RequiredPool
                      ELSE IF k = 1 \/ Global!ShouldReplacePool(f[k - 1], pools[k]) THEN pools[k] ELSE f[k - 1]
    BY <1>2, <1>3, <1>4 DEF Chooses
  <2>2. f = [k \in 0..n0 |-> f[k]]
    BY <1>2 DEF Chooses
  <2> QED
    BY <2>1, <2>2
<1>6. g = F(g)
  BY <1>5
<1>7. Global!ChoosePool(metas) = g[n0]
  BY DEF Global!ChoosePool, n0, pools
<1> HIDE DEF g
<1>8. Chooses(g, metas, n0)
  BY <1>1, <1>3, <1>6 DEF Chooses
<1> QED
  BY <1>7, <1>8 DEF n0

\* A pair is quoted at a price if any of its pools has one: in whatever order the rows of the table
\* come, whichever of them has the greater value or the later swap (state/state.evm.ts,
\* shouldReplacePool).
THEOREM ChosenIsPriced == MarketSpec => []ChosenPoolIsPriced
<1> DEFINE Kept == part = "pools" => case \in PoolCases
<1>1. ASSUME NEW metas \in PoolCases
      PROVE  Global!ChosenIsPriced(metas)
  <2>1. metas \in Seq(Global!Metas)
    BY MarketAssumption DEF MarketAssumption
  <2>2. PICK f : Chooses(f, metas, Len(metas)) /\ Global!ChoosePool(metas) = f[Len(metas)]
    BY <2>1, ChosenPool
  <2>3. Len(metas) \in Nat /\ DOMAIN metas = 1..Len(metas)
    BY <2>1
  <2> QED
    BY <2>2, <2>3, ChoiceIsPriced DEF Global!ChosenIsPriced
<1>2. MarketInit => Kept
  BY DEF MarketInit, Lasting
<1>3. Kept /\ [MarketNext]_allVars => Kept'
  BY PartsStep
<1>4. Kept => ChosenPoolIsPriced
  BY <1>1 DEF ChosenPoolIsPriced
<1> QED
  BY <1>2, <1>3, <1>4, PTL DEF MarketSpec

-----------------------------------------------------------------------------
(* The plans of the strategies and the policy of the reserve *)

\* The conversions that the reserve may refuse.
NativeOps == {"nativeMint", "nativeRedeem"}

\* The elements of a sequence put together of four.
LEMMA OneOfFour ==
    ASSUME NEW S, NEW a \in Seq(S), NEW b \in Seq(S), NEW c \in Seq(S), NEW d \in Seq(S)
    PROVE  \A i \in DOMAIN (a \o b \o c \o d) : (a \o b \o c \o d)[i] \in S
<1>1. a \o b \in Seq(S)
  OBVIOUS
<1> DEFINE ab == a \o b
<1> HIDE DEF ab
<1>2. ab \o c \in Seq(S)
  BY <1>1 DEF ab
<1> DEFINE abc == ab \o c
<1> HIDE DEF abc
<1>3. abc \o d \in Seq(S)
  BY <1>2 DEF abc
<1> DEFINE abcd == abc \o d
<1> HIDE DEF abcd
<1>4. abcd \in Seq(S)
  BY <1>3 DEF abcd
<1>5. \A i \in DOMAIN abcd : abcd[i] \in S
  BY <1>4
<1> QED
  BY <1>5 DEF ab, abc, abcd

\* The steps of an arbitrage: the open swap, the close, and the bridge before and after it.
LEMMA ArbStepsAre ==
    ASSUME NEW leg, NEW close, NEW clip, NEW st
    PROVE  LET steps == Runs!BuildExecutionSteps(leg, close, clip, st)
           IN  \A i \in DOMAIN steps :
                   \/ steps[i].op \in {leg.open.op, "unwrap", "wrap"}
                   \/ /\ steps[i].op = close.op
                      /\ steps[i].from = close.from /\ steps[i].to = close.to
<1> DEFINE steps == Runs!BuildExecutionSteps(leg, close, clip, st)
           Fits(s) == \/ s.op \in {leg.open.op, "unwrap", "wrap"}
                      \/ s.op = close.op /\ s.from = close.from /\ s.to = close.to
<1>1. PICK x, y, z, w, p, q :
        /\ steps = <<x>> \o (IF p THEN <<y>> ELSE <<>>) \o <<z>> \o (IF q THEN <<w>> ELSE <<>>)
        /\ Fits(x) /\ Fits(y) /\ Fits(z) /\ Fits(w)
  <2> DEFINE ctx      == Runs!LookupSwapContext(leg.open.from, leg.open.to, st)
             fee      == IF ctx THEN Runs!PoolFee(leg.open.from, leg.open.to, st) ELSE 0
             opened   == Runs!EstimateSwapOutput(clip, Runs!StepPrice(leg.open, st), fee, 50)
             bridged  == leg.open.to[2] = "e" /\ close.from[2] = "n"
             unwraps  == IF bridged THEN opened - Runs!Share(opened, st.unwrapFeeBps) ELSE opened
             takerFee == IF close.op = "tradeCEX" THEN st.takerBps * 100 ELSE 0
             closed   == Runs!EstimateSwapOutput(unwraps, Runs!StepPrice(close, st), takerFee, 50)
             wraps    == closed - Runs!Share(closed, st.wrapFeeBps)
             x == Runs!Step(leg.open.op, leg.open.from, leg.open.to, clip, opened, ctx)
             y == Runs!Step("unwrap", leg.open.to, Runs!Asset(leg.open.to[1], "n"), opened, unwraps, FALSE)
             z == Runs!Step(close.op, close.from, close.to, unwraps, closed, FALSE)
             w == Runs!Step("wrap", close.to, Runs!Asset(close.to[1], "e"), closed, wraps, FALSE)
             p == bridged
             q == close.to[2] = "n"
  <2>1. steps = <<x>> \o (IF p THEN <<y>> ELSE <<>>) \o <<z>> \o (IF q THEN <<w>> ELSE <<>>)
    BY Zenon DEF Runs!BuildExecutionSteps
  <2> HIDE DEF steps, ctx, fee, opened, bridged, unwraps, takerFee, closed, wraps
  <2>2. x.op = leg.open.op /\ y.op = "unwrap" /\ w.op = "wrap"
    BY DEF Runs!Step
  <2>3. z.op = close.op /\ z.from = close.from /\ z.to = close.to
    BY DEF Runs!Step
  <2> HIDE DEF x, y, z, w, p, q
  <2>4. Fits(x) /\ Fits(y) /\ Fits(z) /\ Fits(w)
    BY <2>2, <2>3
  <2> QED
    BY <2>1, <2>4
<1> DEFINE S == {x, y, z, w}
<1> HIDE DEF steps
<1>2. \A i \in DOMAIN steps : steps[i] \in S
  <2> DEFINE a == <<x>>
             b == IF p THEN <<y>> ELSE <<>>
             c == <<z>>
             d == IF q THEN <<w>> ELSE <<>>
  <2>1. a \in Seq(S) /\ b \in Seq(S) /\ c \in Seq(S) /\ d \in Seq(S)
    <3>1. x \in S /\ y \in S /\ z \in S /\ w \in S
      OBVIOUS
    <3> HIDE DEF S
    <3>2. <<x>> \in Seq(S) /\ <<y>> \in Seq(S) /\ <<z>> \in Seq(S) /\ <<w>> \in Seq(S) /\ <<>> \in Seq(S)
      BY <3>1
    <3> QED
      BY <3>2
  <2> HIDE DEF a, b, c, d, S
  <2>2. \A i \in DOMAIN (a \o b \o c \o d) : (a \o b \o c \o d)[i] \in S
    BY <2>1, OneOfFour
  <2>3. steps = a \o b \o c \o d
    BY <1>1 DEF a, b, c, d
  <2> QED
    BY <2>2, <2>3
<1>3. \A s \in S : Fits(s)
  BY <1>1
<1> QED
  BY <1>2, <1>3 DEF steps

\* What the planner looks up of a leg.
IsLeg(leg, asset, direction, native, cex) ==
    /\ leg.open.op = "swapEVM" /\ leg.asset = asset /\ leg.direction = direction
    /\ leg.native = native /\ leg.cex = cex

LEMMA LegIs ==
    ASSUME NEW asset, NEW direction, NEW from, NEW to, NEW native, NEW cex
    PROVE  IsLeg(Runs!Leg(asset, direction, Runs!OpenSwap(from, to), native, cex), asset, direction, native, cex)
BY DEF Runs!Leg, Runs!OpenSwap, Runs!Hop, IsLeg

LEMMA LegFacts ==
    ASSUME NEW leg \in Runs!ArbDefs
    PROVE
        \/ IsLeg(leg, "ZEPH", "evm_discount", Runs!Conversion("ZEPH", "ZSD", "nativeMint"),
                 Runs!Hop(Runs!Asset("ZEPH", "x"), Runs!Asset("USDT", "x"), "tradeCEX"))
        \/ IsLeg(leg, "ZEPH", "evm_premium", Runs!Conversion("ZSD", "ZEPH", "nativeRedeem"),
                 Runs!Hop(Runs!Asset("USDT", "x"), Runs!Asset("ZEPH", "x"), "tradeCEX"))
        \/ IsLeg(leg, "ZSD", "evm_discount", Runs!Hop(Runs!Asset("ZSD", "e"), Runs!Asset("ZSD", "n"), "unwrap"),
                 Runs!NoHop)
        \/ IsLeg(leg, "ZSD", "evm_premium", Runs!Conversion("ZEPH", "ZSD", "nativeMint"),
                 Runs!NoHop)
        \/ IsLeg(leg, "ZRS", "evm_discount", Runs!Conversion("ZRS", "ZEPH", "nativeRedeem"),
                 Runs!NoHop)
        \/ IsLeg(leg, "ZRS", "evm_premium", Runs!Conversion("ZEPH", "ZRS", "nativeRedeem"),
                 Runs!NoHop)
        \/ IsLeg(leg, "ZYS", "evm_discount", Runs!Conversion("ZYS", "ZSD", "nativeRedeem"),
                 Runs!NoHop)
        \/ IsLeg(leg, "ZYS", "evm_premium", Runs!Conversion("ZSD", "ZYS", "nativeMint"),
                 Runs!NoHop)
BY LegIs DEF Runs!ArbDefs

\* Where the native close is not available, the close makes no conversion; where it is, the reserve
\* permits it.
LEMMA ClosePermitted ==
    ASSUME NEW st, NEW f \in Runs!ArbFindings(st), f.asset # "ZSD"
    PROVE  LET close == Runs!CloseOf(Runs!LegOf(f), f.context.native)
           IN  close.op \in NativeOps => Runs!Permitted(close.from[1], close.to[1], st.reserve.policy)
<1> DEFINE policy == st.reserve.policy
           m == Runs!LegOf(f)
<1>1. PICK leg \in Runs!ArbDefs :
        /\ f.asset = leg.asset /\ f.direction = leg.direction
        /\ f.context.native = Runs!IsNativeCloseAvailable(leg, policy)
        /\ f.context.native \/ leg.cex # Runs!NoHop
  <2>1. PICK leg \in Runs!ArbDefs : /\ Runs!HasOpportunity(leg, Runs!LegAnalysis(leg, st))
                                   /\ f = Runs!ArbOpportunity(leg, Runs!LegAnalysis(leg, st))
    BY DEF Runs!ArbFindings
  <2>2. /\ f.asset = leg.asset /\ f.direction = leg.direction /\ f.context = Runs!LegAnalysis(leg, st)
    BY <2>1 DEF Runs!ArbOpportunity, Runs!Opportunity
  <2>3. Runs!LegAnalysis(leg, st).native = Runs!IsNativeCloseAvailable(leg, policy)
    BY DEF Runs!LegAnalysis
  <2>4. Runs!LegAnalysis(leg, st).native \/ leg.cex # Runs!NoHop
    BY <2>1 DEF Runs!HasOpportunity, Runs!LegAnalysis
  <2> QED
    BY <2>2, <2>3, <2>4
<1>2. m \in Runs!ArbDefs /\ m.asset = f.asset /\ m.direction = f.direction
  BY <1>1 DEF Runs!LegOf
<1> HIDE DEF m, policy
<1> DEFINE native == f.context.native
           close == Runs!CloseOf(m, native)
<1>3. close = IF native \/ m.cex = Runs!NoHop THEN m.native ELSE m.cex
  BY DEF Runs!CloseOf
<1> HIDE DEF close
<1> SUFFICES close.op \in NativeOps => Runs!Permitted(close.from[1], close.to[1], policy)
  BY DEF close, m, policy
<1> HIDE DEF native
<1>4. native = Runs!IsNativeCloseAvailable(leg, policy) /\ (native \/ leg.cex # Runs!NoHop)
  BY <1>1 DEF native
<1> DEFINE C(a, b, kind) == Runs!Conversion(a, b, kind)
<1>5. \A a, b, kind : LET h == C(a, b, kind) IN h.op = kind /\ h.from[1] = a /\ h.to[1] = b
  BY DEF Runs!Conversion, Runs!Hop, Runs!Asset
<1>6. CASE f.asset = "ZEPH"
  <2>1. m.cex # Runs!NoHop /\ m.cex.op = "tradeCEX"
    <3>1. PICK a, b : m.cex = Runs!Hop(a, b, "tradeCEX")
      BY <1>2, <1>6, LegFacts DEF IsLeg
    <3>2. m.cex.op = "tradeCEX"
      BY <3>1 DEF Runs!Hop
    <3>3. Runs!NoHop.op = ""
      BY DEF Runs!NoHop, Runs!Hop
    <3> QED
      BY <3>2, <3>3
  <2>2. CASE ~native
    BY <1>3, <2>1, <2>2 DEF NativeOps
  <2>3. CASE native
    <3>1. CASE f.direction = "evm_discount"
      <4>1. m.native = C("ZEPH", "ZSD", "nativeMint")
        BY <1>2, <1>6, <3>1, LegFacts DEF IsLeg
      <4>2. policy.zsdMintable
        BY <1>1, <1>4, <1>6, <2>3, <3>1 DEF Runs!IsNativeCloseAvailable
      <4>3. close.from[1] = "ZEPH" /\ close.to[1] = "ZSD"
        BY <1>3, <1>5, <2>3, <4>1
      <4> QED
        BY <4>2, <4>3 DEF Runs!Permitted
    <3>2. CASE f.direction # "evm_discount"
      <4>1. m.native = C("ZSD", "ZEPH", "nativeRedeem")
        BY <1>2, <1>6, <3>2, LegFacts DEF IsLeg
      <4>2. close.from[1] = "ZSD" /\ close.to[1] = "ZEPH"
        BY <1>3, <1>5, <2>3, <4>1
      <4> QED
        BY <4>2 DEF Runs!Permitted
    <3> QED
      BY <3>1, <3>2
  <2> QED
    BY <2>2, <2>3
<1>7. CASE f.asset = "ZRS"
  <2>1. native
    BY <1>1, <1>4, <1>7, LegFacts DEF IsLeg
  <2>2. CASE f.direction = "evm_discount"
    <3>1. m.native = C("ZRS", "ZEPH", "nativeRedeem")
      BY <1>2, <1>7, <2>2, LegFacts DEF IsLeg
    <3>2. policy.zrsRedeemable
      BY <1>1, <1>4, <1>7, <2>1, <2>2 DEF Runs!IsNativeCloseAvailable
    <3>3. close.from[1] = "ZRS" /\ close.to[1] = "ZEPH"
      BY <1>3, <1>5, <2>1, <3>1
    <3> QED
      BY <3>2, <3>3 DEF Runs!Permitted
  <2>3. CASE f.direction # "evm_discount"
    <3>1. m.native = C("ZEPH", "ZRS", "nativeRedeem")
      BY <1>2, <1>7, <2>3, LegFacts DEF IsLeg
    <3>2. policy.zrsMintable
      BY <1>1, <1>4, <1>7, <2>1, <2>3 DEF Runs!IsNativeCloseAvailable
    <3>3. close.from[1] = "ZEPH" /\ close.to[1] = "ZRS"
      BY <1>3, <1>5, <2>1, <3>1
    <3> QED
      BY <3>2, <3>3 DEF Runs!Permitted
  <2> QED
    BY <2>2, <2>3
<1>8. CASE f.asset = "ZYS"
  <2>1. m.cex = Runs!NoHop
    BY <1>2, <1>8, LegFacts DEF IsLeg
  <2>2. m.native \in {C("ZYS", "ZSD", "nativeRedeem"), C("ZSD", "ZYS", "nativeMint")}
    BY <1>2, <1>8, LegFacts DEF IsLeg
  <2>3. close.from[1] = "ZYS" \/ close.to[1] = "ZYS"
    BY <1>3, <1>5, <2>1, <2>2
  <2> QED
    BY <2>3 DEF Runs!Permitted
<1>9. f.asset \in {"ZEPH", "ZRS", "ZYS"}
  BY <1>1, LegFacts DEF IsLeg
<1> QED
  BY <1>6, <1>7, <1>8, <1>9

\* Every step of the plan of an arbitrage whose close was asked for is permitted.
LEMMA ArbPermitted ==
    ASSUME NEW st, NEW f \in Runs!ArbFindings(st), f.asset # "ZSD",
           NEW i \in DOMAIN Runs!ArbPlan(f, st).steps
    PROVE  LET step == Runs!ArbPlan(f, st).steps[i]
           IN  step.op \in NativeOps => Runs!Permitted(step.from[1], step.to[1], st.reserve.policy)
<1> DEFINE leg == Runs!LegOf(f)
           close == Runs!CloseOf(leg, f.context.native)
           clip == Runs!ClipAmount(leg.asset, st)
           steps == Runs!BuildExecutionSteps(leg, close, clip, st)
<1>1. Runs!ArbPlan(f, st).steps = steps
  BY Zenon DEF Runs!ArbPlan, Runs!OperationPlan
<1>2. leg.open.op = "swapEVM"
  <2>1. PICK l \in Runs!ArbDefs : f.asset = l.asset /\ f.direction = l.direction
    BY DEF Runs!ArbFindings, Runs!ArbOpportunity, Runs!Opportunity
  <2>2. leg \in Runs!ArbDefs
    BY <2>1 DEF Runs!LegOf
  <2> HIDE DEF leg
  <2> QED
    BY <2>2, LegFacts DEF IsLeg
<1>3. close.op \in NativeOps => Runs!Permitted(close.from[1], close.to[1], st.reserve.policy)
  BY ClosePermitted
<1> HIDE DEF leg, close, clip
<1>4. \A j \in DOMAIN steps :
        \/ steps[j].op \in {leg.open.op, "unwrap", "wrap"}
        \/ /\ steps[j].op = close.op
           /\ steps[j].from = close.from /\ steps[j].to = close.to
  BY ArbStepsAre
<1> HIDE DEF steps
<1> QED
  BY <1>1, <1>2, <1>3, <1>4 DEF NativeOps

\* In a crisis the one arbitrage that runs unasked redeems.
LEMMA CrisisMintsNothing ==
    ASSUME NEW st, NEW f \in Runs!ArbFindings(st), NEW config,
           Runs!RRMode(st.reserve.ratio) = "crisis",
           Runs!ArbAutoExecutes(Runs!ArbPlan(f, st), st, config),
           NEW i \in DOMAIN Runs!ArbPlan(f, st).steps
    PROVE  Runs!ArbPlan(f, st).steps[i].op # "nativeMint"
<1> DEFINE leg == Runs!LegOf(f)
           close == Runs!CloseOf(leg, f.context.native)
           clip == Runs!ClipAmount(leg.asset, st)
           steps == Runs!BuildExecutionSteps(leg, close, clip, st)
<1>1. Runs!ArbPlan(f, st).steps = steps /\ Runs!ArbPlan(f, st).opportunity = f
  BY Zenon DEF Runs!ArbPlan, Runs!OperationPlan
<1>2. leg \in Runs!ArbDefs
  <2>1. PICK l \in Runs!ArbDefs : f.asset = l.asset /\ f.direction = l.direction
    BY DEF Runs!ArbFindings, Runs!ArbOpportunity, Runs!Opportunity
  <2> QED
    BY <2>1 DEF Runs!LegOf
<1>3. leg.asset = "ZYS" /\ leg.direction = "evm_discount"
  <2>1. Runs!RRModeAllows(leg, "crisis", f.pnl)
    BY <1>1, Zenon DEF Runs!ArbAutoExecutes
  <2> QED
    BY <2>1 DEF Runs!RRModeAllows
<1>4. close = IF f.context.native \/ leg.cex = Runs!NoHop THEN leg.native ELSE leg.cex
  BY DEF Runs!CloseOf
<1> HIDE DEF leg, close, clip
<1>5. /\ leg.open.op = "swapEVM" /\ leg.cex = Runs!NoHop
      /\ leg.native = Runs!Conversion("ZYS", "ZSD", "nativeRedeem")
  BY <1>2, <1>3, LegFacts DEF IsLeg
<1>6. close.op = "nativeRedeem"
  BY <1>4, <1>5 DEF Runs!Conversion, Runs!Hop
<1>7. \A j \in DOMAIN steps :
        \/ steps[j].op \in {leg.open.op, "unwrap", "wrap"}
        \/ /\ steps[j].op = close.op
           /\ steps[j].from = close.from /\ steps[j].to = close.to
  BY ArbStepsAre
<1> HIDE DEF steps
<1> QED
  BY <1>1, <1>5, <1>6, <1>7

\* The other strategies convert nothing.
LEMMA PegConvertsNothing ==
    ASSUME NEW o, NEW n, NEW e, NEW st, NEW i \in DOMAIN Runs!PegPlan(o, n, e, st).steps
    PROVE  Runs!PegPlan(o, n, e, st).steps[i].op \notin NativeOps
<1> DEFINE plan == Runs!PegPlan(o, n, e, st)
           swap(from, to) == Runs!Step("swapEVM", Runs!Asset(from, "e"), Runs!Asset(to, "e"), o.context.clipUsd, Runs!None,
                               Runs!LookupSwapContext(Runs!Asset(from, "e"), Runs!Asset(to, "e"), st))
           wrap == Runs!Step("wrap", Runs!Asset("ZSD", "n"), Runs!Asset("ZSD", "e"), o.context.clipUsd, Runs!None, FALSE)
           buy == swap("USDT", "ZSD")
           sell == swap("ZSD", "USDT")
<1>1. plan.steps \in {<<>>, <<buy>>, <<sell>>, <<wrap>> \o <<sell>>, <<>> \o <<sell>>}
  BY Zenon DEF Runs!PegPlan, Runs!OperationPlan, Runs!PegSteps
<1>2. buy.op = "swapEVM" /\ sell.op = "swapEVM" /\ wrap.op = "wrap"
  BY DEF Runs!Step
<1> HIDE DEF buy, sell, wrap, plan
<1> DEFINE S == {buy, sell, wrap}
<1>3. plan.steps \in Seq(S)
  <2>1. buy \in S /\ sell \in S /\ wrap \in S
    OBVIOUS
  <2> HIDE DEF S
  <2>2. <<>> \in Seq(S) /\ <<buy>> \in Seq(S) /\ <<sell>> \in Seq(S) /\ <<wrap>> \in Seq(S)
    BY <2>1
  <2> DEFINE empty == <<>>
             front == <<wrap>>
             back == <<sell>>
  <2> HIDE DEF empty, front, back
  <2>3. empty \in Seq(S) /\ front \in Seq(S) /\ back \in Seq(S)
    BY <2>2 DEF empty, front, back
  <2>4. front \o back \in Seq(S) /\ empty \o back \in Seq(S)
    BY <2>3
  <2> QED
    BY <1>1, <2>2, <2>4 DEF empty, front, back
<1>4. \A s \in S : s.op \notin NativeOps
  BY <1>2 DEF NativeOps
<1> HIDE DEF S
<1>5. \A j \in DOMAIN plan.steps : plan.steps[j] \in S
  BY <1>3
<1> QED
  BY <1>4, <1>5 DEF plan

LEMMA RebalanceConvertsNothing ==
    ASSUME NEW o, NEW i \in DOMAIN Runs!RebalancePlan(o).steps
    PROVE  Runs!RebalancePlan(o).steps[i].op \notin NativeOps
<1> DEFINE plan == Runs!RebalancePlan(o)
           place(v) == Runs!Asset(o.asset, v)
           hop(kind, v, w) == Runs!Step(kind, place(v), place(w), o.context.amount, Runs!None, FALSE)
           h1 == hop("unwrap", "e", "n")
           h2 == hop("wrap", "n", "e")
           h3 == hop("deposit", "n", "x")
           h4 == hop("withdraw", "x", "n")
           h5 == hop("swapEVM", "e", "e")
<1>1. plan.steps \in {<<h1>>, <<h2>>, <<h1, h3>>, <<h3>>, <<h4>>, <<h4, h2>>, <<h5>>, <<>>}
  <2>1. plan.steps = Runs!RebalanceSteps(o.asset, o.context.from, o.context.to, o.context.amount)
    BY Zenon DEF Runs!RebalancePlan, Runs!OperationPlan
  <2> HIDE DEF plan
  <2> QED
    BY <2>1 DEF Runs!RebalanceSteps
<1>2. /\ h1.op = "unwrap" /\ h2.op = "wrap" /\ h3.op = "deposit" /\ h4.op = "withdraw"
      /\ h5.op = "swapEVM"
  BY DEF Runs!Step
<1> HIDE DEF h1, h2, h3, h4, h5, plan
<1>3. \A j \in DOMAIN plan.steps : plan.steps[j] \in {h1, h2, h3, h4, h5}
  BY <1>1
<1> QED
  BY <1>2, <1>3 DEF plan, NativeOps

LEMMA LpConvertsNothing ==
    ASSUME NEW o, NEW st, NEW i \in DOMAIN Runs!LpPlan(o, st).steps
    PROVE  Runs!LpPlan(o, st).steps[i].op \notin NativeOps
<1> DEFINE plan == Runs!LpPlan(o, st)
           pool == o.context.pool
           ctx == Runs!FindPool(pool, st)
           old == [id |-> o.context.id # Runs!None, lower |-> o.context.current.lower, upper |-> o.context.current.upper]
           new == [id |-> FALSE, lower |-> o.context.recommended.lower, upper |-> o.context.recommended.upper]
           h1 == Runs!LpStep("lpCollect", pool, ctx, old)
           h2 == Runs!LpStep("lpBurn", pool, ctx, old)
           h3 == Runs!LpStep("lpMint", pool, ctx, new)
           h4 == Runs!LpStep("lpMint", pool, ctx, Runs!NoLp)
<1>1. plan.steps \in {<<h1>>, <<h2, h3>>, <<h4>>, <<h2>>, <<>>}
  <2>1. plan.steps = Runs!LpSteps(o.direction, pool, ctx, o.context.id # Runs!None,
                                  o.context.current, o.context.recommended)
    BY Zenon DEF Runs!LpPlan, Runs!OperationPlan
  <2> HIDE DEF plan, pool, ctx
  <2> QED
    BY <2>1 DEF Runs!LpSteps
<1>2. h1.op = "lpCollect" /\ h2.op = "lpBurn" /\ h3.op = "lpMint" /\ h4.op = "lpMint"
  BY DEF Runs!LpStep
<1> HIDE DEF h1, h2, h3, h4, plan
<1>3. \A j \in DOMAIN plan.steps : plan.steps[j] \in {h1, h2, h3, h4}
  BY <1>1
<1> QED
  BY <1>2, <1>3 DEF plan, NativeOps

\* A state predicate that holds of every state, whatever the parts of the market have done.
LEMMA ConversionsPermitted == Runs!PlansUsePermittedConversions
<1>1. ASSUME NEW plan \in Runs!Plans, NEW i \in DOMAIN plan.steps, plan.steps[i].op \in NativeOps
      PROVE  Runs!Permitted(plan.steps[i].from[1], plan.steps[i].to[1], market.reserve.policy)
  <2>1. CASE \E f \in Runs!ArbFindings(market) : f.asset # "ZSD" /\ plan = Runs!ArbPlan(f, market)
    BY <1>1, <2>1, ArbPermitted
  <2>2. CASE \E o : plan = Runs!PegPlan(o, held.n, held.e, market)
    BY <1>1, <2>2, PegConvertsNothing
  <2>3. CASE \E o : plan = Runs!RebalancePlan(o)
    BY <1>1, <2>3, RebalanceConvertsNothing
  <2>4. CASE \E o : plan = Runs!LpPlan(o, market)
    BY <1>1, <2>4, LpConvertsNothing
  <2> QED
    BY <1>1, <2>1, <2>2, <2>3, <2>4 DEF Runs!Plans, Runs!RebalancePlans, Runs!LpPlans
<1>2. ASSUME Runs!RRMode(market.reserve.ratio) = "crisis", NEW plan \in Runs!Unattended,
             NEW i \in DOMAIN plan.steps
      PROVE  plan.steps[i].op # "nativeMint"
  <2>1. CASE \E f \in Runs!ArbFindings(market) :
                /\ plan = Runs!ArbPlan(f, market)
                /\ Runs!ArbAutoExecutes(plan, market, Runs!Config)
    BY <1>2, <2>1, CrisisMintsNothing
  <2>2. CASE \E o : plan = Runs!PegPlan(o, held.n, held.e, market)
    BY <1>2, <2>2, PegConvertsNothing DEF NativeOps
  <2>3. CASE \E o : plan = Runs!RebalancePlan(o)
    BY <1>2, <2>3, RebalanceConvertsNothing DEF NativeOps
  <2>4. CASE \E o : plan = Runs!LpPlan(o, market)
    BY <1>2, <2>4, LpConvertsNothing DEF NativeOps
  <2> QED
    BY <1>2, <2>1, <2>2, <2>3, <2>4 DEF Runs!Unattended, Runs!RebalancePlans, Runs!LpPlans
<1> QED
  BY <1>1, <1>2 DEF Runs!PlansUsePermittedConversions, NativeOps

\* No plan mints or redeems what the reserve forbids, and in a crisis nothing that runs unasked
\* mints: whatever the state of the markets, the balances and the book are (arbitrage.ts,
\* arbitrage.execution.ts, approval.ts; pegkeeper.ts, rebalancer.ts, lpmanager.ts).
THEOREM ConversionsArePermitted == MarketSpec => []PlansUsePermittedConversions
<1>1. PlansUsePermittedConversions
  BY ConversionsPermitted DEF PlansUsePermittedConversions
<1> QED
  BY <1>1, PTL

-----------------------------------------------------------------------------
(* Adjustments *)

Places == {"e", "n", "x"}

RunsTyped ==
    /\ coin \in Runs!Coins /\ held \in [Places -> Nat]
    /\ DOMAIN book = {"owner", "fails", "rows", "apps", "ticks"} /\ book.rows \in Seq(Runs!Positions)
    /\ \A i \in DOMAIN book.rows : book.rows[i] \in Runs!Positions /\ book.rows[i].lower < book.rows[i].upper

\* The deviations of the three places, which add up to nothing.
LEMMA DeviationsCancel ==
    ASSUME NEW b \in [Places -> Nat], NEW c \in Runs!Coins
    PROVE  /\ \A v \in Places : Runs!Deviation(c, b, v) \in Int
           /\ Runs!Deviation(c, b, "e") + Runs!Deviation(c, b, "n") + Runs!Deviation(c, b, "x") = 0
           /\ Runs!TotalOf(b) \in Nat
           /\ \A v \in Places : Runs!Deviation(c, b, v) <= 100 * b[v]
<1> DEFINE t == Runs!Target(c)
<1>1. \/ t["e"] = 30 /\ t["n"] = 50 /\ t["x"] = 20
      \/ t["e"] = 60 /\ t["n"] = 30 /\ t["x"] = 10
      \/ t["e"] = 40 /\ t["n"] = 60 /\ t["x"] = 0
      \/ t["e"] = 50 /\ t["n"] = 50 /\ t["x"] = 0
  BY DEF Runs!Target, Runs!Coins
<1> HIDE DEF t
<1> DEFINE e == b["e"]
           n == b["n"]
           x == b["x"]
           sum == e + n + x
<1>2. e \in Nat /\ n \in Nat /\ x \in Nat
  BY DEF Places
<1>3. Runs!TotalOf(b) = sum /\ sum \in Nat
  BY <1>2 DEF Runs!TotalOf
<1> HIDE DEF e, n, x, sum
<1>4. /\ Runs!Deviation(c, b, "e") = 100 * e - t["e"] * sum
      /\ Runs!Deviation(c, b, "n") = 100 * n - t["n"] * sum
      /\ Runs!Deviation(c, b, "x") = 100 * x - t["x"] * sum
  BY <1>3 DEF Runs!Deviation, e, n, x, t
<1>5. /\ t["e"] * sum \in Nat /\ t["n"] * sum \in Nat /\ t["x"] * sum \in Nat
      /\ t["e"] * sum + t["n"] * sum + t["x"] * sum = 100 * sum
  <2>1. CASE t["e"] = 30 /\ t["n"] = 50 /\ t["x"] = 20
    BY <1>3, <2>1
  <2>2. CASE t["e"] = 60 /\ t["n"] = 30 /\ t["x"] = 10
    BY <1>3, <2>2
  <2>3. CASE t["e"] = 40 /\ t["n"] = 60 /\ t["x"] = 0
    BY <1>3, <2>3
  <2>4. CASE t["e"] = 50 /\ t["n"] = 50 /\ t["x"] = 0
    BY <1>3, <2>4
  <2> QED
    BY <1>1, <2>1, <2>2, <2>3, <2>4
<1>6. sum = e + n + x
  BY DEF sum
<1> QED
  BY <1>2, <1>3, <1>4, <1>5, <1>6 DEF Places, e, n, x

\* The place that is most over its target, and the one that is most under it.
LEMMA MostOverIsMost ==
    ASSUME NEW c, NEW b, \A v \in Places : Runs!Deviation(c, b, v) \in Int
    PROVE  /\ Runs!MostOver(c, b) \in Places
           /\ \A w \in Places : Runs!Deviation(c, b, Runs!MostOver(c, b)) >= Runs!Deviation(c, b, w)
<1> DEFINE d(v) == Runs!Deviation(c, b, v)
           Is(v) == \A w \in Places \ {v} : d(v) > d(w) \/ (d(v) = d(w) /\ Runs!Later(v, w))
<1>1. d("e") \in Int /\ d("n") \in Int /\ d("x") \in Int
  BY DEF Places
<1>2. Runs!Later("n", "e") /\ Runs!Later("x", "e") /\ Runs!Later("x", "n")
  BY DEF Runs!Later
<1>3. Runs!MostOver(c, b) = CHOOSE v \in Places : Is(v)
  BY DEF Runs!MostOver, Places
<1> HIDE DEF d
<1>4. \E v \in Places : Is(v)
  <2>1. CASE d("x") >= d("n") /\ d("x") >= d("e")
    BY <1>1, <1>2, <2>1 DEF Places
  <2>2. CASE d("n") > d("x") /\ d("n") >= d("e")
    BY <1>1, <1>2, <2>2 DEF Places
  <2>3. CASE d("e") > d("x") /\ d("e") > d("n")
    BY <1>1, <1>2, <2>3 DEF Places
  <2> QED
    BY <1>1, <2>1, <2>2, <2>3
<1> DEFINE m == CHOOSE v \in Places : Is(v)
<1>5. m \in Places /\ Is(m)
  BY <1>4
<1> HIDE DEF m
<1>6. \A w \in Places : d(m) >= d(w)
  <2>1. \A v \in Places : d(v) \in Int
    BY <1>1 DEF Places
  <2> QED
    BY <1>5, <2>1
<1> QED
  BY <1>3, <1>5, <1>6 DEF d, m

LEMMA MostUnderIsMost ==
    ASSUME NEW c, NEW b, \A v \in Places : Runs!Deviation(c, b, v) \in Int
    PROVE  /\ Runs!MostUnder(c, b) \in Places
           /\ \A w \in Places : Runs!Deviation(c, b, Runs!MostUnder(c, b)) <= Runs!Deviation(c, b, w)
<1> DEFINE d(v) == Runs!Deviation(c, b, v)
           Is(v) == \A w \in Places \ {v} : d(v) < d(w) \/ (d(v) = d(w) /\ Runs!Later(v, w))
<1>1. d("e") \in Int /\ d("n") \in Int /\ d("x") \in Int
  BY DEF Places
<1>2. Runs!Later("n", "e") /\ Runs!Later("x", "e") /\ Runs!Later("x", "n")
  BY DEF Runs!Later
<1>3. Runs!MostUnder(c, b) = CHOOSE v \in Places : Is(v)
  BY DEF Runs!MostUnder, Places
<1> HIDE DEF d
<1>4. \E v \in Places : Is(v)
  <2>1. CASE d("x") <= d("n") /\ d("x") <= d("e")
    BY <1>1, <1>2, <2>1 DEF Places
  <2>2. CASE d("n") < d("x") /\ d("n") <= d("e")
    BY <1>1, <1>2, <2>2 DEF Places
  <2>3. CASE d("e") < d("x") /\ d("e") < d("n")
    BY <1>1, <1>2, <2>3 DEF Places
  <2> QED
    BY <1>1, <2>1, <2>2, <2>3
<1> DEFINE m == CHOOSE v \in Places : Is(v)
<1>5. m \in Places /\ Is(m)
  BY <1>4
<1> HIDE DEF m
<1>6. \A w \in Places : d(m) <= d(w)
  <2>1. \A v \in Places : d(v) \in Int
    BY <1>1 DEF Places
  <2> QED
    BY <1>5, <2>1
<1> QED
  BY <1>3, <1>5, <1>6 DEF d, m

\* What a rebalancing moves, from a place that is over its target to one that is under it.
LEMMA MovesFromOverToUnder ==
    ASSUME RunsTyped, NEW plan \in Runs!RebalancePlans
    PROVE  LET move == plan.opportunity.context
               d(v) == Runs!Deviation(coin, held, v)
           IN  /\ move.from \in Places /\ move.to \in Places /\ move.from # move.to
               /\ move.amount \in Nat /\ move.amount <= held[move.from]
               /\ 100 * move.amount <= d(move.from) /\ d(move.to) < 0
<1> DEFINE b == [c \in {coin} |-> held]
           mode == Runs!RRMode(market.reserve.ratio)
           d(v) == Runs!Deviation(coin, held, v)
           from == Runs!MostOver(coin, held)
           to == Runs!MostUnder(coin, held)
           amount == Runs!RebalanceAmount(coin, held)
           total == Runs!TotalOf(held)
<1>1. /\ plan.opportunity.context.from = from /\ plan.opportunity.context.to = to
      /\ plan.opportunity.context.amount = amount /\ Runs!NeedsRebalance(coin, held)
  <2>1. PICK o \in Runs!RebalanceFindings(b, market) : plan = Runs!RebalancePlan(o)
    BY DEF Runs!RebalancePlans
  <2>2. b[coin] = held /\ DOMAIN b = {coin}
    OBVIOUS
  <2> HIDE DEF b
  <2>3. o = Runs!RebalanceOpportunity(coin, held, mode) /\ Runs!NeedsRebalance(coin, held)
    BY <2>1, <2>2 DEF Runs!RebalanceFindings
  <2>4. plan.opportunity = o
    BY <2>1 DEF Runs!RebalancePlan, Runs!OperationPlan
  <2>5. /\ o.context.from = from /\ o.context.to = to /\ o.context.amount = amount
    BY <2>3 DEF Runs!RebalanceOpportunity, Runs!Opportunity
  <2> QED
    BY <2>3, <2>4, <2>5
<1>2. /\ \A v \in Places : d(v) \in Int /\ d(v) <= 100 * held[v]
      /\ d("e") + d("n") + d("x") = 0 /\ total \in Nat
  BY DeviationsCancel DEF RunsTyped
<1>3. from \in Places /\ to \in Places /\ \A v \in Places : d(from) >= d(v) /\ d(to) <= d(v)
  BY <1>2, MostOverIsMost, MostUnderIsMost
<1>4. total > 0 /\ d(from) >= 10 * total
  BY <1>1 DEF Runs!NeedsRebalance
<1>5. amount = Runs!Smaller(d(from), 25 * total) \div 100
  BY DEF Runs!RebalanceAmount
<1>6. held[from] \in Nat
  BY <1>3 DEF RunsTyped
<1> HIDE DEF d, from, to, amount, total
<1>7. d(from) \in Int /\ d(to) \in Int /\ d(from) > 0
  BY <1>2, <1>3, <1>4
<1>8. d(to) < 0
  <2>1. d("e") \in Int /\ d("n") \in Int /\ d("x") \in Int
    BY <1>2 DEF Places
  <2>2. d(to) <= d("e") /\ d(to) <= d("n") /\ d(to) <= d("x")
    BY <1>3 DEF Places
  <2>3. d("e") > 0 \/ d("n") > 0 \/ d("x") > 0
    BY <1>3, <1>7 DEF Places
  <2> QED
    BY <1>2, <1>7, <2>1, <2>2, <2>3
<1>9. amount \in Nat /\ 100 * amount <= d(from)
  BY <1>2, <1>4, <1>5, <1>7 DEF Runs!Smaller
<1>10. amount <= held[from]
  <2>1. d(from) <= 100 * held[from]
    BY <1>2, <1>3
  <2> QED
    BY <1>6, <1>7, <1>9, <2>1
<1>11. from # to
  BY <1>7, <1>8
<1> QED
  BY <1>1, <1>3, <1>8, <1>9, <1>10, <1>11 DEF d

\* A rebalancing keeps the total, and brings the balances nearer their targets.
LEMMA RebalanceSettles ==
    ASSUME RunsTyped, Runs!Rebalance
    PROVE  /\ held' \in [Places -> Nat]
           /\ held' # held => Runs!DistanceTo(held') < Runs!DistanceTo(held)
<1>1. PICK plan \in Runs!RebalancePlans :
        held' = [held EXCEPT ![plan.opportunity.context.from] = @ - plan.opportunity.context.amount,
                             ![plan.opportunity.context.to] = @ + plan.opportunity.context.amount]
  BY DEF Runs!Rebalance
<1> DEFINE from == plan.opportunity.context.from
           to == plan.opportunity.context.to
           amount == plan.opportunity.context.amount
           d(b, v) == Runs!Deviation(coin, b, v)
<1>2. /\ from \in Places /\ to \in Places /\ from # to
      /\ amount \in Nat /\ amount <= held[from]
      /\ 100 * amount <= d(held, from) /\ d(held, to) < 0
  BY MovesFromOverToUnder
<1>3. held' = [held EXCEPT ![from] = @ - amount, ![to] = @ + amount]
  BY <1>1
<1> HIDE DEF from, to, amount
<1>4. \A v \in Places : held[v] \in Nat
  BY DEF RunsTyped
<1>5. /\ held'[from] = held[from] - amount /\ held'[to] = held[to] + amount
      /\ \A v \in Places : v \notin {from, to} => held'[v] = held[v]
      /\ held' \in [Places -> Nat]
  BY <1>2, <1>3, <1>4 DEF RunsTyped
<1>6. Runs!TotalOf(held') = Runs!TotalOf(held)
  <2>1. /\ held["e"] \in Nat /\ held["n"] \in Nat /\ held["x"] \in Nat
    BY <1>4 DEF Places
  <2>2. <<from, to>> \in {<<"e", "n">>, <<"e", "x">>, <<"n", "e">>, <<"n", "x">>, <<"x", "e">>, <<"x", "n">>}
    BY <1>2 DEF Places
  <2>3. held'["e"] + held'["n"] + held'["x"] = held["e"] + held["n"] + held["x"]
    BY <1>2, <1>5, <2>1, <2>2 DEF Places
  <2> QED
    BY <2>3 DEF Runs!TotalOf
<1>7. /\ d(held', from) = d(held, from) - 100 * amount
      /\ d(held', to) = d(held, to) + 100 * amount
      /\ \A v \in Places : v \notin {from, to} => d(held', v) = d(held, v)
  <2> DEFINE target(v) == Runs!Target(coin)[v] * Runs!TotalOf(held)
  <2>1. \A v \in Places : /\ d(held, v) = 100 * held[v] - target(v)
                          /\ d(held', v) = 100 * held'[v] - target(v)
    BY <1>6 DEF Runs!Deviation
  <2>2. \A v \in Places : target(v) \in Int
    <3>1. Runs!TotalOf(held) \in Nat
      BY DeviationsCancel DEF RunsTyped
    <3>2. \A v \in Places : Runs!Target(coin)[v] \in Nat
      BY DEF RunsTyped, Runs!Target, Runs!Coins, Places
    <3> QED
      BY <3>1, <3>2
  <2> HIDE DEF target, d
  <2> QED
    BY <1>2, <1>4, <1>5, <2>1, <2>2
<1>8. \A v \in Places : d(held, v) \in Int
  BY DeviationsCancel DEF RunsTyped
<1> HIDE DEF d
<1>9. ASSUME amount # 0
      PROVE  Runs!Abs(d(held', "e")) + Runs!Abs(d(held', "n")) + Runs!Abs(d(held', "x"))
                < Runs!Abs(d(held, "e")) + Runs!Abs(d(held, "n")) + Runs!Abs(d(held, "x"))
  <2>1. /\ d(held, "e") \in Int /\ d(held, "n") \in Int /\ d(held, "x") \in Int
    BY <1>8 DEF Places
  <2>2. amount > 0
    BY <1>2, <1>9
  <2>3. <<from, to>> \in {<<"e", "n">>, <<"e", "x">>, <<"n", "e">>, <<"n", "x">>, <<"x", "e">>, <<"x", "n">>}
    BY <1>2 DEF Places
  <2>4. ASSUME NEW p \in Int, NEW q \in Int, NEW a \in Nat, a > 0, 100 * a <= p, q < 0
        PROVE  Runs!Abs(p - 100 * a) + Runs!Abs(q + 100 * a) < Runs!Abs(p) + Runs!Abs(q)
    BY <2>4 DEF Runs!Abs
  <2>5. /\ Runs!Abs(d(held', from)) + Runs!Abs(d(held', to)) < Runs!Abs(d(held, from)) + Runs!Abs(d(held, to))
        /\ \A v \in Places : v \notin {from, to} => Runs!Abs(d(held', v)) = Runs!Abs(d(held, v))
    BY <1>2, <1>7, <1>8, <2>2, <2>4
  <2>6. \A v \in Places : Runs!Abs(d(held, v)) \in Int /\ Runs!Abs(d(held', v)) \in Int
    <3>1. \A v \in Places : d(held', v) \in Int
      BY <1>2, <1>7, <1>8
    <3> QED
      BY <1>8, <3>1 DEF Runs!Abs
  <2>7. /\ Runs!Abs(d(held, "e")) \in Int /\ Runs!Abs(d(held, "n")) \in Int /\ Runs!Abs(d(held, "x")) \in Int
        /\ Runs!Abs(d(held', "e")) \in Int /\ Runs!Abs(d(held', "n")) \in Int /\ Runs!Abs(d(held', "x")) \in Int
    BY <2>6 DEF Places
  <2> QED
    BY <2>3, <2>5, <2>7 DEF Places
<1>10. amount = 0 => held' = held
  <2>1. ASSUME amount = 0
        PROVE  \A v \in Places : held'[v] = held[v]
    BY <1>4, <1>2, <1>5, <2>1
  <2> QED
    BY <1>5, <2>1 DEF RunsTyped
<1>11. UNCHANGED coin
  BY DEF Runs!Rebalance
<1> QED
  BY <1>5, <1>9, <1>10, <1>11 DEF Runs!DistanceTo, d

\* A range that was recommended does not call for another: its middle is less than a drift below
\* that of the position it was made for, but in a crisis.
LEMMA RecommendedSettles ==
    ASSUME NEW c, NEW mode \in {"normal", "defensive", "crisis"}, NEW p, p.lower \in Int, p.upper \in Int
    PROVE  LET range == Runs!RecommendedRange(c, mode, p)
           IN  /\ range.lower \in Int /\ range.upper \in Int /\ range.lower < range.upper
               /\ \A q : /\ q.lower = range.lower /\ q.upper = range.upper
                         /\ mode # "crisis" \/ c = "ZSD"
                       => ~Runs!ShouldAdjustRange(q, Runs!RecommendedRange(c, mode, q))
<1> DEFINE middle(r) == IF c = "ZSD" THEN 0 ELSE (r.lower + r.upper) \div 2
           below == Runs!RangeOf(c, mode).down
           above == Runs!RangeOf(c, mode).up
           range == Runs!RecommendedRange(c, mode, p)
<1>1. /\ below \in Int /\ above \in Int /\ below < above
      /\ \/ c = "ZSD"
         \/ c # "ZSD" /\ mode = "normal" /\ below = -2232 /\ above = 1823
         \/ c # "ZSD" /\ mode = "defensive" /\ below = -3567 /\ above = 2623
         \/ c # "ZSD" /\ mode = "crisis"
  BY DEF Runs!RangeOf
<1>2. \A r : Runs!RecommendedRange(c, mode, r) = [lower |-> middle(r) + below, upper |-> middle(r) + above]
  BY DEF Runs!RecommendedRange
<1>3. \A r : r.lower \in Int /\ r.upper \in Int => middle(r) \in Int
  OBVIOUS
<1> DEFINE m == middle(p)
<1>4. m \in Int /\ range.lower = m + below /\ range.upper = m + above
  BY <1>2, <1>3
<1> HIDE DEF m, below, above, range
<1>5. ASSUME NEW q, q.lower = range.lower, q.upper = range.upper, mode # "crisis" \/ c = "ZSD"
      PROVE  ~Runs!ShouldAdjustRange(q, Runs!RecommendedRange(c, mode, q))
  <2> DEFINE next == Runs!RecommendedRange(c, mode, q)
             n == middle(q)
  <2>1. next.lower = n + below /\ next.upper = n + above
    BY <1>2
  <2>2. n \in Int /\ q.lower = m + below /\ q.upper = m + above
    BY <1>1, <1>3, <1>4, <1>5
  <2>3. n <= m /\ m - n <= 953
    <3>1. CASE c = "ZSD"
      BY <3>1 DEF m
    <3>2. CASE c # "ZSD"
      <4>1. n = (q.lower + q.upper) \div 2
        BY <3>2
      <4>2. \/ below = -2232 /\ above = 1823
            \/ below = -3567 /\ above = 2623
        BY <1>1, <1>5, <3>2
      <4> HIDE DEF n
      <4> QED
        BY <1>4, <2>2, <4>1, <4>2
    <3> QED
      BY <3>1, <3>2
  <2> HIDE DEF n, next
  <2>4. ~Runs!Drifted(q.lower, next.lower) /\ ~Runs!Drifted(q.upper, next.upper)
    BY <1>1, <1>4, <2>1, <2>2, <2>3 DEF Runs!Drifted
  <2> QED
    BY <2>4 DEF Runs!ShouldAdjustRange, next
<1> QED
  BY <1>1, <1>4, <1>5 DEF range

LEMMA ModesAre ==
    ASSUME NEW ratio PROVE Runs!RRMode(ratio) \in {"normal", "defensive", "crisis"}
BY DEF Runs!RRMode

\* The plan of a new range.
LEMMA AdjustmentIs ==
    ASSUME RunsTyped, NEW plan \in Runs!LpPlans, Len(plan.steps) = 2
    PROVE  \E k \in DOMAIN book.rows :
            LET range == Runs!RecommendedRange(Runs!PoolAsset(book.rows[k].pool),
                                               Runs!RRMode(market.reserve.ratio), book.rows[k])
            IN  /\ plan.opportunity.context.pool = book.rows[k].pool
                /\ plan.steps[2].lp.lower = range.lower /\ plan.steps[2].lp.upper = range.upper
                /\ book.owner /\ ~book.fails
<1> DEFINE mode == Runs!RRMode(market.reserve.ratio)
           loaded == Runs!LoadPositions(book)
<1>1. PICK o \in Runs!LpFindings(book, market) : plan = Runs!LpPlan(o, market)
  BY DEF Runs!LpPlans
<1>2. PICK p \in Runs!Range(loaded) : o = Runs!LpOpportunity(p, mode)
  BY <1>1 DEF Runs!LpFindings
<1>3. PICK k \in DOMAIN loaded : p = loaded[k]
  BY <1>2 DEF Runs!Range
<1>4. book.owner /\ ~book.fails
  BY <1>3 DEF Runs!LoadPositions
<1>5. k \in DOMAIN book.rows /\ p = Runs!LoadedPosition(k, book)
  BY <1>3, <1>4 DEF Runs!LoadPositions
<1> DEFINE row0 == book.rows[k]
           asset == Runs!PoolAsset(row0.pool)
<1>6. p.pool = row0.pool /\ p.lower = row0.lower /\ p.upper = row0.upper
  BY <1>5 DEF Runs!LoadedPosition
<1> DEFINE range == Runs!RecommendedRange(asset, mode, p)
<1>7. /\ o.context.pool = row0.pool /\ o.context.recommended = range
  BY <1>2, <1>6 DEF Runs!LpOpportunity, Runs!Opportunity
<1>8. Runs!RecommendedRange(asset, mode, row0) = range
  BY <1>6 DEF Runs!RecommendedRange
<1> HIDE DEF loaded, range, asset, row0
<1> DEFINE pool == o.context.pool
           ctx == Runs!FindPool(pool, market)
           old == [id |-> o.context.id # Runs!None, lower |-> o.context.current.lower, upper |-> o.context.current.upper]
           new == [id |-> FALSE, lower |-> range.lower, upper |-> range.upper]
           h1 == Runs!LpStep("lpCollect", pool, ctx, old)
           h2 == Runs!LpStep("lpBurn", pool, ctx, old)
           h3 == Runs!LpStep("lpMint", pool, ctx, new)
           h4 == Runs!LpStep("lpMint", pool, ctx, Runs!NoLp)
<1>9. plan.opportunity = o /\ plan.steps \in {<<h1>>, <<h2, h3>>, <<h4>>, <<h2>>, <<>>}
  <2>1. /\ plan.opportunity = o
        /\ plan.steps = Runs!LpSteps(o.direction, pool, ctx, o.context.id # Runs!None,
                                     o.context.current, range)
    BY <1>1, <1>7, Zenon DEF Runs!LpPlan, Runs!OperationPlan
  <2> HIDE DEF pool, ctx
  <2> QED
    BY <2>1 DEF Runs!LpSteps
<1>10. h3.lp = new
  BY DEF Runs!LpStep
<1> HIDE DEF h1, h2, h3, h4
<1>11. plan.steps[2] = h3
  <2>1. Len(<<h1>>) # 2 /\ Len(<<h4>>) # 2 /\ Len(<<h2>>) # 2 /\ Len(<<>>) # 2
    OBVIOUS
  <2>2. plan.steps = <<h2, h3>>
    BY <1>9, <2>1, Zenon
  <2> QED
    BY <2>2
<1>12. plan.steps[2].lp.lower = range.lower /\ plan.steps[2].lp.upper = range.upper
  BY <1>10, <1>11
<1> QED
  BY <1>4, <1>5, <1>7, <1>8, <1>9, <1>12 DEF row0, asset

\* A new range keeps the types, and does not call for another.
LEMMA AdjustRangeSettles ==
    ASSUME RunsTyped, Runs!AdjustRange
    PROVE  /\ RunsTyped'
           /\ \A i \in DOMAIN book.rows :
                book'.rows[i].lower # book.rows[i].lower /\ Runs!RangesSettle(book.rows[i].pool)
                    => Runs!FoundOf(i, book') # "adjust_range"
<1> DEFINE mode == Runs!RRMode(market.reserve.ratio)
<1>1. PICK plan \in Runs!LpPlans, i \in DOMAIN book.rows :
        /\ Len(plan.steps) = 2 /\ Runs!IsOf(book.rows[i], plan)
        /\ book' = [book EXCEPT !.rows[i] = [@ EXCEPT !.lower = plan.steps[2].lp.lower,
                                                     !.upper = plan.steps[2].lp.upper]]
  BY DEF Runs!AdjustRange
<1>2. PICK k \in DOMAIN book.rows :
        LET range == Runs!RecommendedRange(Runs!PoolAsset(book.rows[k].pool), mode, book.rows[k])
        IN  /\ plan.opportunity.context.pool = book.rows[k].pool
            /\ plan.steps[2].lp.lower = range.lower /\ plan.steps[2].lp.upper = range.upper
            /\ book.owner /\ ~book.fails
  BY <1>1, AdjustmentIs
<1> DEFINE asset == Runs!PoolAsset(book.rows[k].pool)
           range == Runs!RecommendedRange(asset, mode, book.rows[k])
           old == book.rows[i]
           new == [old EXCEPT !.lower = range.lower, !.upper = range.upper]
<1>3. /\ range.lower \in Int /\ range.upper \in Int /\ range.lower < range.upper
      /\ \A q : q.lower = range.lower /\ q.upper = range.upper /\ (mode # "crisis" \/ asset = "ZSD")
                => ~Runs!ShouldAdjustRange(q, Runs!RecommendedRange(asset, mode, q))
  <2>1. book.rows[k].lower \in Int /\ book.rows[k].upper \in Int
    BY DEF RunsTyped, Runs!Positions
  <2>2. mode \in {"normal", "defensive", "crisis"}
    BY ModesAre
  <2> HIDE DEF mode, asset
  <2> QED
    BY <2>1, <2>2, RecommendedSettles
<1>4. old.pool = book.rows[k].pool
  BY <1>1, <1>2 DEF Runs!IsOf
<1>5. book' = [book EXCEPT !.rows[i] = new]
  BY <1>1, <1>2
<1> HIDE DEF range
<1>6. old \in Runs!Positions
  BY DEF RunsTyped
<1>7. new \in Runs!Positions /\ new.lower = range.lower /\ new.upper = range.upper /\ new.pool = old.pool
  BY <1>3, <1>6 DEF Runs!Positions
<1> DEFINE rows1 == [book.rows EXCEPT ![i] = new]
<1>8. book'.rows = rows1 /\ DOMAIN book' = DOMAIN book /\ book'.owner = book.owner /\ book'.fails = book.fails
  BY <1>5 DEF RunsTyped
<1>9. book.rows \in Seq(Runs!Positions)
  BY DEF RunsTyped
<1> HIDE DEF new, old
<1>10. /\ rows1 \in Seq(Runs!Positions) /\ DOMAIN rows1 = DOMAIN book.rows
       /\ \A j \in DOMAIN book.rows : rows1[j] = IF j = i THEN new ELSE book.rows[j]
  BY <1>7, <1>9
<1>11. RunsTyped'
  <2>1. coin' = coin /\ held' = held
    BY DEF Runs!AdjustRange
  <2>2. \A j \in DOMAIN rows1 : rows1[j] \in Runs!Positions /\ rows1[j].lower < rows1[j].upper
    BY <1>3, <1>7, <1>10 DEF RunsTyped
  <2> HIDE DEF rows1
  <2> QED
    BY <1>8, <1>10, <2>1, <2>2 DEF RunsTyped
<1>12. ASSUME NEW j \in DOMAIN book.rows, book'.rows[j].lower # book.rows[j].lower,
              Runs!RangesSettle(book.rows[j].pool)
       PROVE  Runs!FoundOf(j, book') # "adjust_range"
  <2>1. j = i
    BY <1>8, <1>10, <1>12
  <2>2. mode # "crisis" \/ asset = "ZSD"
    BY <1>4, <1>12, <2>1 DEF Runs!RangesSettle, old
  <2> DEFINE q == Runs!LoadedPosition(i, book')
  <2>3. q.pool = book.rows[k].pool /\ q.lower = range.lower /\ q.upper = range.upper
    <3>1. book'.rows[i] = new
      BY <1>8, <1>10
    <3> QED
      BY <1>4, <1>7, <3>1 DEF Runs!LoadedPosition
  <2>4. Runs!LoadPositions(book')[i] = q
    <3>1. book'.owner /\ ~book'.fails /\ i \in DOMAIN book'.rows
      BY <1>2, <1>8, <1>10
    <3> QED
      BY <3>1 DEF Runs!LoadPositions
  <2>5. ~Runs!ShouldAdjustRange(q, Runs!RecommendedRange(asset, mode, q))
    BY <1>3, <2>2, <2>3
  <2> HIDE DEF q
  <2>6. Runs!LpAction(q, mode) # "adjust_range"
    BY <2>3, <2>5 DEF Runs!LpAction
  <2> QED
    BY <2>1, <2>4, <2>6 DEF Runs!FoundOf
<1> QED
  BY <1>11, <1>12

\* Collecting fees moves no range.
LEMMA CollectFeesSettles ==
    ASSUME RunsTyped, Runs!CollectFees
    PROVE  RunsTyped' /\ \A i \in DOMAIN book.rows : book'.rows[i].lower = book.rows[i].lower
<1>1. PICK i \in DOMAIN book.rows : book' = [book EXCEPT !.rows[i].fees = 0]
  BY DEF Runs!CollectFees
<1> DEFINE old == book.rows[i]
           new == [old EXCEPT !.fees = 0]
           rows1 == [book.rows EXCEPT ![i] = new]
<1>2. old \in Runs!Positions /\ old.lower < old.upper
  BY DEF RunsTyped
<1>3. new \in Runs!Positions /\ new.lower = old.lower /\ new.upper = old.upper
  BY <1>2 DEF Runs!Positions
<1>4. book'.rows = rows1 /\ DOMAIN book' = DOMAIN book
  BY <1>1 DEF RunsTyped
<1>5. book.rows \in Seq(Runs!Positions)
  BY DEF RunsTyped
<1> HIDE DEF new
<1>6. /\ rows1 \in Seq(Runs!Positions) /\ DOMAIN rows1 = DOMAIN book.rows
      /\ \A j \in DOMAIN book.rows : rows1[j] = IF j = i THEN new ELSE book.rows[j]
  BY <1>3, <1>5
<1>7. \A j \in DOMAIN rows1 : rows1[j] \in Runs!Positions /\ rows1[j].lower < rows1[j].upper
                              /\ rows1[j].lower = book.rows[j].lower
  BY <1>2, <1>3, <1>6 DEF RunsTyped
<1>8. coin' = coin /\ held' = held
  BY DEF Runs!CollectFees
<1> HIDE DEF rows1
<1> QED
  BY <1>4, <1>6, <1>7, <1>8 DEF RunsTyped

LEMMA RunsInit == ASSUME Runs!RunsAssumption, Runs!Init PROVE RunsTyped
<1>1. coin \in Runs!Coins /\ held \in Holdings /\ book \in Books
  BY DEF Runs!Init, Runs!Any, Runs!Coins, Runs!RunsAssumption
<1>2. held \in [Places -> Nat]
  BY <1>1 DEF Runs!RunsAssumption, Places
<1>3. /\ DOMAIN book = {"owner", "fails", "rows", "apps", "ticks"} /\ book.rows \in Seq(Runs!Positions)
      /\ \A i \in DOMAIN book.rows : book.rows[i].lower < book.rows[i].upper
  BY <1>1 DEF Runs!RunsAssumption
<1>4. \A i \in DOMAIN book.rows : book.rows[i] \in Runs!Positions
  BY <1>3
<1> QED
  BY <1>1, <1>2, <1>3, <1>4 DEF RunsTyped

\* A step keeps the types, and settles.
LEMMA RunsNext ==
    ASSUME RunsTyped, [Runs!Next]_(Runs!vars)
    PROVE  /\ RunsTyped'
           /\ held' # held => Runs!DistanceTo(held') < Runs!DistanceTo(held)
           /\ book' # book =>
                \A i \in DOMAIN book.rows :
                    book'.rows[i].lower # book.rows[i].lower /\ Runs!RangesSettle(book.rows[i].pool)
                        => Runs!FoundOf(i, book') # "adjust_range"
<1>1. CASE Runs!Rebalance
  <2>1. book' = book /\ coin' = coin
    BY <1>1 DEF Runs!Rebalance
  <2>2. held' \in [Places -> Nat]
    BY <1>1, RebalanceSettles
  <2>3. RunsTyped'
    BY <2>1, <2>2 DEF RunsTyped
  <2> QED
    BY <1>1, <2>1, <2>3, RebalanceSettles
<1>2. CASE Runs!AdjustRange
  <2>1. held' = held
    BY <1>2 DEF Runs!AdjustRange
  <2> QED
    BY <1>2, <2>1, AdjustRangeSettles
<1>3. CASE Runs!CollectFees
  <2>1. held' = held
    BY <1>3 DEF Runs!CollectFees
  <2> QED
    BY <1>3, <2>1, CollectFeesSettles
<1>4. CASE UNCHANGED Runs!vars
  <2>1. UNCHANGED <<coin, held, book>>
    BY <1>4 DEF Runs!vars
  <2> QED
    BY <2>1 DEF RunsTyped
<1> QED
  BY <1>1, <1>2, <1>3, <1>4 DEF Runs!Next

\* Only a behaviour about the strategies touches their variables.
LEMMA OnlyStrategies ==
    ASSUME [MarketNext]_allVars PROVE part = "strategies" \/ UNCHANGED <<coin, held, book, market>>
<1>1. CASE FeedStep \/ RowsStep \/ StateStep \/ AccountStep \/ FileStep \/ TableStep
  BY <1>1 DEF FeedStep, RowsStep, StateStep, AccountStep, FileStep, TableStep
<1>2. CASE RelayStep \/ ReserveStep \/ ClipStep
  BY <1>2 DEF RelayStep, ReserveStep, ClipStep
<1>3. CASE StrategyStep
  BY <1>3 DEF StrategyStep
<1>4. CASE UNCHANGED allVars
  BY <1>4 DEF allVars
<1> QED
  BY <1>1, <1>2, <1>3, <1>4 DEF MarketNext

\* No adjustment is undone by the next: a rebalancing brings the balances nearer their targets, and
\* a new range is not adjusted again while the mode stays, but in a crisis
\* (strategies/rebalancer.ts, buildPlan; lpmanager.ts, calculateOptimalRange, shouldAdjustRange).
THEOREM AdjustmentsComeToRest == MarketSpec => AdjustmentsSettle
<1> DEFINE Kept == part = "strategies" => RunsTyped
<1>1. MarketInit => Kept
  BY MarketAssumption, PartsBegin, RunsInit DEF MarketAssumption
<1>2. Kept /\ [MarketNext]_allVars => Kept'
  <2> SUFFICES ASSUME Kept, [MarketNext]_allVars PROVE Kept'
    OBVIOUS
  <2>1. [Runs!Next]_(Runs!vars) /\ part' = part
    BY PartsStep
  <2> QED
    BY <2>1, RunsNext
<1>3. Kept /\ [MarketNext]_allVars =>
        [/\ held' # held => Runs!DistanceTo(held') < Runs!DistanceTo(held)
         /\ book' # book =>
                \A i \in DOMAIN book.rows :
                    book'.rows[i].lower # book.rows[i].lower /\ Runs!RangesSettle(book.rows[i].pool)
                        => Runs!FoundOf(i, book') # "adjust_range"]_(Runs!vars)
  <2> SUFFICES ASSUME Kept, [MarketNext]_allVars, ~UNCHANGED Runs!vars
               PROVE  /\ held' # held => Runs!DistanceTo(held') < Runs!DistanceTo(held)
                      /\ book' # book =>
                            \A i \in DOMAIN book.rows :
                                book'.rows[i].lower # book.rows[i].lower /\ Runs!RangesSettle(book.rows[i].pool)
                                    => Runs!FoundOf(i, book') # "adjust_range"
    OBVIOUS
  <2>1. [Runs!Next]_(Runs!vars)
    BY PartsStep
  <2>2. part = "strategies"
    BY OnlyStrategies DEF Runs!vars
  <2> QED
    BY <2>1, <2>2, RunsNext
<1> QED
  BY <1>1, <1>2, <1>3, PTL DEF MarketSpec, AdjustmentsSettle, Runs!AdjustmentsSettle

-----------------------------------------------------------------------------
(***************************************************************************)
(* The two directions of a quote.  What is rounded up for a wanted output  *)
(* is enough for it when the same quote rounds down.                       *)
(***************************************************************************)

\* A quotient rounded up times the divisor is no less than the dividend.
LEMMA RoundedUpIsEnough ==
    ASSUME NEW n \in Nat, NEW d \in Nat, d > 0
    PROVE  /\ A!CeilDiv(n, d) \in Nat /\ A!CeilDiv(n, d) * d >= n
           /\ n > 0 => A!CeilDiv(n, d) > 0
<1>1. (n + d - 1) \div d \in Int /\ d * ((n + d - 1) \div d) >= n
  OBVIOUS
<1> DEFINE q == A!CeilDiv(n, d)
<1>2. q = (n + d - 1) \div d
  BY DEF A!CeilDiv
<1>3. q \in Int /\ q * d >= n
  BY <1>1, <1>2
<1> HIDE DEF q
<1>4. q >= 0 /\ (n > 0 => q > 0)
  BY <1>3
<1> QED
  BY <1>3, <1>4 DEF q

\* And one rounded down is no less than what fits.
LEMMA RoundedDownFits ==
    ASSUME NEW a \in Int, NEW d \in Nat, d > 0, NEW c \in Int, c * d <= a
    PROVE  a \div d \in Int /\ c <= a \div d
OBVIOUS

LEMMA Grows ==
    ASSUME NEW b \in Int, NEW c \in Int, b <= c, NEW d \in Nat
    PROVE  b * d \in Int /\ c * d \in Int /\ b * d <= c * d
OBVIOUS

LEMMA UnitsArePositive == \A a : A!Units(a) \in {10, 100, 1000}
<1> SUFFICES ASSUME NEW a PROVE A!Units(a) \in {10, 100, 1000}
  OBVIOUS
<1>1. \/ a[1] = "USDT" /\ A!Units(a) = 10
      \/ a[1] # "USDT" /\ a = A!Asset("ZEPH", "x") /\ A!Units(a) = 100
      \/ a[1] # "USDT" /\ a # A!Asset("ZEPH", "x") /\ A!Units(a) = 1000
  BY DEF A!Units, A!Asset
<1> QED
  BY <1>1

\* What a request gives, by its operation.
Asked(c, in, out) == A!InvokeQuoter(A!Request(c.hop.op, c.hop.from, c.hop.to, in, out), c.st)

Ample(c) ==
    LET in == Asked(c, 0, c.wanted).amountIn
    IN  in > 0 /\ Asked(c, in, 0).amountOut >= c.wanted

\* What a market says of its numbers.
LEMMA MarketGives ==
    ASSUME NEW st, A!IsMarket(st)
    PROVE  /\ \A p \in st.pools : p.fee \in Nat /\ p.fee < A!WholeFee
           /\ \A p \in st.pools : p.price \in Int /\ p.inverse \in Int
           /\ \A p \in st.pools : p.totalBase \in Int /\ p.totalBase >= A!None
           /\ \A p \in st.pools : p.totalQuote \in Int /\ p.totalQuote >= A!None /\ p.tvl \in Int
           /\ \A p, q \in st.pools : {p.base, p.quote} = {q.base, q.quote} => p = q
           /\ st.hasReserve => \A c \in A!Coins :
                 /\ st.reserve.rates[c].spot \in Nat
                 /\ st.reserve.rates[c].mint \in Nat /\ st.reserve.rates[c].redeem \in Nat
           /\ st.bid \in Int /\ st.ask \in Int
           /\ st.wrapFee \in Nat /\ st.unwrapFee \in Nat
<1>1. /\ st.wrapFee \in Int /\ st.wrapFee >= A!None /\ st.wrapFee # A!None
      /\ st.unwrapFee \in Int /\ st.unwrapFee >= A!None /\ st.unwrapFee # A!None
      /\ st.bid \in Int /\ st.ask \in Int
  BY Zenon DEF A!IsMarket
<1>2. st.wrapFee \in Nat /\ st.unwrapFee \in Nat
  BY <1>1 DEF A!None
<1>3. /\ \A p \in st.pools : p.fee \in Nat /\ p.fee < A!WholeFee
      /\ \A p \in st.pools : p.price \in Int /\ p.inverse \in Int
      /\ \A p \in st.pools : p.totalBase \in Int /\ p.totalBase >= A!None
      /\ \A p \in st.pools : p.totalQuote \in Int /\ p.totalQuote >= A!None /\ p.tvl \in Int
      /\ \A p, q \in st.pools : {p.base, p.quote} = {q.base, q.quote} => p = q
  BY Zenon DEF A!IsMarket
<1>4. st.hasReserve => \A c \in A!Coins :
        /\ st.reserve.rates[c].spot \in Nat
        /\ st.reserve.rates[c].mint \in Nat /\ st.reserve.rates[c].redeem \in Nat
  BY Zenon DEF A!IsMarket
<1> QED
  BY <1>1, <1>2, <1>3, <1>4, Zenon

\* The bridge (quoting/quoting.bridge.ts).
LEMMA BridgeIsAmple ==
    ASSUME NEW c, IsQuoteCase(c), c.hop.op \in {"wrap", "unwrap"}
    PROVE  Ample(c)
<1> DEFINE uf == A!Units(c.hop.from)
           ut == A!Units(c.hop.to)
           rq(in, out) == A!Request(c.hop.op, c.hop.from, c.hop.to, in, out)
           fee == IF c.hop.op = "wrap" THEN A!Scaled(c.st.wrapFee, c.hop.from, c.hop.to) ELSE c.st.unwrapFee
           used == A!CeilDiv((c.wanted + fee) * uf, ut)
           gross == (used * ut) \div uf
<1>1. uf \in {10, 100, 1000} /\ ut \in {10, 100, 1000} /\ c.wanted \in Nat /\ c.wanted > 0
  BY UnitsArePositive DEF IsQuoteCase
<1>2. c.st.wrapFee \in Nat /\ c.st.unwrapFee \in Nat
  BY MarketGives DEF IsQuoteCase
<1>3. fee \in Nat
  <2>1. A!Scaled(c.st.wrapFee, c.hop.from, c.hop.to) = (c.st.wrapFee * ut) \div uf
    BY DEF A!Scaled
  <2>2. (c.st.wrapFee * ut) \div uf \in Nat
    <3> HIDE DEF uf, ut
    <3> QED
      BY <1>1, <1>2
  <2> QED
    BY <1>2, <2>1, <2>2
<1>4. \A in, out : Asked(c, in, out) = A!QuoteBridgeOperation(rq(in, out), c.st)
  BY DEF Asked, A!InvokeQuoter, A!Request
<1>5. Asked(c, 0, c.wanted).amountIn = used
  BY <1>4 DEF A!QuoteBridgeOperation, A!Quote, A!Request, A!ScaledUp
<1>6. \A in : in > 0 => Asked(c, in, 0).amountOut = A!Larger(0, (in * ut) \div uf - fee)
  BY <1>4 DEF A!QuoteBridgeOperation, A!Quote, A!Request, A!Scaled
<1> HIDE DEF fee, uf, ut
<1>7. used \in Nat /\ used * ut >= (c.wanted + fee) * uf /\ used > 0
  <2> DEFINE due == (c.wanted + fee) * uf
  <2>1. due \in Nat /\ due > 0 /\ ut \in Nat /\ ut > 0
    BY <1>1, <1>3
  <2>2. used = A!CeilDiv(due, ut)
    OBVIOUS
  <2> HIDE DEF due, used
  <2>3. used \in Nat /\ used * ut >= due /\ used > 0
    BY <2>1, <2>2, RoundedUpIsEnough
  <2> QED
    BY <2>3 DEF due
<1> HIDE DEF used
<1>8. gross \in Int /\ gross >= c.wanted + fee
  <2>1. used * ut \in Int
    BY <1>1, <1>7
  <2> QED
    BY <1>1, <1>3, <1>7, <2>1, RoundedDownFits
<1>9. A!Larger(0, gross - fee) >= c.wanted
  <2> HIDE DEF gross
  <2> QED
    BY <1>1, <1>3, <1>8 DEF A!Larger
<1> QED
  BY <1>5, <1>6, <1>7, <1>9 DEF Ample

\* The conversions of the chain (quoting/quoting.zephyr.ts).
LEMMA ConversionIsAmple ==
    ASSUME NEW c, IsQuoteCase(c), c.hop.op \in {"nativeMint", "nativeRedeem"}
    PROVE  Ample(c)
<1> DEFINE rq(in, out) == A!Request(c.hop.op, c.hop.from, c.hop.to, in, out)
           rated == IF c.hop.op = "nativeMint" THEN c.hop.to[1] ELSE c.hop.from[1]
           bps == A!NativeFee(rated)
           rate == IF c.hop.op = "nativeMint" THEN c.st.reserve.rates[rated].mint
                                              ELSE c.st.reserve.rates[rated].redeem
           gross == A!CeilDiv(c.wanted * 10000, 10000 - bps)
           used == IF c.hop.op = "nativeMint" THEN A!CeilDiv(gross * rate, 100) ELSE A!CeilDiv(gross * 100, rate)
           back == IF c.hop.op = "nativeMint" THEN (used * 100) \div rate ELSE (used * rate) \div 100
           net == (back * (10000 - bps)) \div 10000
<1>1. c.wanted \in Nat /\ c.wanted > 0 /\ bps \in {10, 100}
  BY DEF A!NativeFee, IsQuoteCase
<1>2. \A in, out : A!RateCoin(rq(in, out)) = rated /\ A!NativeRate(rq(in, out), c.st) = rate
  BY DEF A!RateCoin, A!NativeRate, A!Request
<1>3. rate \in Nat /\ rate > 0
  <2>1. A!NativePair(c.hop.op, c.hop.from, c.hop.to) /\ rate # 0
    <3> HIDE DEF rate
    <3>1. A!ContextAvailable(c.hop.op, c.hop.from, c.hop.to, c.st)
      BY Zenon DEF IsQuoteCase
    <3>2. /\ A!NativePair(c.hop.op, c.hop.from, c.hop.to)
          /\ A!NativeRate(A!Request(c.hop.op, c.hop.from, c.hop.to, 0, 0), c.st) # 0
      BY <3>1 DEF A!ContextAvailable
    <3> QED
      BY <1>2, <3>2
  <2>2. rated \in A!Coins
    BY <2>1 DEF A!NativePair, A!Minted, A!Redeemed, A!Coins
  <2>3. c.st.reserve.rates[rated].mint \in Nat /\ c.st.reserve.rates[rated].redeem \in Nat
    BY <2>2, MarketGives DEF IsQuoteCase
  <2>4. rate \in Nat
    BY Zenon, <2>3
  <2> HIDE DEF rate
  <2> QED
    BY <2>1, <2>4
<1>4. \A in, out : Asked(c, in, out) = A!QuoteNativeOperation(rq(in, out),
            A!RuntimeEnabled(c.hop.op, c.hop.from, c.hop.to, c.st), c.st)
  BY DEF Asked, A!InvokeQuoter, A!Request
<1>5. Asked(c, 0, c.wanted).amountIn = used
  <2>1. rq(0, c.wanted).amountIn = 0 /\ rq(0, c.wanted).amountOut = c.wanted /\ rq(0, c.wanted).op = c.hop.op
    BY DEF A!Request
  <2>2. A!Requires(rq(0, c.wanted), gross, c.st) = used
    BY <1>2, <2>1 DEF A!Requires
  <2> HIDE DEF rq, used, gross, rate
  <2>3. gross = A!CeilDiv(c.wanted * 10000, 10000 - bps)
    BY DEF gross
  <2> QED
    BY <1>1, <1>2, <1>3, <1>4, <2>1, <2>2, <2>3 DEF A!QuoteNativeOperation, A!Quote
<1> HIDE DEF bps, rated, rate
<1>6. gross \in Nat /\ gross * (10000 - bps) >= c.wanted * 10000 /\ gross > 0
  <2> DEFINE due == c.wanted * 10000
             share == 10000 - bps
  <2>1. due \in Nat /\ due > 0 /\ share \in Nat /\ share > 0
    BY <1>1
  <2>2. gross = A!CeilDiv(due, share)
    OBVIOUS
  <2> HIDE DEF due, share, gross
  <2>3. gross \in Nat /\ gross * share >= due /\ gross > 0
    BY <2>1, <2>2, RoundedUpIsEnough
  <2> QED
    BY <2>3 DEF due, share
<1> HIDE DEF gross
<1>7. used \in Nat /\ used > 0 /\ back \in Int /\ back >= gross
  <2>1. CASE c.hop.op = "nativeMint"
    <3>1. gross * rate \in Nat /\ gross * rate > 0
      BY <1>3, <1>6
    <3>2. used \in Nat /\ used * 100 >= gross * rate /\ used > 0
      BY <2>1, <3>1, RoundedUpIsEnough
    <3> HIDE DEF used
    <3>3. (used * 100) \div rate \in Int /\ gross <= (used * 100) \div rate
      BY <1>3, <1>6, <3>2, RoundedDownFits
    <3> QED
      BY <2>1, <3>2, <3>3
  <2>2. CASE c.hop.op = "nativeRedeem"
    <3>1. gross * 100 \in Nat /\ gross * 100 > 0
      BY <1>6
    <3>2. used \in Nat /\ used * rate >= gross * 100 /\ used > 0
      BY <1>3, <2>2, <3>1, RoundedUpIsEnough
    <3> HIDE DEF used
    <3>3. used * rate \in Int
      BY <1>3, <3>2
    <3>4. (used * rate) \div 100 \in Int /\ gross <= (used * rate) \div 100
      BY <1>6, <3>2, <3>3, RoundedDownFits
    <3> QED
      BY <2>2, <3>2, <3>4
  <2> QED
    BY <2>1, <2>2
<1>8. net \in Int /\ net >= c.wanted
  <2> HIDE DEF back
  <2>1. gross * (10000 - bps) <= back * (10000 - bps) /\ back * (10000 - bps) \in Int
    BY <1>1, <1>6, <1>7, Grows
  <2>2. c.wanted * 10000 <= back * (10000 - bps)
    <3> DEFINE g == gross * (10000 - bps)
               b == back * (10000 - bps)
    <3>1. g \in Int /\ b \in Int /\ g <= b /\ g >= c.wanted * 10000
      BY <1>1, <1>6, <2>1
    <3> HIDE DEF g, b
    <3>2. c.wanted * 10000 <= b
      BY <1>1, <3>1
    <3> QED
      BY <3>2 DEF b
  <2> QED
    BY <1>1, <2>1, <2>2, RoundedDownFits
<1>9. Asked(c, used, 0).amountOut = net
  <2>1. rq(used, 0).amountIn = used /\ rq(used, 0).op = c.hop.op
    BY DEF A!Request
  <2>2. A!Converts(rq(used, 0), c.st) = back
    <3>1. A!NativeRate(rq(used, 0), c.st) = rate
      BY <1>2
    <3> HIDE DEF rq, used
    <3>2. A!Converts(rq(used, 0), c.st)
            = IF c.hop.op = "nativeMint" THEN (used * 100) \div rate ELSE (used * rate) \div 100
      BY <2>1, <3>1 DEF A!Converts
    <3> QED
      BY <3>2
  <2>3. A!AfterFee(back, bps) = net
    BY DEF A!AfterFee
  <2>4. A!NativeFee(A!RateCoin(rq(used, 0))) = bps /\ A!NativeRate(rq(used, 0), c.st) = rate
    BY <1>2 DEF bps
  <2> HIDE DEF rq, used, back, net
  <2> QED
    BY <1>1, <1>3, <1>4, <1>7, <1>8, <2>1, <2>2, <2>3, <2>4 DEF A!QuoteNativeOperation, A!Quote
<1> HIDE DEF used, net
<1> QED
  BY <1>5, <1>7, <1>8, <1>9 DEF Ample

\* An input made larger by the fee leaves what is wanted of it.
LEMMA FirstTryLeaves ==
    ASSUME NEW pool, pool.fee \in Nat, pool.fee < A!WholeFee, NEW after \in Nat, after > 0
    PROVE  LET n == A!FirstTry(pool, after)
           IN  /\ n \in Nat /\ n > 0
               /\ n - A!FeeOn(pool, n) \in Int /\ n - A!FeeOn(pool, n) >= after
<1> DEFINE f == A!PoolFeeBps(pool)
           n == A!FirstTry(pool, after)
           fee == A!FeeOn(pool, n)
           due == after * 10000
           share == 10000 - f
<1>1. f \in Nat /\ f < 10000
  BY DEF A!PoolFeeBps, A!WholeFee
<1>2. due \in Nat /\ due > 0 /\ share \in Nat /\ share > 0 /\ n = A!CeilDiv(due, share)
  <2> HIDE DEF f
  <2> QED
    BY <1>1 DEF A!FirstTry, f
<1>3. fee = (n * f) \div 10000
  BY DEF A!FeeOn
<1> HIDE DEF f, n, fee, due, share
<1>4. n \in Nat /\ n > 0 /\ n * share >= due
  BY <1>2, RoundedUpIsEnough
<1>5. n * f \in Nat /\ n * share = 10000 * n - n * f
  BY <1>1, <1>4 DEF share
<1>6. fee \in Int /\ 10000 * fee <= n * f
  BY <1>3, <1>5
<1>7. n - fee >= after
  <2> DEFINE all == n * f
             rest == n * share
  <2>1. all \in Nat /\ rest = 10000 * n - all /\ rest >= due /\ 10000 * fee <= all
    BY <1>4, <1>5, <1>6
  <2> HIDE DEF all, rest
  <2> QED
    BY <1>4, <1>6, <2>1 DEF due
<1> QED
  BY <1>4, <1>6, <1>7 DEF n, fee

\* An input that suffices by the product of the reserves.
LEMMA ReservesGive ==
    ASSUME NEW in \in Int, NEW a \in Nat, in >= a, NEW i \in Nat, i > 0, NEW o \in Nat,
           NEW w \in Nat, o > w, a * (o - w) >= w * i
    PROVE  (in * o) \div (i + in) >= w
<1>1. in * (o - w) >= a * (o - w) /\ in * (o - w) \in Int /\ a * (o - w) \in Int /\ w * i \in Int
  <2> DEFINE d == o - w
  <2>1. d \in Nat
    OBVIOUS
  <2> HIDE DEF d
  <2>2. a * d <= in * d /\ a * d \in Int /\ in * d \in Int
    BY <2>1, Grows
  <2> QED
    BY <2>2 DEF d
<1>2. in * (o - w) = in * o - w * in /\ w * (i + in) = w * i + w * in /\ in * o \in Int /\ w * in \in Int
  OBVIOUS
<1>3. in * o >= w * (i + in)
  BY <1>1, <1>2
<1>4. i + in \in Nat /\ i + in > 0
  OBVIOUS
<1> QED
  BY <1>2, <1>3, <1>4, RoundedDownFits

\* And one that does by the price.
LEMMA PriceGives ==
    ASSUME NEW in \in Int, NEW a \in Nat, in >= a, NEW p \in Nat, NEW d \in Nat, d > 0, NEW w \in Nat,
           a * p >= w * d
    PROVE  A!Rounded(in * p, d) >= w
<1>1. a * p <= in * p /\ a * p \in Int /\ in * p \in Int
  BY Grows
<1> DEFINE n == in * p
           m == w * d
<1>2. n \in Int /\ m \in Int /\ n >= m
  BY <1>1
<1>3. w * (2 * d) = 2 * m /\ w * (2 * d) \in Int
  OBVIOUS
<1> HIDE DEF n, m
<1>4. w * (2 * d) <= 2 * n + d /\ 2 * n + d \in Int /\ 2 * d \in Nat /\ 2 * d > 0
  BY <1>2, <1>3
<1>5. w <= (2 * n + d) \div (2 * d)
  BY <1>4, RoundedDownFits
<1> QED
  BY <1>5 DEF A!Rounded, n

\* The least input is the first where that is enough.
LEMMA LeastIsFirst ==
    ASSUME NEW first0 \in Int, NEW S, first0 \in S, \A n \in S : n \in Int /\ n >= first0
    PROVE  A!Min(S) = first0
<1> DEFINE IsMin(x) == x \in S /\ \A y \in S : x <= y
<1>1. IsMin(first0)
  OBVIOUS
<1>2. \A x : IsMin(x) => x = first0
  OBVIOUS
<1>3. A!Min(S) = CHOOSE x : IsMin(x)
  BY DEF A!Min
<1> QED
  BY <1>1, <1>2, <1>3

\* A swap in a pool (quoting/quoting.state.swap.ts).
LEMMA SwapIsAmple ==
    ASSUME NEW c, IsQuoteCase(c), c.hop.op = "swapEVM"
    PROVE  Ample(c)
<1> DEFINE from == c.hop.from
           to == c.hop.to
           w == c.wanted
           pool == CHOOSE p \in A!SwapContext(from, to, c.st) : A!PriceFrom(p, from) > 0
           uf == A!Units(from)
           ut == A!Units(to)
           hf == A!HeldOf(pool, from)
           ht == A!HeldOf(pool, to)
           price == A!PriceFrom(pool, from)
           known == A!ReservesKnown(pool)
           rq(n, out) == A!Request("swapEVM", from, to, n, out)
           least == A!InExactOut(pool, from, to, w)
<1>1. uf \in Nat /\ uf > 0 /\ ut \in Nat /\ ut > 0 /\ w \in Nat /\ w > 0
  BY UnitsArePositive DEF IsQuoteCase
<1>2. A!SwapEnabled(from, to, c.st)
  BY Zenon DEF IsQuoteCase
<1>3. pool \in A!SwapContext(from, to, c.st) /\ price > 0
  BY <1>2 DEF A!SwapEnabled
<1>4. /\ pool \in c.st.pools /\ pool.totalBase # 0 /\ pool.totalQuote # 0
  BY <1>3 DEF A!SwapContext
<1>5. /\ pool.fee \in Nat /\ pool.fee < A!WholeFee
      /\ pool.price \in Int /\ pool.inverse \in Int
      /\ pool.totalBase \in Int /\ pool.totalBase >= A!None
      /\ pool.totalQuote \in Int /\ pool.totalQuote >= A!None
  BY <1>4, MarketGives DEF IsQuoteCase
<1>6. price \in Nat /\ price > 0
  <2>1. price \in Int
    BY <1>5 DEF A!PriceFrom
  <2> QED
    BY <1>3, <2>1
<1>7. known => hf \in Nat /\ hf > 0 /\ ht \in Nat /\ ht > 0 /\ ht * ut > w /\ ~A!Diverges(pool, from, to)
  <2>1. known => ht * ut > w /\ ~A!Diverges(pool, from, to)
    BY <1>3 DEF IsQuoteCase
  <2>2. known => hf \in Nat /\ hf > 0 /\ ht \in Nat /\ ht > 0
    BY <1>4, <1>5 DEF A!ReservesKnown, A!HeldOf, A!None
  <2> QED
    BY <2>1, <2>2
<1>8. \A n, out : Asked(c, n, out) = A!QuoteSwapState(rq(n, out), c.st)
  BY DEF Asked, A!InvokeQuoter, A!Request
<1>9. Asked(c, 0, w).amountIn = IF least = A!None THEN 0 ELSE least
  BY <1>1, <1>2, <1>8 DEF A!QuoteSwapState, A!Nothing, A!Quote, A!Request
<1>10. \A n \in Nat : n > 0 => Asked(c, n, 0).amountOut = A!OutExactIn(pool, from, to, n)
  <2> SUFFICES ASSUME NEW n \in Nat, n > 0
               PROVE  Asked(c, n, 0).amountOut = A!OutExactIn(pool, from, to, n)
    OBVIOUS
  <2>1. n # A!None
    BY DEF A!None
  <2>2. rq(n, 0).amountIn = n /\ rq(n, 0).from = from /\ rq(n, 0).to = to
    BY DEF A!Request
  <2>3. A!QuoteSwapState(rq(n, 0), c.st)
            = A!Quote(n, 0, A!OutExactIn(pool, from, to, n), A!FeeOn(pool, n), TRUE)
    <3> HIDE DEF rq
    <3> QED
      BY <1>2, <2>1, <2>2 DEF A!QuoteSwapState
  <2> QED
    BY <1>8, <2>3 DEF A!Quote
<1> HIDE DEF pool, uf, ut, hf, ht, price, known, least, rq
<1>11. CASE known
  <2> DEFINE i == hf * uf
             o == ht * ut
             after == A!CeilDiv(w * i, o - w)
             n == A!FirstTry(pool, after)
             in == n - A!FeeOn(pool, n)
  <2>1. i \in Nat /\ i > 0 /\ o \in Nat /\ o > w
    BY <1>1, <1>7, <1>11
  <2>2. after \in Nat /\ after > 0 /\ after * (o - w) >= w * i
    <3> DEFINE due == w * i
               share == o - w
    <3> HIDE DEF i, o
    <3>1. due \in Nat /\ due > 0 /\ share \in Nat /\ share > 0
      BY <1>1, <2>1
    <3>2. after = A!CeilDiv(due, share)
      OBVIOUS
    <3> HIDE DEF due, share, after
    <3>3. after \in Nat /\ after * share >= due /\ after > 0
      BY <3>1, <3>2, RoundedUpIsEnough
    <3> QED
      BY <3>3 DEF due, share
  <2> HIDE DEF after
  <2>3. n \in Nat /\ n > 0 /\ in \in Int /\ in >= after
    BY <1>5, <2>2, FirstTryLeaves
  <2> HIDE DEF n, in
  <2>4. A!OutByReserves(pool, from, to, n) = (in * o) \div (i + in)
    <3>1. A!OutByReserves(pool, from, to, n) = (in * ht * ut) \div (hf * uf + in)
      BY DEF A!OutByReserves, in, ht, hf, ut, uf
    <3>2. in * ht * ut = in * (ht * ut)
      BY <1>1, <1>7, <1>11, <2>3
    <3> QED
      BY <3>1, <3>2
  <2> HIDE DEF i, o
  <2>5. A!OutByReserves(pool, from, to, n) >= w
    BY <1>1, <2>1, <2>2, <2>3, <2>4, ReservesGive
  <2>6. least = n
    <3> DEFINE enough == {k \in n..(n + A!Slack) : A!OutByReserves(pool, from, to, k) >= w}
    <3>1. n \in enough /\ \A k \in enough : k \in Int /\ k >= n
      BY <2>3, <2>5 DEF A!Slack
    <3>2. least = IF enough = {} THEN A!None ELSE A!Min(enough)
      <4>1. known /\ A!HeldOf(pool, to) * A!Units(to) > w
        BY <1>11, <2>1 DEF o, ht, ut
      <4>2. n = A!FirstTry(pool, A!CeilDiv(w * (A!HeldOf(pool, from) * A!Units(from)),
                                           A!HeldOf(pool, to) * A!Units(to) - w))
        BY DEF n, after, i, o, hf, ht, uf, ut
      <4> QED
        BY <4>1, <4>2 DEF least, A!InExactOut, A!LeastInput, known
    <3> HIDE DEF enough
    <3> QED
      BY <2>3, <3>1, <3>2, LeastIsFirst
  <2>7. A!OutExactIn(pool, from, to, n) >= w
    <3>1. A!OutByReserves(pool, from, to, n) # 0
      BY <1>1, <2>5
    <3> QED
      BY <1>7, <1>11, <2>5, <3>1 DEF A!OutExactIn, known
  <2> QED
    BY <1>9, <1>10, <2>3, <2>6, <2>7 DEF Ample, A!None
<1>12. CASE ~known
  <2> DEFINE p == price * ut
             d == 100 * uf
             after == A!CeilDiv(w * d, p)
             n == A!FirstTry(pool, after)
             in == n - A!FeeOn(pool, n)
  <2>1. p \in Nat /\ p > 0 /\ d \in Nat /\ d > 0
    BY <1>1, <1>6
  <2>2. after \in Nat /\ after > 0 /\ after * p >= w * d
    <3> DEFINE due == w * d
    <3> HIDE DEF p, d
    <3>1. due \in Nat /\ due > 0
      BY <1>1, <2>1
    <3>2. after = A!CeilDiv(due, p)
      OBVIOUS
    <3> HIDE DEF due, after
    <3>3. after \in Nat /\ after * p >= due /\ after > 0
      BY <2>1, <3>1, <3>2, RoundedUpIsEnough
    <3> QED
      BY <3>3 DEF due
  <2> HIDE DEF after
  <2>3. n \in Nat /\ n > 0 /\ in \in Int /\ in >= after
    BY <1>5, <2>2, FirstTryLeaves
  <2> HIDE DEF n, in
  <2>4. A!OutByPrice(pool, from, to, n) = A!Rounded(in * p, d)
    <3>1. A!OutByPrice(pool, from, to, n) = A!Rounded(in * price * ut, 100 * uf)
      BY DEF A!OutByPrice, in, price, ut, uf
    <3>2. in * price * ut = in * (price * ut)
      BY <1>1, <1>6, <2>3
    <3> QED
      BY <3>1, <3>2
  <2> HIDE DEF p, d
  <2>5. A!OutByPrice(pool, from, to, n) >= w
    BY <1>1, <2>1, <2>2, <2>3, <2>4, PriceGives
  <2>6. least = n
    <3> DEFINE enough == {k \in n..(n + A!Slack) : A!OutByPrice(pool, from, to, k) >= w}
    <3>1. n \in enough /\ \A k \in enough : k \in Int /\ k >= n
      BY <2>3, <2>5 DEF A!Slack
    <3>2. least = IF enough = {} THEN A!None ELSE A!Min(enough)
      <4>1. w * (100 * uf) = w * 100 * uf
        BY <1>1
      <4>2. n = A!FirstTry(pool, A!CeilDiv(w * 100 * A!Units(from), A!PriceFrom(pool, from) * A!Units(to)))
        BY <4>1 DEF n, after, p, d, price, uf, ut
      <4> QED
        BY <1>12, <4>2 DEF least, A!InExactOut, A!LeastInput, known
    <3> HIDE DEF enough
    <3> QED
      BY <2>3, <3>1, <3>2, LeastIsFirst
  <2>7. A!OutExactIn(pool, from, to, n) >= w
    BY <1>12, <2>5 DEF A!OutExactIn, known
  <2> QED
    BY <1>9, <1>10, <2>3, <2>6, <2>7 DEF Ample, A!None
<1> QED
  BY <1>11, <1>12

\* An input that is quoted for a wanted output is quoted, and given to the same quote it brings that
\* output (quoting/quoting.state.swap.ts, quoting.zephyr.ts, quoting.bridge.ts).
THEOREM QuotedInputsSuffice == MarketSpec => []ExactOutIsEnough
<1> DEFINE Kept == part = "quote" => case \in QuoteCases
<1>1. MarketInit => Kept
  BY DEF MarketInit, Lasting
<1>2. Kept /\ [MarketNext]_allVars => Kept'
  BY PartsStep
<1>3. Kept => ExactOutIsEnough
  <2> SUFFICES ASSUME part = "quote", case \in QuoteCases
               PROVE  ExactOutIsEnough
    BY DEF ExactOutIsEnough
  <2>1. IsQuoteCase(case)
    BY MarketAssumption DEF MarketAssumption
  <2>2. Ample(case)
    BY <2>1, BridgeIsAmple, ConversionIsAmple, SwapIsAmple DEF IsQuoteCase
  <2> QED
    BY <2>2 DEF ExactOutIsEnough, Ample, Asked
<1> QED
  BY <1>1, <1>2, <1>3, PTL DEF MarketSpec

-----------------------------------------------------------------------------
(***************************************************************************)
(* What a plan spends.  Its amount is a number, whichever clip, candidate  *)
(* or estimate it is of; it is not limited only when every step has it;    *)
(* and what is known of a balance is never more than may be spent.         *)
(***************************************************************************)

\* Prices are whole numbers, of none where there is none.
LEMMA PricesAreNumbers ==
    ASSUME NEW st, A!IsMarket(st), NEW asset
    PROVE  /\ A!AssetPrice(asset, st) \in Int /\ A!ClipPrice(asset, st) \in Int
<1> DEFINE rates == st.reserve.rates
<1>1. st.hasReserve => /\ rates.ZEPH.spot \in Nat /\ rates.ZSD.spot \in Nat
                       /\ rates.ZRS.spot \in Nat /\ rates.ZYS.spot \in Nat
  <2>1. st.hasReserve => \A c \in A!Coins : rates[c].spot \in Nat
    BY MarketGives
  <2> QED
    BY <2>1 DEF A!Coins
<1>2. \A a, b : a \in Int /\ b \in Int => A!Times(a, b) \in Int
  BY DEF A!Times, A!None
<1>3. ASSUME st.hasReserve, asset[1] \in A!Coins
      PROVE  A!SpotUsd(asset[1], rates) \in Int
  <2> DEFINE c == asset[1]
  <2>1. CASE c = "ZEPH"
    BY <1>1, <1>3, <2>1 DEF A!SpotUsd
  <2>2. CASE c = "ZSD"
    BY <1>1, <1>2, <1>3, <2>2 DEF A!SpotUsd
  <2>3. CASE c = "ZRS"
    BY <1>1, <1>2, <1>3, <2>3 DEF A!SpotUsd
  <2>4. CASE c = "ZYS"
    <3>1. A!Times(rates.ZSD.spot, rates.ZEPH.spot) \in Int
      BY <1>1, <1>2, <1>3
    <3>2. A!SpotUsd(c, rates) = A!Times(rates.ZYS.spot, A!Times(rates.ZSD.spot, rates.ZEPH.spot))
      BY <2>4 DEF A!SpotUsd
    <3> QED
      BY <1>1, <1>2, <1>3, <3>1, <3>2
  <2> QED
    BY <1>3, <2>1, <2>2, <2>3, <2>4 DEF A!Coins
<1>4. A!AssetPrice(asset, st) \in Int
  BY <1>3 DEF A!AssetPrice, A!None
<1>5. A!CexPrice(st) \in Int
  BY MarketGives DEF A!CexPrice
<1> QED
  BY <1>4, <1>5 DEF A!ClipPrice

\* The estimate of a clip: what was asked for, a share of the pool of the pair, or so many dollars.
LEMMA EstimateIsNumber ==
    ASSUME NEW st, A!IsMarket(st), NEW leg, NEW override \in Nat
    PROVE  A!EstimateClipAmount(leg, override, st) \in Int
<1> DEFINE asset == leg.open.from
           pools == A!PoolsOf(asset, leg.open.to, st)
           holding == {p \in pools : A!HeldOf(p, asset) > 0}
           valued == {p \in pools : p.tvl > 0}
           price == A!ClipPrice(asset, st)
           units == A!Units(asset)
           cents == IF valued # {} THEN 5 * A!OnlyPool(valued).tvl ELSE 100 * A!ClipMin
           share == A!Larger(1, (A!HeldOf(A!OnlyPool(holding), asset) * units) \div 10)
           bought == A!Larger(1, (cents * units) \div price)
<1>1. \A p \in pools : p.totalBase \in Int /\ p.totalQuote \in Int /\ p.tvl \in Int
  BY MarketGives DEF A!PoolsOf
<1>2. price \in Int /\ units \in {10, 100, 1000}
  BY PricesAreNumbers, UnitsArePositive
<1>3. \A a, b \in Int : A!Larger(a, b) \in Int
  BY DEF A!Larger
<1>4. holding # {} => share \in Int
  <2> SUFFICES ASSUME holding # {} PROVE share \in Int
    OBVIOUS
  <2>1. A!OnlyPool(holding) \in pools
    BY DEF A!OnlyPool
  <2>2. A!HeldOf(A!OnlyPool(holding), asset) \in Int
    BY <1>1, <2>1 DEF A!HeldOf
  <2> DEFINE n == A!HeldOf(A!OnlyPool(holding), asset)
  <2>3. n \in Int
    BY <2>2
  <2> HIDE DEF n, units
  <2>4. (n * units) \div 10 \in Int
    BY <1>2, <2>3
  <2> QED
    BY <1>3, <2>4 DEF n
<1>5. price > 0 => bought \in Int
  <2>1. cents \in Int
    <3>1. CASE valued # {}
      <4>1. A!OnlyPool(valued) \in pools
        BY <3>1 DEF A!OnlyPool
      <4> QED
        BY <1>1, <3>1, <4>1
    <3>2. CASE valued = {}
      BY <3>2 DEF A!ClipMin
    <3> QED
      BY <3>1, <3>2
  <2> HIDE DEF price, units, cents
  <2>2. price > 0 => (cents * units) \div price \in Int
    BY <1>2, <2>1
  <2> QED
    BY <1>3, <2>2
<1> HIDE DEF price, bought, share, holding
<1>6. A!EstimateClipAmount(leg, override, st)
        = IF override > 0 THEN override
          ELSE IF holding # {} THEN share
          ELSE IF price > 0 THEN bought ELSE A!None
  BY DEF A!EstimateClipAmount, share, price, bought, holding
<1> QED
  BY <1>4, <1>5, <1>6 DEF A!None

\* What a search offers has the amount it settled for and the dollars of that, and there is one of
\* each close at most (arbitrage/calibration.clip.ts).
LEMMA OfferedAreAlike ==
    ASSUME NEW flavor0 \in {"native", "cex"}, NEW leg, NEW tried, NEW depth, NEW chain, NEW st
    PROVE  LET offered == A!CalibrateRoute(flavor0, leg, tried, depth, chain, st)
               usd == IF A!ClipPrice(leg.open.from, st) = A!None THEN A!None
                      ELSE A!Worth(tried.chosen, leg.open.from, st)
           IN  /\ \A o \in offered : o.flavor = flavor0 /\ o.amount = tried.chosen /\ o.usd = usd
               /\ \A o, p \in offered : o = p
<1> DEFINE usd == IF A!ClipPrice(leg.open.from, st) = A!None THEN A!None
                  ELSE A!Worth(tried.chosen, leg.open.from, st)
           natives == A!CalibrateNativeRoute(leg, tried.chosen, usd, depth, chain, st)
           cexes == A!CalibrateCexRoute(leg, tried, usd, depth, chain, st)
           offered == A!CalibrateRoute(flavor0, leg, tried, depth, chain, st)
<1>1. \/ offered = {}
      \/ flavor0 = "native" /\ offered = natives
      \/ flavor0 = "cex" /\ offered = cexes
  BY DEF A!CalibrateRoute, A!CalibrateClipRoute
<1> HIDE DEF usd
<1>2. \A f, o, c, t : LET r == A!RouteOutcome(f, tried.chosen, usd, o, c, t)
                      IN  r.flavor = f /\ r.amount = tried.chosen /\ r.usd = usd
  BY DEF A!RouteOutcome
<1>3. /\ \A o \in natives : o.flavor = "native" /\ o.amount = tried.chosen /\ o.usd = usd
      /\ \A o, p \in natives : o = p
  BY <1>2 DEF A!CalibrateNativeRoute
<1>4. /\ \A o \in cexes : o.flavor = "cex" /\ o.amount = tried.chosen /\ o.usd = usd
      /\ \A o, p \in cexes : o = p
  <2> DEFINE sample(n) == A!EvaluateCexAmount(leg, n, chain, st)
             ins == {n \in sample(tried.last).closes : n > 0}
             chosen == {r \in {sample(tried.chosen)} : r.known /\ sample(tried.first).known}
             anchored(n) == A!ClampCalibrationPrice(n, A!InitialPrice(leg.open, st),
                                                    A!ClipPrice(leg.cex.from, st))
             outcome(s, n) == A!RouteOutcome("cex", tried.chosen, usd,
                                  A!SimulateExecution(leg.open, tried.chosen, depth, chain, st),
                                  A!CexExecution(leg.cex, n, st), anchored(s.middle))
  <2>1. \A n : \E in : sample(n).closes = {in}
    BY DEF A!EvaluateCexAmount, A!CexSample, A!Sampled
  <2>2. \A n, m \in ins : n = m
    BY <2>1
  <2>3. cexes = {outcome(s, n) : s \in chosen, n \in ins}
    BY DEF A!CalibrateCexRoute
  <2>4. \A r, s \in chosen : r = s
    OBVIOUS
  <2>5. \A s, n : outcome(s, n).flavor = "cex" /\ outcome(s, n).amount = tried.chosen /\ outcome(s, n).usd = usd
    BY <1>2
  <2> HIDE DEF ins, chosen, outcome, cexes
  <2> QED
    BY <2>2, <2>3, <2>4, <2>5
<1> HIDE DEF natives, cexes, offered
<1> QED
  BY <1>1, <1>3, <1>4 DEF offered, usd

\* So the best of them is one of them, and has that amount (arbitrage/planner.stages.ts, selectClipOption).
LEMMA SelectedIsOffered ==
    ASSUME NEW leg, NEW estimate \in Int, NEW sizing, sizing.chosen \in Nat, NEW depth, NEW chain, NEW st,
           A!OptionsFor(leg, estimate, sizing, depth, chain, st) # {}
    PROVE  A!SelectClipOption(A!OptionsFor(leg, estimate, sizing, depth, chain, st)).amount \in Int
<1> DEFINE tried == A!Tried(estimate, sizing)
           route(f) == A!CalibrateRoute(f, leg, tried, depth, chain, st)
           options == A!OptionsFor(leg, estimate, sizing, depth, chain, st)
           usd == IF A!ClipPrice(leg.open.from, st) = A!None THEN A!None
                  ELSE A!Worth(tried.chosen, leg.open.from, st)
           Best(o) == \A p \in options \ {o} :
                          \/ A!Earns(o, p)
                          \/ ~A!Earns(p, o) /\ o.usd > p.usd
                          \/ ~A!Earns(p, o) /\ o.usd = p.usd /\ o.flavor = "native"
<1>1. tried.chosen \in Int
  <2>1. tried.chosen = (estimate * sizing.chosen) \div 100
    BY DEF A!Tried
  <2>2. estimate * sizing.chosen \in Int
    OBVIOUS
  <2> QED
    BY <2>1, <2>2
<1>2. \A o \in options : \E f \in {"native", "cex"} : o \in route(f)
  <2>1. A!Closes(leg) \subseteq {"native", "cex"}
    BY DEF A!Closes
  <2> QED
    BY <2>1 DEF A!OptionsFor
<1> HIDE DEF tried, options, usd
<1>3. \A f \in {"native", "cex"} :
        /\ \A o \in route(f) : o.flavor = f /\ o.amount = tried.chosen /\ o.usd = usd
        /\ \A o, p \in route(f) : o = p
  BY OfferedAreAlike DEF usd
<1> HIDE DEF route
<1>4. /\ \A o \in options : o.amount = tried.chosen /\ o.usd = usd /\ o.flavor \in {"native", "cex"}
      /\ \A o, p \in options : o.flavor = p.flavor => o = p
  BY <1>2, <1>3
<1>5. \E o \in options : Best(o)
  <2>1. CASE \E o \in options : o.flavor = "native" /\ \A p \in options : A!Earns(p, o) => A!Earns(o, p)
    BY <1>4, <2>1
  <2>2. CASE \E o, p \in options : o.flavor = "native" /\ A!Earns(p, o) /\ ~A!Earns(o, p)
    BY <1>4, <2>2
  <2>3. CASE \A o \in options : o.flavor = "cex"
    <3>1. options # {}
      BY DEF options
    <3> QED
      BY <1>4, <2>3, <3>1
  <2> QED
    BY <1>4, <2>1, <2>2, <2>3
<1>6. A!SelectClipOption(options) \in options
  BY <1>5 DEF A!SelectClipOption
<1> QED
  BY <1>1, <1>4, <1>6 DEF options

\* The candidate that is picked is one of those that were tried, with the amount it was tried with.
LEMMA PickedIsTried ==
    ASSUME NEW st, A!IsMarket(st), NEW leg, NEW need, NEW depth, NEW limit, NEW inventory,
           NEW wanted, wanted.amount \in Int
    PROVE  LET tried == A!EvaluateStepPreparation(leg, need, depth, limit, wanted, inventory, st)
           IN  A!BuildPreparationEntry(tried, need, inventory).amountIn \in Int
<1> DEFINE tried == A!EvaluateStepPreparation(leg, need, depth, limit, wanted, inventory, st)
           probe(a) == A!ProbeAmount(a, need, wanted)
<1>1. \A a : probe(a) \in Int
  <2> SUFFICES ASSUME NEW a PROVE probe(a) \in Int
    OBVIOUS
  <2>1. A!Units(a) \in {10, 100, 1000} /\ A!Units(need) \in {10, 100, 1000}
    BY UnitsArePositive
  <2>2. A!Scaled(wanted.amount, need, a) \in Int
    BY <2>1 DEF A!Scaled
  <2> QED
    BY <2>1, <2>2 DEF A!ProbeAmount
<1>2. \A e \in tried : e.amountIn \in Int
  <2>1. \A s, p, n : [A!EvaluatePath(s, p, n, inventory, st) EXCEPT !.amountIn = n].amountIn = n
    BY DEF A!EvaluatePath, A!Score
  <2> DEFINE made(s, p, n) == [A!EvaluatePath(s, p, n, inventory, st) EXCEPT !.amountIn = n]
  <2>2. \A e \in tried : \E c : e = made(c.source, c.path, probe(c.source))
    BY DEF A!EvaluateStepPreparation
  <2>3. \A s, p, n : made(s, p, n).amountIn = n
    BY <2>1
  <2> HIDE DEF probe, made, tried
  <2> QED
    BY <1>1, <2>2, <2>3
<1> HIDE DEF tried
<1>3. tried # {} => A!PickCandidate(tried) \in tried
  <2> DEFINE allowed == {c \in tried : A!Allowed(c)}
             ready == {c \in allowed : c.status \in {"prepped", "covered"}}
             among == IF ready # {} THEN ready ELSE IF allowed # {} THEN allowed ELSE tried
             foremost == {e \in among : \A f \in among \ {e} : A!Ranks(e, f, A!CandidateOrder)}
  <2>1. among \subseteq tried /\ (tried # {} => among # {})
    OBVIOUS
  <2>2. A!PickCandidate(tried) = CHOOSE e \in among : foremost = {} \/ e \in foremost
    BY DEF A!PickCandidate, A!FirstRanked
  <2>3. foremost \subseteq among
    OBVIOUS
  <2> HIDE DEF among, foremost
  <2> QED
    BY <2>1, <2>2, <2>3
<1> QED
  BY <1>2, <1>3 DEF A!BuildPreparationEntry, A!Entry, tried

\* The amount of a plan is a number.
LEMMA PlansSpendNumbers ==
    ASSUME NEW c, IsPlanCase(c)
    PROVE  A!BuildArbPlan(c.leg, A!BuildClipScenario(c.leg, c.override, c.sizing, 2, c.chain, c.st),
                          c.override, 2, 5, c.w, c.st).amount \in Int
<1> DEFINE estimate == A!EstimateClipAmount(c.leg, c.override, c.st)
           options == A!BuildClipScenario(c.leg, c.override, c.sizing, 2, c.chain, c.st)
           wanted == A!Wanted(c.leg, options, c.override, c.st)
           inventory == A!MapBalanceSnapshot(c.w)
           prepared == A!EvaluateStepPreparation(c.leg, c.leg.open.from, 2, 5, wanted, inventory, c.st)
           entrance == A!BuildPreparationEntry(prepared, c.leg.open.from, inventory)
<1>1. c.override \in Nat /\ A!IsMarket(c.st) /\ c.sizing.chosen \in Nat
  BY DEF IsPlanCase
<1>2. estimate \in Int
  BY <1>1, EstimateIsNumber
<1> HIDE DEF estimate
<1>3. options # {} => A!SelectClipOption(options).amount \in Int
  BY <1>1, <1>2, SelectedIsOffered DEF A!BuildClipScenario, estimate
<1> HIDE DEF options
<1>4. wanted.amount \in Int
  <2> DEFINE clip == IF options # {} THEN A!SelectClipOption(options).amount ELSE estimate
  <2>1. wanted.amount = IF c.override > 0 THEN c.override ELSE A!Larger(0, clip)
    BY DEF A!Wanted, estimate
  <2>2. clip \in Int
    BY <1>2, <1>3
  <2> HIDE DEF clip, wanted
  <2> QED
    BY <1>1, <2>1, <2>2 DEF A!Larger
<1> HIDE DEF wanted, inventory
<1>5. entrance.amountIn \in Int
  BY <1>1, <1>4, PickedIsTried
<1> HIDE DEF entrance
<1>6. A!BuildArbPlan(c.leg, options, c.override, 2, 5, c.w, c.st).amount
        = A!BaseAmount(c.leg, wanted, entrance)
  BY DEF A!BuildArbPlan, A!PlanFor, A!WithPreparation, A!WithEntries, A!Planned, A!LegPreparation,
         wanted, inventory, entrance
<1>7. A!BaseAmount(c.leg, wanted, entrance) \in Int
  BY <1>4, <1>5, UnitsArePositive DEF A!BaseAmount
<1> QED
  BY <1>6, <1>7 DEF options

\* What is known of a balance is a number, and never more than may be spent of it.
LEMMA KnownMayBeSpent ==
    ASSUME NEW w, A!IsWorld(w), NEW a \in DOMAIN A!MapBalanceSnapshot(w)
    PROVE  /\ A!MapBalanceSnapshot(w)[a] \in Int /\ A!MayBeSpent(a, w) \in Int
           /\ A!MapBalanceSnapshot(w)[a] <= A!MayBeSpent(a, w)
<1> DEFINE loaded == A!LoadBalanceSnapshot(w)
           natives == IF w.zephyrPaper /\ w.hasPaper THEN w.paperZephyr
                      ELSE IF loaded.zephyr /\ A!SpendableBalance(w) # 0 THEN A!SpendableBalance(w) ELSE A!None
           cexes == IF loaded.cex THEN IF w.cex = 0 THEN A!None ELSE w.cex
                    ELSE IF w.mexcPaper /\ w.hasPaper THEN w.paperCex ELSE A!None
           known == (IF loaded.evm = "ok" THEN A!OnEvm ELSE {})
                      \cup (IF natives = A!None THEN {} ELSE A!Native) \cup (IF cexes = A!None THEN {} ELSE A!OnCex)
           units == A!Units(a)
           balanceOf(b) == CASE b[2] = "e" -> loaded.tokens[b]
                             [] b[2] = "n" -> natives * A!Units(b)
                             [] b[2] = "x" -> cexes * A!Units(b)
           mine == CASE a[2] = "e" -> w.evm
                     [] a[2] = "n" -> IF w.zephyrPaper THEN w.paperZephyr ELSE w.unlocked
                     [] a[2] = "x" -> IF w.cexFails \/ ~w.configured THEN w.paperCex ELSE w.cex
<1>1. /\ w.evm \in Nat /\ w.paperZephyr \in Nat /\ w.paperCex \in Nat
      /\ w.cex \in Nat /\ w.locked \in Nat /\ w.unlocked \in Nat
  BY DEF A!IsWorld
<1>2. /\ loaded.cex = (w.configured /\ w.mexcPaper /\ ~w.cexFails)
      /\ loaded.zephyr = (w.configured /\ ~w.zephyrPaper /\ ~w.zephyrFails)
      /\ loaded.tokens = [b \in A!OnEvm |-> IF b \in w.unreadable THEN 0 ELSE w.evm * A!Units(b)]
  BY DEF A!LoadBalanceSnapshot
<1>3. A!MapBalanceSnapshot(w) = [b \in known |-> balanceOf(b)]
  BY DEF A!MapBalanceSnapshot
<1> HIDE DEF known
<1>4. a \in known
  BY <1>3
<1>5. A!MapBalanceSnapshot(w)[a] = balanceOf(a)
  <2> HIDE DEF balanceOf
  <2> QED
    BY <1>3, <1>4
<1>6. A!MayBeSpent(a, w) = units * mine
  BY DEF A!MayBeSpent
<1>7. units \in {10, 100, 1000}
  BY UnitsArePositive
<1> HIDE DEF loaded
<1>8. \/ a \in A!OnEvm
      \/ a \in A!Native /\ natives # A!None
      \/ a \in A!OnCex /\ cexes # A!None
  <2> HIDE DEF natives, cexes
  <2> QED
    BY <1>4 DEF known
<1>9. CASE a \in A!OnEvm
  <2>1. a[2] = "e"
    BY <1>9 DEF A!OnEvm, A!Asset
  <2>2. balanceOf(a) = IF a \in w.unreadable THEN 0 ELSE w.evm * units
    BY <1>2, <1>9, <2>1
  <2>3. mine = w.evm
    BY <2>1
  <2> HIDE DEF balanceOf, mine, units
  <2> QED
    BY <1>1, <1>5, <1>6, <1>7, <2>2, <2>3
<1>10. CASE a \in A!Native /\ natives # A!None
  <2>1. a[2] = "n"
    BY <1>10 DEF A!Native, A!Asset
  <2>2. balanceOf(a) = natives * units
    BY <2>1
  <2>3. mine = IF w.zephyrPaper THEN w.paperZephyr ELSE w.unlocked
    BY <2>1
  <2>4. natives = mine
    BY <1>2, <1>10, <2>3 DEF A!SpendableBalance
  <2>5. mine \in Nat
    BY <1>1, <2>3
  <2> HIDE DEF balanceOf, mine, units, natives
  <2> QED
    BY <1>5, <1>6, <1>7, <2>2, <2>4, <2>5
<1>11. CASE a \in A!OnCex /\ cexes # A!None
  <2>1. a[2] = "x"
    BY <1>11 DEF A!OnCex, A!Asset
  <2>2. balanceOf(a) = cexes * units
    BY <2>1
  <2>3. mine = IF w.cexFails \/ ~w.configured THEN w.paperCex ELSE w.cex
    BY <2>1
  <2>4. cexes = mine
    BY <1>2, <1>11, <2>3
  <2>5. mine \in Nat
    BY <1>1, <2>3
  <2> HIDE DEF balanceOf, mine, units, cexes
  <2> QED
    BY <1>5, <1>6, <1>7, <2>2, <2>4, <2>5
<1> QED
  BY <1>8, <1>9, <1>10, <1>11

\* The hops of a plan: that of the opening and those of the closes there are.
HopsOf(leg) == {leg.open} \cup {A!CloseHop(leg, f) : f \in A!Closes(leg)}

\* What the plan of a case is, without a limit: its balances have what each of the hops asks for.
LEMMA UnlimitedIsCovered ==
    ASSUME NEW leg, NEW options, NEW override, NEW w, NEW st,
           ~A!BuildArbPlan(leg, options, override, 2, 5, w, st).limited, NEW h \in HopsOf(leg)
    PROVE  A!Covers(A!MapBalanceSnapshot(w), h.from,
                    A!BuildArbPlan(leg, options, override, 2, 5, w, st).amount, leg.open.from)
<1> DEFINE inventory == A!MapBalanceSnapshot(w)
           wanted == A!Wanted(leg, options, override, st)
           preparation == A!LegPreparation(leg, wanted, 2, 5, inventory, st)
           entrance == A!BuildPreparationEntry(preparation["open"], leg.open.from, inventory)
           closes == [f \in A!Closes(leg) |->
                         A!BuildPreparationEntry(preparation[f], A!CloseHop(leg, f).from, inventory)]
           chosen == A!ChosenClose(leg, options, closes)
           amount == A!BaseAmount(leg, wanted, entrance)
           listed == A!InventorySteps(leg, amount, inventory)
<1>1. A!BuildArbPlan(leg, options, override, 2, 5, w, st)
        = A!Planned(leg, chosen, amount, entrance, closes, 2, 5, inventory, st)
  BY DEF A!BuildArbPlan, A!PlanFor, A!WithPreparation, A!WithEntries
<1> HIDE DEF inventory, wanted, preparation, entrance, closes, chosen, amount
<1>2. /\ A!BuildArbPlan(leg, options, override, 2, 5, w, st).amount = amount
      /\ ~A!Limited(leg, chosen, amount, entrance, closes, inventory)
  BY <1>1 DEF A!Planned
<1>3. \A s \in DOMAIN listed : listed[s]
  BY <1>2 DEF A!Limited
<1>4. A!Covers(inventory, leg.open.from, amount, leg.open.from)
  BY <1>3 DEF A!InventorySteps
<1>5. \A f \in A!Closes(leg) : A!Covers(inventory, A!CloseHop(leg, f).from, amount, leg.open.from)
  <2>1. \A f \in A!Closes(leg) : f # "open"
    BY DEF A!Closes
  <2> QED
    BY <1>3, <2>1 DEF A!InventorySteps
<1> QED
  BY <1>2, <1>4, <1>5 DEF HopsOf, inventory

\* A plan that the inventory does not limit is funded by what may be spent: its amount, of the asset it
\* opens with, is in the balances for its opening and for either close
\* (arbitrage/planner.ts, inventory/balances.ts, services/arbitrage/balances.ts).
THEOREM UnlimitedPlansPay == MarketSpec => []UnlimitedPlansAreFunded
<1> DEFINE Kept == part = "plan" => case \in PlanCases
<1>1. MarketInit => Kept
  BY DEF MarketInit, Lasting
<1>2. Kept /\ [MarketNext]_allVars => Kept'
  BY PartsStep
<1>3. Kept => UnlimitedPlansAreFunded
  <2> DEFINE options == A!BuildClipScenario(case.leg, case.override, case.sizing, 2, case.chain, case.st)
             plan == A!BuildArbPlan(case.leg, options, case.override, 2, 5, case.w, case.st)
  <2> SUFFICES ASSUME part = "plan", case \in PlanCases, ~plan.limited, NEW h \in HopsOf(case.leg)
               PROVE  A!MayBeSpent(h.from, case.w) * A!Units(case.leg.open.from)
                        >= plan.amount * A!Units(h.from)
    BY DEF UnlimitedPlansAreFunded, A!IsFunded, HopsOf
  <2>1. IsPlanCase(case)
    BY MarketAssumption DEF MarketAssumption
  <2>2. A!IsWorld(case.w)
    BY <2>1 DEF IsPlanCase
  <2>3. plan.amount \in Int
    BY <2>1, PlansSpendNumbers
  <2> DEFINE inventory == A!MapBalanceSnapshot(case.w)
             amount == plan.amount
             opens == A!Units(case.leg.open.from)
             takes == A!Units(h.from)
             has == inventory[h.from]
             may == A!MayBeSpent(h.from, case.w)
  <2>4. A!Covers(inventory, h.from, amount, case.leg.open.from)
    BY UnlimitedIsCovered
  <2> HIDE DEF plan, options
  <2>5. h.from \in DOMAIN inventory /\ has * opens >= amount * takes
    BY <2>4 DEF A!Covers, A!Reaches
  <2>6. has \in Int /\ may \in Int /\ has <= may
    BY <2>2, <2>5, KnownMayBeSpent
  <2>7. opens \in {10, 100, 1000} /\ takes \in {10, 100, 1000}
    BY UnitsArePositive
  <2> HIDE DEF amount, opens, takes, has, may
  <2>8. may * opens >= amount * takes
    BY <2>3, <2>5, <2>6, <2>7 DEF amount
  <2> QED
    BY <2>8 DEF amount, opens, takes, may
<1> QED
  BY <1>1, <1>2, <1>3, PTL DEF MarketSpec

-----------------------------------------------------------------------------
(***************************************************************************)
(* The paths.  In a market whose prices agree no hop gives more than it    *)
(* is given, at the prices of the assets, but for half a unit that         *)
(* rounding may add; and a path leads to no asset twice.  More on sums.    *)
(***************************************************************************)
\* A sum of nothing positive is not positive.
LEMMA SumNotPositive ==
    ASSUME NEW S, IsFiniteSet(S), NEW F, \A x \in S : F[x] \in Int /\ F[x] <= 0
    PROVE  SumOver(F, S) \in Int /\ SumOver(F, S) <= 0
<1> DEFINE Good(s) == SumOver(F, s) \in Int /\ SumOver(F, s) <= 0
           H == {s \in SUBSET S : Good(s)}
<1>1. Good({})
  BY SumOfNone
<1>2. ASSUME NEW s \in SUBSET S, s # {}, \A x \in s : s \ {x} \in H
      PROVE  Good(s)
  <2>1. PICK x \in s : TRUE
    BY <1>2
  <2>2. Good(s \ {x})
    BY <1>2, <2>1
  <2>3. IsFiniteSet(s)
    BY FS_Subset, Zenon
  <2>4. SumOver(F, s) = F[x] + SumOver(F, s \ {x})
    BY <2>1, <2>3, SumWithout
  <2> HIDE DEF H
  <2> QED
    BY <2>1, <2>2, <2>4
<1>3. {} \in H /\ \A s \in SUBSET S : s # {} /\ (\A x \in s : s \ {x} \in H) => s \in H
  <2> HIDE DEF Good
  <2> QED
    BY <1>1, <1>2
<1> HIDE DEF H
<1>4. SUBSET S \subseteq H
  BY <1>3, BySize
<1>5. S \in H
  BY <1>4
<1> QED
  BY <1>5 DEF H

\* The sum of what is 0 except at two.
LEMMA SumOfTwo ==
    ASSUME NEW S, IsFiniteSet(S), NEW F, \A x \in S : F[x] \in Int,
           NEW a \in S, NEW b \in S, a # b, \A x \in S : x # a /\ x # b => F[x] = 0
    PROVE  SumOver(F, S) = F[a] + F[b]
<1> DEFINE T == S \ {a}
           U == T \ {b}
<1>1. IsFiniteSet(T) /\ IsFiniteSet(U)
  BY FS_Subset, Zenon
<1>2. SumOver(F, S) = F[a] + SumOver(F, T)
  BY SumWithout
<1>3. SumOver(F, T) = F[b] + SumOver(F, U)
  BY <1>1, SumWithout
<1>4. SumOver(F, U) = 0
  BY <1>1, SumOfZeros
<1>5. F[a] \in Int /\ F[b] \in Int
  OBVIOUS
<1> QED
  BY <1>2, <1>3, <1>4, <1>5

-----------------------------------------------------------------------------
(***************************************************************************)
(* One hop.  What comes out of it, at the prices of the assets, is at most *)
(* what went in, but for half a unit of what comes out: what rounding      *)
(* gives.                                                                  *)
(***************************************************************************)
Usd(a, st) == A!AssetPrice(a, st)

\* What a unit is worth.
UnitOf(a, st) == (1000 \div A!Units(a)) * Usd(a, st)

\* A unit is the same part of the price of its asset, whatever its decimals.
LEMMA UnitFacts ==
    ASSUME NEW st, NEW a, Usd(a, st) \in Nat
    PROVE  /\ UnitOf(a, st) \in Nat /\ UnitOf(a, st) * A!Units(a) = 1000 * Usd(a, st)
           /\ A!Units(a) \in Nat /\ A!Units(a) > 0
<1> DEFINE u == A!Units(a)
           p == Usd(a, st)
<1>1. u \in {10, 100, 1000}
  BY UnitsArePositive
<1>2. UnitOf(a, st) = (1000 \div u) * p
  BY DEF UnitOf
<1>3. p \in Nat
  OBVIOUS
<1> HIDE DEF u, p
<1>4. CASE u = 10
  <2>1. 1000 \div u = 100
    BY <1>4
  <2> QED
    BY <1>2, <1>3, <1>4, <2>1 DEF u, p
<1>5. CASE u = 100
  <2>1. 1000 \div u = 10
    BY <1>5
  <2> QED
    BY <1>2, <1>3, <1>5, <2>1 DEF u, p
<1>6. CASE u = 1000
  <2>1. 1000 \div u = 1
    BY <1>6
  <2> QED
    BY <1>2, <1>3, <1>6, <2>1 DEF u, p
<1> QED
  BY <1>1, <1>4, <1>5, <1>6

\* What brings n of one asset for m of another at no better than their prices.
LEMMA FairIsFair ==
    ASSUME NEW st, NEW from, NEW to, Usd(from, st) \in Nat, Usd(to, st) \in Nat,
           NEW in \in Nat, NEW out \in Nat, NEW over \in Nat,
           2 * (out * A!Units(from) * Usd(to, st))
                <= 2 * (in * A!Units(to) * Usd(from, st)) + over * A!Units(from) * Usd(to, st)
    PROVE  2 * (out * UnitOf(to, st)) <= 2 * (in * UnitOf(from, st)) + over * UnitOf(to, st)
<1> DEFINE uf == A!Units(from)
           ut == A!Units(to)
           pf == Usd(from, st)
           pt == Usd(to, st)
           wf == UnitOf(from, st)
           wt == UnitOf(to, st)
<1>1. /\ wf \in Nat /\ wt \in Nat /\ wf * uf = 1000 * pf /\ wt * ut = 1000 * pt
      /\ uf \in Nat /\ uf > 0 /\ ut \in Nat /\ ut > 0 /\ pf \in Nat /\ pt \in Nat
  BY UnitFacts
<1>2. 2 * (out * uf * pt) <= 2 * (in * ut * pf) + over * uf * pt
  OBVIOUS
<1> HIDE DEF uf, ut, pf, pt, wf, wt
<1>3. uf * ut \in Nat /\ uf * ut > 0
  BY <1>1
<1> DEFINE lhs == 2 * (out * wt)
           rhs == 2 * (in * wf) + over * wt
<1>4. lhs \in Int /\ rhs \in Int
  BY <1>1
<1>5. lhs * (uf * ut) = 1000 * (2 * (out * uf * pt))
  <2>1. lhs * (uf * ut) = 2 * out * uf * (wt * ut)
    BY <1>1
  <2> QED
    BY <1>1, <2>1
<1>6. rhs * (uf * ut) = 1000 * (2 * (in * ut * pf) + over * uf * pt)
  <2>1. rhs * (uf * ut) = 2 * in * ut * (wf * uf) + over * uf * (wt * ut)
    BY <1>1
  <2> QED
    BY <1>1, <2>1
<1>7. lhs * (uf * ut) <= rhs * (uf * ut)
  <2>1. 2 * (out * uf * pt) \in Int /\ 2 * (in * ut * pf) + over * uf * pt \in Int
    BY <1>1
  <2> QED
    BY <1>2, <1>5, <1>6, <2>1
<1> HIDE DEF lhs, rhs
<1>8. lhs <= rhs
  BY <1>3, <1>4, <1>7
<1> QED
  BY <1>8 DEF lhs, rhs, wf, wt

\* Where there is a reserve every coin has a price.
LEMMA CoinsHavePrices ==
    ASSUME NEW st, A!IsMarket(st), st.hasReserve, NEW rates, rates = st.reserve.rates
    PROVE  /\ \A c \in A!Coins : /\ rates[c].spot \in Nat /\ rates[c].mint \in Nat /\ rates[c].redeem \in Nat
                                 /\ A!SpotUsd(c, rates) \in Nat
           /\ 100 * A!SpotUsd("ZSD", rates) <= rates["ZSD"].spot * A!SpotUsd("ZEPH", rates)
           /\ 100 * A!SpotUsd("ZRS", rates) <= rates["ZRS"].spot * A!SpotUsd("ZEPH", rates)
           /\ 100 * A!SpotUsd("ZYS", rates) <= rates["ZYS"].spot * A!SpotUsd("ZSD", rates)
<1>1. \A c \in A!Coins : rates[c].spot \in Nat /\ rates[c].mint \in Nat /\ rates[c].redeem \in Nat
  BY MarketGives
<1>2. \A a, b : a \in Nat /\ b \in Nat => A!Times(a, b) \in Nat /\ 100 * A!Times(a, b) <= a * b
  BY DEF A!Times, A!None
<1>3. rates.ZEPH.spot \in Nat /\ rates.ZSD.spot \in Nat /\ rates.ZRS.spot \in Nat /\ rates.ZYS.spot \in Nat
  BY <1>1 DEF A!Coins
<1>4. /\ A!SpotUsd("ZEPH", rates) = rates.ZEPH.spot
      /\ A!SpotUsd("ZSD", rates) = A!Times(rates.ZSD.spot, rates.ZEPH.spot)
      /\ A!SpotUsd("ZRS", rates) = A!Times(rates.ZRS.spot, rates.ZEPH.spot)
      /\ A!SpotUsd("ZYS", rates) = A!Times(rates.ZYS.spot, A!Times(rates.ZSD.spot, rates.ZEPH.spot))
  BY DEF A!SpotUsd
<1>5. /\ A!SpotUsd("ZEPH", rates) \in Nat /\ A!SpotUsd("ZSD", rates) \in Nat
      /\ A!SpotUsd("ZRS", rates) \in Nat
  BY <1>2, <1>3, <1>4
<1>6. A!SpotUsd("ZYS", rates) \in Nat
  BY <1>2, <1>3, <1>4, <1>5
<1>7. \A c \in A!Coins : A!SpotUsd(c, rates) \in Nat
  BY <1>5, <1>6 DEF A!Coins
<1> QED
  BY <1>1, <1>2, <1>3, <1>4, <1>5, <1>6, <1>7

\* A price is a number or none, and what it is of a coin.
LEMMA PriceIs ==
    ASSUME NEW st, A!IsMarket(st), st.hasReserve, NEW a
    PROVE  /\ Usd(a, st) # A!None => Usd(a, st) \in Nat
           /\ a[1] \in A!Coins => Usd(a, st) = A!SpotUsd(a[1], st.reserve.rates) /\ Usd(a, st) \in Nat
           /\ a[1] = "USDT" => Usd(a, st) = 100
<1>1. CASE a[1] = "USDT"
  <2>1. Usd(a, st) = 100 /\ a[1] \notin A!Coins
    BY <1>1 DEF Usd, A!AssetPrice, A!Coins
  <2> QED
    BY <2>1
<1>2. CASE a[1] # "USDT" /\ a[1] \in A!Coins
  <2>1. Usd(a, st) = A!SpotUsd(a[1], st.reserve.rates)
    BY <1>2 DEF Usd, A!AssetPrice
  <2>2. A!SpotUsd(a[1], st.reserve.rates) \in Nat
    BY <1>2, CoinsHavePrices
  <2> QED
    BY <1>2, <2>1, <2>2
<1>3. CASE a[1] # "USDT" /\ a[1] \notin A!Coins
  BY <1>3 DEF Usd, A!AssetPrice
<1> QED
  BY <1>1, <1>2, <1>3

\* A quote that brings no more than it takes, but for half a unit.
Fair(h, in, out, st) ==
    /\ out \in Int
    /\ out > 0 => /\ Usd(h.from, st) \in Nat /\ Usd(h.to, st) \in Nat
                  /\ 2 * (out * UnitOf(h.to, st)) <= 2 * (in * UnitOf(h.from, st)) + UnitOf(h.to, st)

\* Half a unit more than at no better than the prices.
LEMMA FairOver ==
    ASSUME NEW st, NEW h, NEW in \in Nat, NEW out \in Int, NEW over \in {0, 1},
           Usd(h.from, st) \in Nat, Usd(h.to, st) \in Nat,
           out > 0 => 2 * (out * A!Units(h.from) * Usd(h.to, st))
                        <= 2 * (in * A!Units(h.to) * Usd(h.from, st)) + over * A!Units(h.from) * Usd(h.to, st)
    PROVE  Fair(h, in, out, st)
<1> SUFFICES ASSUME out > 0
             PROVE  2 * (out * UnitOf(h.to, st)) <= 2 * (in * UnitOf(h.from, st)) + UnitOf(h.to, st)
  BY DEF Fair
<1>1. out \in Nat /\ over \in Nat
  OBVIOUS
<1>2. 2 * (out * UnitOf(h.to, st)) <= 2 * (in * UnitOf(h.from, st)) + over * UnitOf(h.to, st)
  BY <1>1, FairIsFair
<1>3. UnitOf(h.to, st) \in Nat /\ UnitOf(h.from, st) \in Nat
  BY UnitFacts
<1>4. over * UnitOf(h.to, st) <= UnitOf(h.to, st)
  BY <1>3
<1> QED
  BY <1>1, <1>2, <1>3, <1>4

\* Between places of one coin.
LEMMA MovedIsFair ==
    ASSUME NEW st, NEW h, NEW in \in Nat, NEW out \in Int,
           Usd(h.from, st) \in Nat, Usd(h.to, st) = Usd(h.from, st),
           out > 0 => out * A!Units(h.from) <= in * A!Units(h.to)
    PROVE  Fair(h, in, out, st)
<1> DEFINE uf == A!Units(h.from)
           ut == A!Units(h.to)
           p == Usd(h.from, st)
<1>1. uf \in Nat /\ ut \in Nat /\ p \in Nat /\ 0 \in {0, 1}
  BY UnitFacts
<1>2. out > 0 => out * uf <= in * ut
  OBVIOUS
<1>3. out > 0 => 2 * (out * uf * p) <= 2 * (in * ut * p) + 0 * uf * p
  <2> HIDE DEF uf, ut, p
  <2> SUFFICES ASSUME out > 0 PROVE 2 * (out * uf * p) <= 2 * (in * ut * p) + 0 * uf * p
    OBVIOUS
  <2>1. out * uf \in Int /\ in * ut \in Int
    BY <1>1
  <2>2. (out * uf) * p <= (in * ut) * p
    BY <1>1, <1>2, <2>1, Grows
  <2>3. 0 * uf * p = 0
    BY <1>1
  <2> QED
    BY <1>1, <2>1, <2>2, <2>3
<1>4. Usd(h.to, st) \in Nat
  OBVIOUS
<1> QED
  BY <1>1, <1>3, <1>4, FairOver, Zenon

\* A hop and what it was quoted for.
Quoted(h, in, st) == A!InvokeQuoter(A!Request(h.op, h.from, h.to, in, 0), st).amountOut

\* Wrapping and unwrapping pay the same coin over, less a fee (quoteBridge).
LEMMA BridgeIsFair ==
    ASSUME NEW st, A!IsMarket(st), st.hasReserve, NEW h, h.op \in {"wrap", "unwrap"},
           A!ContextAvailable(h.op, h.from, h.to, st), NEW in \in Nat, in > 0
    PROVE  Fair(h, in, Quoted(h, in, st), st)
<1> DEFINE rq == A!Request(h.op, h.from, h.to, in, 0)
           fee == IF rq.op = "wrap" THEN A!Scaled(st.wrapFee, rq.from, rq.to) ELSE st.unwrapFee
           gross == A!Scaled(in, rq.from, rq.to)
           net == A!Larger(0, gross - fee)
<1>1. /\ rq.op = h.op /\ rq.from = h.from /\ rq.to = h.to /\ rq.amountIn = in
  BY DEF A!Request
<1>2. Quoted(h, in, st) = net
  BY <1>1 DEF Quoted, A!InvokeQuoter, A!QuoteBridgeOperation, A!Quote, A!Request
<1>3. /\ h.from[1] \in A!Coins /\ h.to[1] = h.from[1] /\ h.from[1] # "USDT"
      /\ A!Units(h.from) = 1000 /\ A!Units(h.to) = 1000
  <2>1. PICK c \in A!Coins : {h.from, h.to} = {A!Asset(c, "e"), A!Asset(c, "n")} /\ h.from # h.to
    <3>1. CASE h.op = "wrap"
      <4>1. h.from \in A!Native /\ h.to = A!Asset(h.from[1], "e")
        BY <3>1 DEF A!ContextAvailable, A!WrapEnabled
      <4>2. PICK c \in A!Coins : h.from = A!Asset(c, "n")
        BY <4>1 DEF A!Native
      <4>3. h.from[1] = c /\ A!Asset(c, "n")[2] = "n" /\ A!Asset(c, "e")[2] = "e"
        BY <4>2 DEF A!Asset
      <4>4. h.from = A!Asset(c, "n") /\ h.to = A!Asset(c, "e") /\ h.from # h.to
        BY <4>1, <4>2, <4>3
      <4> QED
        BY <4>4
    <3>2. CASE h.op = "unwrap"
      <4>1. h.from \in A!Wrapped /\ h.to = A!Asset(h.from[1], "n")
        BY <3>2 DEF A!ContextAvailable, A!UnwrapEnabled
      <4>2. PICK c \in A!Coins : h.from = A!Asset(c, "e")
        BY <4>1 DEF A!Wrapped
      <4>3. h.from[1] = c /\ A!Asset(c, "n")[2] = "n" /\ A!Asset(c, "e")[2] = "e"
        BY <4>2 DEF A!Asset
      <4>4. h.from = A!Asset(c, "e") /\ h.to = A!Asset(c, "n") /\ h.from # h.to
        BY <4>1, <4>2, <4>3
      <4> QED
        BY <4>4
    <3> QED
      BY <3>1, <3>2
  <2>2. c # "USDT" /\ A!Asset(c, "e")[1] = c /\ A!Asset(c, "n")[1] = c
        /\ A!Asset(c, "e") # A!Asset("ZEPH", "x") /\ A!Asset(c, "n") # A!Asset("ZEPH", "x")
    <3>1. c # "USDT"
      BY DEF A!Coins
    <3>2. /\ A!Asset(c, "e")[1] = c /\ A!Asset(c, "n")[1] = c /\ A!Asset(c, "e")[2] = "e"
          /\ A!Asset(c, "n")[2] = "n" /\ A!Asset("ZEPH", "x")[2] = "x"
      BY DEF A!Asset
    <3>3. "e" # "x" /\ "n" # "x"
      OBVIOUS
    <3> QED
      BY <3>1, <3>2, <3>3, Zenon
  <2>3. A!Units(A!Asset(c, "e")) = 1000 /\ A!Units(A!Asset(c, "n")) = 1000
    BY <2>2 DEF A!Units
  <2> QED
    BY <2>1, <2>2, <2>3
<1>4. gross = in /\ fee \in Nat
  <2>1. \A n \in Nat : (n * 1000) \div 1000 = n
    OBVIOUS
  <2>2. st.wrapFee \in Nat /\ st.unwrapFee \in Nat
    BY MarketGives
  <2> QED
    BY <1>1, <1>3, <2>1, <2>2 DEF A!Scaled
<1> HIDE DEF rq, fee, gross
<1>5. net \in Int /\ net <= in
  BY <1>4 DEF A!Larger
<1> HIDE DEF net
<1>6. net > 0 => net * A!Units(h.from) <= in * A!Units(h.to)
  BY <1>3, <1>5
<1>7. Usd(h.from, st) \in Nat /\ Usd(h.to, st) = Usd(h.from, st)
  BY <1>3, PriceIs
<1> QED
  BY <1>2, <1>5, <1>6, <1>7, MovedIsFair

\* A deposit to the exchange arrives whole.
LEMMA DepositIsFair ==
    ASSUME NEW st, A!IsMarket(st), st.hasReserve, NEW h, h.op = "deposit",
           h.to[1] = h.from[1], h.from[1] \in A!Coins \cup {"USDT"}, NEW in \in Nat, in > 0
    PROVE  Fair(h, in, Quoted(h, in, st), st)
<1> DEFINE out == A!Scaled(in, h.from, h.to)
<1>1. Quoted(h, in, st) = out
  BY DEF Quoted, A!InvokeQuoter, A!QuoteDeposit, A!Quote, A!Request
<1>2. Usd(h.from, st) \in Nat /\ Usd(h.to, st) = Usd(h.from, st)
  BY PriceIs
<1>3. out \in Int /\ out * A!Units(h.from) <= in * A!Units(h.to)
  <2> DEFINE uf == A!Units(h.from)
             n == in * A!Units(h.to)
  <2>1. uf \in Nat /\ uf > 0 /\ n \in Nat /\ out = n \div uf
    BY <1>2, UnitFacts DEF A!Scaled
  <2> HIDE DEF uf, n, out
  <2>2. n \div uf \in Int /\ uf * (n \div uf) <= n
    BY <2>1
  <2> QED
    BY <2>1, <2>2 DEF uf, n
<1> QED
  BY <1>1, <1>2, <1>3, MovedIsFair

\* A withdrawal arrives less its fee.
LEMMA WithdrawalIsFair ==
    ASSUME NEW st, A!IsMarket(st), st.hasReserve, NEW h, h.op = "withdraw",
           h.to[1] = h.from[1], h.from[1] \in {"ZEPH", "USDT"}, st.withdrawFee[h.from[1]] \in Nat,
           A!Units(h.from) <= A!Units(h.to), NEW in \in Nat, in > 0
    PROVE  Fair(h, in, Quoted(h, in, st), st)
<1> DEFINE fee == st.withdrawFee[h.from[1]]
           net == A!Larger(0, in - fee)
<1>1. Quoted(h, in, st) = net
  BY DEF Quoted, A!InvokeQuoter, A!QuoteWithdraw, A!Quote, A!Request
<1>2. Usd(h.from, st) \in Nat /\ Usd(h.to, st) = Usd(h.from, st)
  BY PriceIs DEF A!Coins
<1>3. net \in Int /\ (net > 0 => net * A!Units(h.from) <= in * A!Units(h.to))
  <2> DEFINE uf == A!Units(h.from)
             ut == A!Units(h.to)
  <2>1. uf \in Nat /\ ut \in Nat /\ uf <= ut
    BY <1>2, UnitFacts
  <2> HIDE DEF uf, ut
  <2>2. net \in Int /\ net <= in
    BY DEF A!Larger
  <2> HIDE DEF net
  <2>3. ASSUME net > 0 PROVE net * uf <= in * ut
    <3>1. net * uf <= in * uf
      BY <2>1, <2>2, <2>3
    <3>2. in * uf <= in * ut
      BY <2>1
    <3> QED
      BY <2>1, <2>2, <3>1, <3>2
  <2> QED
    BY <2>2, <2>3 DEF uf, ut
<1> QED
  BY <1>1, <1>2, <1>3, MovedIsFair

\* A fee leaves no more than there was.
LEMMA FeeLeavesLess ==
    ASSUME NEW gross \in Nat, NEW bps \in Nat, bps <= 10000
    PROVE  A!AfterFee(gross, bps) \in Nat /\ A!AfterFee(gross, bps) <= gross
<1> DEFINE n == gross * (10000 - bps)
           q == n \div 10000
<1>1. n \in Nat /\ n <= gross * 10000
  OBVIOUS
<1>2. A!AfterFee(gross, bps) = q
  BY DEF A!AfterFee
<1> HIDE DEF n
<1>3. q \in Nat /\ 10000 * q <= n
  BY <1>1
<1> HIDE DEF q
<1> QED
  BY <1>1, <1>2, <1>3

\* Minting is paid at the dearer price of a coin and redeeming at the cheaper, less a fee
\* (pathing/quoting/native.ts).
LEMMA ConversionIsFair ==
    ASSUME NEW st, A!IsMarket(st), st.hasReserve, PricesAgree(st), NEW h, h.op \in {"nativeMint", "nativeRedeem"},
           A!ContextAvailable(h.op, h.from, h.to, st), NEW in \in Nat, in > 0
    PROVE  Fair(h, in, Quoted(h, in, st), st)
<1> DEFINE rq == A!Request(h.op, h.from, h.to, in, 0)
           rates == st.reserve.rates
           rate == A!NativeRate(rq, st)
           bps == A!NativeFee(A!RateCoin(rq))
           gross == A!Converts(rq, st)
           net == A!AfterFee(gross, bps)
           P(c) == A!SpotUsd(c, rates)
           c1 == h.from[1]
           c2 == h.to[1]
<1>1. rq.op = h.op /\ rq.from = h.from /\ rq.to = h.to /\ rq.amountIn = in /\ rq.amountOut = 0
  BY DEF A!Request
<1>2. A!NativePair(h.op, h.from, h.to) /\ rate # 0
  BY DEF A!ContextAvailable, A!NativeRate, A!RateCoin, A!Request
<1>3. Quoted(h, in, st) \in {net, 0}
  <2>1. Quoted(h, in, st) = A!QuoteNativeOperation(rq, A!RuntimeEnabled(rq.op, rq.from, rq.to, st), st).amountOut
    BY <1>1 DEF Quoted, A!InvokeQuoter
  <2> QED
    BY <1>1, <1>2, <2>1 DEF A!QuoteNativeOperation, A!Quote, A!Nothing
<1>4. /\ c1 \in A!Coins /\ c2 \in A!Coins /\ A!Units(h.from) = 1000 /\ A!Units(h.to) = 1000
  <2>1. c1 \in A!Coins /\ c2 \in A!Coins
    BY <1>2 DEF A!NativePair, A!Minted, A!Redeemed, A!Coins
  <2>2. h.from[2] = "n" /\ h.to[2] = "n"
    BY <1>2 DEF A!NativePair
  <2>3. A!Asset("ZEPH", "x")[2] = "x" /\ "n" # "x" /\ "USDT" \notin A!Coins
    BY DEF A!Asset, A!Coins
  <2>4. A!Units(h.from) = 1000
    BY <2>1, <2>2, <2>3 DEF A!Units
  <2>5. A!Units(h.to) = 1000
    BY <2>1, <2>2, <2>3 DEF A!Units
  <2> QED
    BY <2>1, <2>4, <2>5
<1>5. Usd(h.from, st) = P(c1) /\ Usd(h.to, st) = P(c2) /\ P(c1) \in Nat /\ P(c2) \in Nat
  BY <1>4, PriceIs, CoinsHavePrices
<1>6. bps \in Nat /\ bps <= 10000
  BY DEF A!NativeFee
<1>7. /\ \A c \in A!Coins : /\ rates[c].spot \in Nat /\ rates[c].mint \in Nat /\ rates[c].redeem \in Nat
                            /\ rates[c].redeem <= rates[c].spot /\ rates[c].spot <= rates[c].mint
      /\ \A pair \in A!Redeemed : rates[pair[1]].spot * P(pair[2]) <= 100 * P(pair[1])
  <2>1. \A c \in A!Coins : rates[c].spot \in Nat /\ rates[c].mint \in Nat /\ rates[c].redeem \in Nat
    BY CoinsHavePrices
  <2>2. /\ \A c \in A!Coins : rates[c].redeem <= rates[c].spot /\ rates[c].spot <= rates[c].mint
        /\ \A pair \in A!Redeemed : rates[pair[1]].spot * P(pair[2]) <= 100 * P(pair[1])
    BY Zenon DEF PricesAgree
  <2> QED
    BY <2>1, <2>2, Zenon
<1>8. gross \in Nat /\ gross * P(c2) <= in * P(c1)
  <2>1. CASE h.op = "nativeMint"
    <3>1. rate = rates[c2].mint /\ gross = (in * 100) \div rate
      BY <1>1, <2>1 DEF A!NativeRate, A!RateCoin, A!Converts
    <3>2. rate \in Nat /\ rate > 0 /\ rates[c2].spot \in Nat /\ rates[c2].spot <= rate
      BY <1>2, <1>4, <1>7, <3>1
    <3>3. 100 * P(c2) <= rates[c2].spot * P(c1)
      <4>1. <<c1, c2>> \in {<<"ZEPH", "ZSD">>, <<"ZEPH", "ZRS">>, <<"ZSD", "ZYS">>}
        BY <1>2, <2>1 DEF A!NativePair, A!Minted
      <4>2. /\ 100 * P("ZSD") <= rates["ZSD"].spot * P("ZEPH") /\ 100 * P("ZRS") <= rates["ZRS"].spot * P("ZEPH")
            /\ 100 * P("ZYS") <= rates["ZYS"].spot * P("ZSD")
        BY CoinsHavePrices
      <4>3. \/ c1 = "ZEPH" /\ c2 = "ZSD"
            \/ c1 = "ZEPH" /\ c2 = "ZRS"
            \/ c1 = "ZSD" /\ c2 = "ZYS"
        BY <4>1
      <4> HIDE DEF P, c1, c2
      <4> QED
        BY <4>2, <4>3
    <3> DEFINE p1 == P(c1)
               p2 == P(c2)
               spot == rates[c2].spot
    <3>4. p1 \in Nat /\ p2 \in Nat /\ spot \in Nat /\ 100 * p2 <= spot * p1 /\ spot <= rate
      BY <1>5, <3>2, <3>3
    <3> HIDE DEF P, rate, gross, p1, p2, spot
    <3>5. gross \in Nat /\ rate * gross <= in * 100
      BY <3>1, <3>2
    <3>6. 100 * p2 <= rate * p1
      <4>1. spot * p1 <= rate * p1
        BY <3>2, <3>4
      <4> QED
        BY <3>2, <3>4, <4>1
    <3>7. gross * (100 * p2) <= gross * (rate * p1)
      BY <3>2, <3>4, <3>5, <3>6
    <3>8. (rate * gross) * p1 <= (in * 100) * p1
      BY <3>2, <3>4, <3>5
    <3>9. gross * p2 <= in * p1
      BY <3>2, <3>4, <3>5, <3>7, <3>8
    <3> QED
      BY <3>5, <3>9, Zenon DEF p1, p2
  <2>2. CASE h.op = "nativeRedeem"
    <3>1. rate = rates[c1].redeem /\ gross = (in * rate) \div 100
      BY <1>1, <2>2, Zenon DEF A!NativeRate, A!RateCoin, A!Converts
    <3>2. rate \in Nat /\ rates[c1].spot \in Nat /\ rate <= rates[c1].spot
      BY <1>4, <1>7, <3>1
    <3>3. rates[c1].spot * P(c2) <= 100 * P(c1)
      <4>1. <<c1, c2>> \in A!Redeemed
        BY <1>2, <2>2 DEF A!NativePair
      <4> QED
        BY <1>7, <4>1
    <3> DEFINE p1 == P(c1)
               p2 == P(c2)
               spot == rates[c1].spot
    <3>4. p1 \in Nat /\ p2 \in Nat /\ spot \in Nat /\ spot * p2 <= 100 * p1 /\ rate <= spot
      BY <1>5, <3>2, <3>3
    <3> HIDE DEF P, rate, gross, p1, p2, spot
    <3>5. gross \in Nat /\ 100 * gross <= in * rate
      <4> DEFINE n == in * rate
      <4>1. n \in Nat /\ gross = n \div 100
        BY <3>1, <3>2
      <4> HIDE DEF n
      <4>2. gross \in Nat /\ 100 * gross <= n
        BY <4>1
      <4> QED
        BY <4>2 DEF n
    <3>6. rate * p2 <= 100 * p1
      <4>1. rate * p2 <= spot * p2
        BY <3>2, <3>4
      <4> QED
        BY <3>2, <3>4, <4>1
    <3>7. (100 * gross) * p2 <= (in * rate) * p2
      BY <3>2, <3>4, <3>5
    <3>8. in * (rate * p2) <= in * (100 * p1)
      BY <3>2, <3>4, <3>6
    <3>9. gross * p2 <= in * p1
      BY <3>2, <3>4, <3>5, <3>7, <3>8
    <3> QED
      BY <3>5, <3>9, Zenon DEF p1, p2
  <2> QED
    BY <2>1, <2>2
<1>9. net \in Nat /\ net <= gross
  BY <1>6, <1>8, FeeLeavesLess
<1> DEFINE out == Quoted(h, in, st)
           p1 == P(c1)
           p2 == P(c2)
<1>10. out \in Nat /\ out <= gross
  BY <1>3, <1>8, <1>9
<1>11. out * p2 <= in * p1
  <2>1. p1 \in Nat /\ p2 \in Nat /\ gross \in Nat /\ gross * p2 <= in * p1
    BY <1>5, <1>8
  <2> HIDE DEF out, gross, p1, p2, net
  <2>2. out * p2 <= gross * p2
    BY <1>10, <2>1
  <2> QED
    BY <1>10, <2>1, <2>2
<1>12. 2 * (out * A!Units(h.from) * Usd(h.to, st))
         <= 2 * (in * A!Units(h.to) * Usd(h.from, st)) + 0 * A!Units(h.from) * Usd(h.to, st)
  <2>1. p1 \in Nat /\ p2 \in Nat /\ Usd(h.from, st) = p1 /\ Usd(h.to, st) = p2
    BY <1>5
  <2> HIDE DEF out, gross, p1, p2, net
  <2>2. 2 * (out * 1000 * p2) <= 2 * (in * 1000 * p1) + 0 * 1000 * p2
    BY <1>10, <1>11, <2>1
  <2> QED
    BY <1>4, <2>1, <2>2
<1> HIDE DEF out, gross, p1, p2, net, P
<1>13. 0 \in {0, 1} /\ out \in Int /\ Usd(h.from, st) \in Nat /\ Usd(h.to, st) \in Nat
  BY <1>5, <1>10
<1>14. Fair(h, in, out, st)
  BY <1>12, <1>13, FairOver, Zenon
<1> QED
  BY <1>14 DEF out

-----------------------------------------------------------------------------
(* A pool *)

\* What the pool's fee takes.
LEMMA FeeIsAPart ==
    ASSUME NEW p, p.fee \in Nat, p.fee < A!WholeFee, NEW in \in Nat
    PROVE  A!FeeOn(p, in) \in Nat /\ A!FeeOn(p, in) <= in
<1> DEFINE bps == A!PoolFeeBps(p)
           n == in * bps
           fee == n \div 10000
<1>1. bps \in Nat /\ bps <= 10000
  <2>1. \A f \in Nat : f < 1000000 => f \div 100 \in Nat /\ f \div 100 <= 10000
    OBVIOUS
  <2> QED
    BY <2>1 DEF A!PoolFeeBps, A!WholeFee
<1>2. A!FeeOn(p, in) = fee
  BY DEF A!FeeOn
<1> HIDE DEF bps
<1>3. n \in Nat /\ n <= in * 10000
  BY <1>1
<1> HIDE DEF n
<1>4. fee \in Nat /\ 10000 * fee <= n
  BY <1>3
<1> HIDE DEF fee
<1> QED
  BY <1>2, <1>3, <1>4

\* By the reserves of a pool that holds no more of the one asset than of the other.
LEMMA ReservesAreFair ==
    ASSUME NEW n \in Nat, NEW in \in Nat, n <= in, NEW hf \in Nat, hf > 0, NEW ht \in Nat,
           NEW uf \in Nat, uf > 0, NEW ut \in Nat, NEW pf \in Nat, NEW pt \in Nat, ht * pt <= hf * pf,
           NEW out, out = (n * ht * ut) \div (hf * uf + n)
    PROVE  out \in Nat /\ out * uf * pt <= in * ut * pf
<1> DEFINE d == hf * uf + n
           t == n * ht * ut
<1>1. d \in Nat /\ d > 0 /\ t \in Nat
  <2>1. hf * uf \in Nat /\ hf * uf > 0
    OBVIOUS
  <2> QED
    BY <2>1
<1>2. out = t \div d
  OBVIOUS
<1> HIDE DEF d, t
<1>3. out \in Nat /\ d * out <= t
  <2>1. t \div d \in Nat /\ d * (t \div d) <= t
    BY <1>1
  <2> QED
    BY <1>2, <2>1
<1>4. (hf * uf) * out <= n * ht * ut
  <2>1. (hf * uf) * out <= d * out
    <3>1. hf * uf \in Nat /\ hf * uf <= d
      BY DEF d
    <3> QED
      BY <1>1, <1>3, <3>1
  <2>2. t = n * ht * ut /\ hf * uf \in Nat /\ n * ht * ut \in Nat
    BY DEF t
  <2> DEFINE x == (hf * uf) * out
             y == d * out
             z == n * ht * ut
  <2>3. x \in Int /\ y \in Int /\ z \in Int /\ x <= y /\ y <= z
    BY <1>1, <1>3, <2>1, <2>2
  <2> HIDE DEF x, y, z
  <2>4. x <= z
    BY <2>3
  <2> QED
    BY <2>4 DEF x, z
<1>5. ((hf * uf) * out) * pt <= (n * ht * ut) * pt
  <2>1. (hf * uf) * out \in Int /\ n * ht * ut \in Int
    BY <1>3
  <2> QED
    BY <1>4, <2>1, Grows
<1>6. (n * ut) * (ht * pt) <= (n * ut) * (hf * pf)
  <2>1. n * ut \in Nat /\ ht * pt \in Int /\ hf * pf \in Int
    OBVIOUS
  <2>2. (ht * pt) * (n * ut) <= (hf * pf) * (n * ut)
    BY <2>1, Grows
  <2> QED
    BY <2>1, <2>2
<1> DEFINE lhs == out * uf * pt
           rhs == n * ut * pf
<1>7. lhs \in Int /\ rhs \in Int /\ hf * lhs <= hf * rhs
  <2>1. hf * lhs = ((hf * uf) * out) * pt /\ hf * rhs = (n * ut) * (hf * pf)
    <3>1. hf * (out * uf * pt) = ((hf * uf) * out) * pt
      BY <1>3
    <3>2. hf * (n * ut * pf) = (n * ut) * (hf * pf)
      OBVIOUS
    <3> QED
      BY <3>1, <3>2
  <2>2. (n * ht * ut) * pt = (n * ut) * (ht * pt)
    OBVIOUS
  <2>3. lhs \in Int /\ rhs \in Int
    BY <1>3
  <2> HIDE DEF lhs, rhs
  <2> QED
    BY <1>3, <1>5, <1>6, <2>1, <2>2, <2>3
<1> HIDE DEF lhs, rhs
<1>8. lhs <= rhs
  BY <1>7
<1>9. rhs <= in * ut * pf
  <2>1. n * (ut * pf) <= in * (ut * pf)
    OBVIOUS
  <2> QED
    BY <2>1 DEF rhs
<1> QED
  BY <1>3, <1>7, <1>8, <1>9 DEF lhs

\* By the price of a pool that gives no more than the prices say, rounded.
LEMMA PriceIsFair ==
    ASSUME NEW n \in Nat, NEW in \in Nat, n <= in, NEW q \in Nat,
           NEW uf \in Nat, uf > 0, NEW ut \in Nat, NEW pf \in Nat, NEW pt \in Nat, q * pt <= 100 * pf,
           NEW out, out = A!Rounded(n * q * ut, 100 * uf)
    PROVE  out \in Nat /\ 2 * (out * uf * pt) <= 2 * (in * ut * pf) + 1 * uf * pt
<1> DEFINE t == 2 * (n * q * ut) + 100 * uf
           d == 2 * (100 * uf)
<1>1. d \in Nat /\ d > 0 /\ t \in Nat /\ out = t \div d
  BY DEF A!Rounded
<1> HIDE DEF t, d
<1>2. out \in Nat /\ d * out <= t
  <2>1. t \div d \in Nat /\ d * (t \div d) <= t
    BY <1>1
  <2> QED
    BY <1>1, <2>1
<1>3. (d * out) * pt <= t * pt
  <2>1. d * out \in Int /\ t \in Int
    BY <1>1, <1>2
  <2> QED
    BY <1>2, <2>1, Grows
<1>4. (n * ut) * (q * pt) <= (n * ut) * (100 * pf)
  <2>1. n * ut \in Nat /\ q * pt \in Int /\ 100 * pf \in Int
    OBVIOUS
  <2>2. (q * pt) * (n * ut) <= (100 * pf) * (n * ut)
    BY <2>1, Grows
  <2> QED
    BY <2>1, <2>2
<1>5. (n * ut) * pf <= (in * ut) * pf
  <2>1. n * (ut * pf) <= in * (ut * pf)
    OBVIOUS
  <2> QED
    BY <2>1
<1>6. (d * out) * pt = 100 * (2 * (out * uf * pt))
  BY <1>2 DEF d
<1>7. t * pt = 2 * ((n * ut) * (q * pt)) + 100 * (uf * pt)
  BY DEF t
<1> DEFINE x == out * uf * pt
           y == (n * ut) * pf
           z == (in * ut) * pf
           v == uf * pt
           g == (n * ut) * (q * pt)
<1>8. x \in Int /\ y \in Int /\ z \in Int /\ v \in Int /\ g \in Int /\ (n * ut) * (100 * pf) = 100 * y
  BY <1>2
<1>9. 100 * (2 * x) <= 2 * g + 100 * v /\ g <= 100 * y /\ y <= z
  BY <1>3, <1>4, <1>5, <1>6, <1>7, <1>8
<1>10. 1 * uf * pt = v
  OBVIOUS
<1> HIDE DEF x, y, z, v, g
<1>11. 2 * x <= 2 * z + v
  BY <1>8, <1>9
<1> QED
  BY <1>2, <1>10, <1>11 DEF x, z

\* A swap gives no more than the price of its pool, or what the pool holds (pathing/quoting/swap.ts).
LEMMA SwapIsFair ==
    ASSUME NEW st, A!IsMarket(st), st.hasReserve, PricesAgree(st), NEW h, h.op = "swapEVM", NEW in \in Nat, in > 0
    PROVE  Fair(h, in, Quoted(h, in, st), st)
<1> DEFINE from == h.from
           to == h.to
           rq == A!Request(h.op, from, to, in, 0)
           pool == CHOOSE p \in A!SwapContext(from, to, st) : A!PriceFrom(p, from) > 0
           out == A!OutExactIn(pool, from, to, in)
<1>1. rq.op = "swapEVM" /\ rq.from = from /\ rq.to = to /\ rq.amountIn = in /\ rq.amountOut = 0
  BY DEF A!Request
<1>2. Quoted(h, in, st) = A!QuoteSwapState(rq, st).amountOut
  BY <1>1 DEF Quoted, A!InvokeQuoter
<1>3. CASE ~A!SwapEnabled(from, to, st)
  <2>1. Quoted(h, in, st) = A!None
    BY <1>1, <1>2, <1>3 DEF A!QuoteSwapState, A!NoQuote, A!Quote
  <2> QED
    BY <2>1 DEF Fair, A!None
<1>4. CASE A!SwapEnabled(from, to, st)
  <2>1. pool \in A!SwapContext(from, to, st) /\ A!PriceFrom(pool, from) > 0
    BY <1>4 DEF A!SwapEnabled
  <2>2. Quoted(h, in, st) \in {out, 0}
    BY <1>1, <1>2, <1>4 DEF A!QuoteSwapState, A!Quote, A!Nothing
  <2> HIDE DEF pool
  <2>3. /\ pool \in st.pools /\ {pool.base, pool.quote} = {from, to}
        /\ pool.totalBase # 0 /\ pool.totalQuote # 0
    BY <2>1 DEF A!SwapContext
  <2>4. /\ <<from, to>> \in {<<pool.base, pool.quote>>, <<pool.quote, pool.base>>}
        /\ <<to, from>> \in {<<pool.base, pool.quote>>, <<pool.quote, pool.base>>}
    <3>1. (from = pool.base /\ to = pool.quote) \/ (from = pool.quote /\ to = pool.base)
      BY <2>3
    <3> QED
      BY <3>1
  <2> DEFINE Fits(d) ==
        /\ Usd(d[1], st) # A!None
        /\ A!PriceFrom(pool, d[1]) * Usd(d[2], st) <= 100 * Usd(d[1], st)
        /\ A!ReservesKnown(pool) => A!HeldOf(pool, d[2]) * Usd(d[2], st) <= A!HeldOf(pool, d[1]) * Usd(d[1], st)
  <2>5. \A d \in {<<pool.base, pool.quote>>, <<pool.quote, pool.base>>} : Fits(d)
    <3>1. \A p \in st.pools : \A d \in {<<p.base, p.quote>>, <<p.quote, p.base>>} :
            /\ Usd(d[1], st) # A!None
            /\ A!PriceFrom(p, d[1]) * Usd(d[2], st) <= 100 * Usd(d[1], st)
            /\ A!ReservesKnown(p) => A!HeldOf(p, d[2]) * Usd(d[2], st) <= A!HeldOf(p, d[1]) * Usd(d[1], st)
      BY Zenon DEF PricesAgree, Usd
    <3> HIDE DEF Fits
    <3>2. \A d \in {<<pool.base, pool.quote>>, <<pool.quote, pool.base>>} :
            /\ Usd(d[1], st) # A!None
            /\ A!PriceFrom(pool, d[1]) * Usd(d[2], st) <= 100 * Usd(d[1], st)
            /\ A!ReservesKnown(pool) => A!HeldOf(pool, d[2]) * Usd(d[2], st) <= A!HeldOf(pool, d[1]) * Usd(d[1], st)
      BY <2>3, <3>1, Zenon
    <3> QED
      BY <3>2, Zenon DEF Fits
  <2> DEFINE pf == Usd(from, st)
             pt == Usd(to, st)
             hf == A!HeldOf(pool, from)
             ht == A!HeldOf(pool, to)
             q == A!PriceFrom(pool, from)
             uf == A!Units(from)
             ut == A!Units(to)
             n == in - A!FeeOn(pool, in)
  <2>6. /\ pf # A!None /\ pt # A!None /\ q * pt <= 100 * pf
        /\ A!ReservesKnown(pool) => ht * pt <= hf * pf
    <3>1. Fits(<<from, to>>) /\ Fits(<<to, from>>)
      BY <2>4, <2>5, Zenon
    <3>2. <<from, to>>[1] = from /\ <<from, to>>[2] = to /\ <<to, from>>[1] = to
      OBVIOUS
    <3> QED
      BY <3>1, <3>2
  <2>7. pf \in Nat /\ pt \in Nat
    BY <2>6, PriceIs
  <2>8. /\ pool.fee \in Nat /\ pool.fee < A!WholeFee /\ pool.price \in Int /\ pool.inverse \in Int
        /\ pool.totalBase \in Int /\ pool.totalBase >= A!None
        /\ pool.totalQuote \in Int /\ pool.totalQuote >= A!None
    BY <2>3, MarketGives
  <2>9. n \in Nat /\ n <= in
    BY <2>8, FeeIsAPart
  <2>10. q \in Nat
    BY <2>1, <2>8 DEF A!PriceFrom
  <2>11. A!ReservesKnown(pool) => hf \in Nat /\ hf > 0 /\ ht \in Nat
    BY <2>3, <2>8 DEF A!ReservesKnown, A!HeldOf, A!None
  <2>12. uf \in Nat /\ uf > 0 /\ ut \in Nat
    BY <2>7, UnitFacts
  <2> DEFINE byReserves == A!OutByReserves(pool, from, to, in)
             byPrice == A!OutByPrice(pool, from, to, in)
  <2>13. byPrice \in Nat /\ 2 * (byPrice * uf * pt) <= 2 * (in * ut * pf) + 1 * uf * pt
    <3>1. byPrice = A!Rounded(n * q * ut, 100 * uf)
      BY DEF A!OutByPrice
    <3> HIDE DEF byPrice, n, q, uf, ut, pf, pt
    <3> QED
      BY <2>6, <2>7, <2>9, <2>10, <2>12, <3>1, PriceIsFair
  <2>14. ASSUME A!ReservesKnown(pool)
         PROVE  byReserves \in Nat /\ 2 * (byReserves * uf * pt) <= 2 * (in * ut * pf) + 1 * uf * pt
    <3>1. byReserves = (n * ht * ut) \div (hf * uf + n)
      BY DEF A!OutByReserves
    <3> HIDE DEF byReserves, n, ht, hf, uf, ut, pf, pt
    <3>2. byReserves \in Nat /\ byReserves * uf * pt <= in * ut * pf
      BY <2>6, <2>7, <2>9, <2>11, <2>12, <2>14, <3>1, ReservesAreFair
    <3>3. byReserves * uf * pt \in Int /\ in * ut * pf \in Int /\ uf * pt \in Nat
      BY <2>7, <2>12, <3>2
    <3>4. 1 * uf * pt = uf * pt
      BY <2>7, <2>12
    <3> DEFINE x == byReserves * uf * pt
               y == in * ut * pf
               v == uf * pt
    <3>5. x \in Int /\ y \in Int /\ v \in Nat /\ x <= y
      BY <3>2, <3>3
    <3> HIDE DEF x, y, v
    <3>6. 2 * x <= 2 * y + v
      BY <3>5
    <3> QED
      BY <3>2, <3>4, <3>6 DEF x, y, v
  <2>15. out = byPrice \/ (A!ReservesKnown(pool) /\ out = byReserves)
    BY DEF A!OutExactIn
  <2> HIDE DEF out, byReserves, byPrice, uf, ut, pf, pt
  <2> DEFINE got == Quoted(h, in, st)
  <2>16. got \in Int /\ (got > 0 => 2 * (got * uf * pt) <= 2 * (in * ut * pf) + 1 * uf * pt)
    BY <2>2, <2>13, <2>14, <2>15
  <2> HIDE DEF got
  <2>17. Fair(h, in, got, st)
    <3>1. 1 \in {0, 1}
      OBVIOUS
    <3> QED
      BY <2>7, <2>16, <3>1, FairOver, Zenon DEF uf, ut, pf, pt
  <2> QED
    BY <2>17 DEF got
<1> QED
  BY <1>3, <1>4

-----------------------------------------------------------------------------
(***************************************************************************)
(* A book.  What its levels fill together is no more than what is needed,  *)
(* and at most one of them, the last that is touched, is filled in part.   *)
(***************************************************************************)
\* The levels that are filled before one, by the key that orders them.
Ahead(B, key, l) == {k \in B : key[k] < key[l]}

\* Of some levels there is one that is filled last.
LEMMA LastOfLevels ==
    ASSUME NEW B, IsFiniteSet(B), NEW key, \A l \in B : key[l] \in Int,
           NEW T \in SUBSET B, T # {}
    PROVE  \E l \in T : \A k \in T : key[k] <= key[l]
<1> DEFINE Has(s) == s # {} => \E l \in s : \A k \in s : key[k] <= key[l]
           H == {s \in SUBSET B : Has(s)}
<1>1. ASSUME NEW s \in SUBSET B, s # {}, \A x \in s : s \ {x} \in H
      PROVE  Has(s)
  <2>1. PICK x \in s : TRUE
    BY <1>1
  <2>2. Has(s \ {x})
    BY <1>1, <2>1
  <2>3. CASE s \ {x} = {}
    <3>1. \A k \in s : key[k] <= key[x]
      BY <2>3
    <3> QED
      BY <3>1
  <2>4. CASE s \ {x} # {}
    <3>1. PICK y \in s \ {x} : \A k \in s \ {x} : key[k] <= key[y]
      BY <2>2, <2>4
    <3>2. CASE key[x] <= key[y]
      BY <3>1, <3>2
    <3>3. CASE ~(key[x] <= key[y])
      <4>1. \A k \in s : key[k] <= key[x]
        BY <3>1, <3>3
      <4> QED
        BY <4>1
    <3> QED
      BY <3>2, <3>3
  <2> QED
    BY <2>3, <2>4
<1>2. {} \in H /\ \A s \in SUBSET B : s # {} /\ (\A x \in s : s \ {x} \in H) => s \in H
  <2>1. Has({})
    OBVIOUS
  <2> HIDE DEF Has
  <2> QED
    BY <1>1, <2>1
<1> HIDE DEF H
<1>3. SUBSET B \subseteq H
  BY <1>2, BySize
<1>4. T \in H
  BY <1>3
<1> QED
  BY <1>4 DEF H

\* Levels of size z fill f of what is needed; E is what rounding adds at a level: nothing where it is
\* filled or left, at most c in between.
FillLevels(B, key, z, need, f, c, E) ==
    /\ IsFiniteSet(B) /\ need \in Nat /\ c \in Nat
    /\ \A l, k \in B : key[l] = key[k] => l = k
    /\ \A l \in B : /\ key[l] \in Int /\ z[l] \in Nat
                    /\ f[l] = A!Larger(0, A!Smaller(z[l], need - SumOver(z, Ahead(B, key, l))))
                    /\ E[l] \in Int /\ E[l] <= c
                    /\ (f[l] = 0 \/ f[l] = z[l]) => E[l] <= 0

\* What such levels fill is no more than is needed, and the rounding of all of them no more than that
\* of the one that is filled in part.
LEMMA LevelsFill ==
    ASSUME NEW B, NEW key, NEW z, NEW need, NEW f, NEW c, NEW E, FillLevels(B, key, z, need, f, c, E)
    PROVE  /\ \A l \in B : f[l] \in Nat
           /\ SumOver(f, B) \in Int /\ SumOver(f, B) <= need
           /\ SumOver(E, B) \in Int /\ SumOver(E, B) <= c
<1> DEFINE Whole(T) == \A l \in T : Ahead(B, key, l) \subseteq T
           Fills(T) == /\ SumOver(f, T) \in Int /\ SumOver(E, T) \in Int /\ SumOver(z, T) \in Int
                       /\ SumOver(f, T) <= need /\ SumOver(E, T) <= c
                       /\ SumOver(z, T) <= need => SumOver(f, T) = SumOver(z, T) /\ SumOver(E, T) <= 0
           H == {T \in SUBSET B : Whole(T) => Fills(T)}
<1>a. IsFiniteSet(B) /\ need \in Nat /\ c \in Nat
  BY Zenon DEF FillLevels
<1>b. (\A l, k \in B : key[l] = key[k] => l = k) /\ (\A l \in B : key[l] \in Int)
  BY Zenon DEF FillLevels
<1>c. \A l \in B : /\ z[l] \in Nat /\ E[l] \in Int /\ E[l] <= c
                   /\ (f[l] = 0 \/ f[l] = z[l]) => E[l] <= 0
  BY Zenon DEF FillLevels
<1>d. \A l \in B : f[l] = A!Larger(0, A!Smaller(z[l], need - SumOver(z, Ahead(B, key, l))))
  BY Zenon DEF FillLevels
<1>0. \A l \in B : f[l] \in Nat
  <2> TAKE l \in B
  <2>1. IsFiniteSet(Ahead(B, key, l)) /\ \A x \in Ahead(B, key, l) : z[x] \in Int
    <3>1. Ahead(B, key, l) \subseteq B
      BY DEF Ahead
    <3>2. IsFiniteSet(Ahead(B, key, l))
      BY <1>a, <3>1, FS_Subset, Zenon
    <3> QED
      BY <1>c, <3>1, <3>2
  <2>2. SumOver(z, Ahead(B, key, l)) \in Int
    BY <2>1, SumIsInt
  <2> QED
    BY <1>a, <1>c, <1>d, <2>2 DEF A!Larger, A!Smaller
<1>1. Fills({})
  BY <1>a, SumOfNone
<1>2. ASSUME NEW T \in SUBSET B, T # {}, \A x \in T : T \ {x} \in H, Whole(T)
      PROVE  Fills(T)
  <2>1. PICK l \in T : \A k \in T : key[k] <= key[l]
    BY <1>a, <1>b, <1>2, LastOfLevels
  <2> DEFINE R == T \ {l}
  <2>2. Ahead(B, key, l) = R
    <3>1. Ahead(B, key, l) \subseteq T /\ l \notin Ahead(B, key, l)
      BY <1>b, <1>2 DEF Ahead
    <3>2. ASSUME NEW k \in R
          PROVE  k \in Ahead(B, key, l)
      BY <1>b, <2>1 DEF Ahead
    <3> QED
      BY <3>1, <3>2
  <2>3. Whole(R)
    <3>1. ASSUME NEW k \in R, NEW j \in Ahead(B, key, k)
          PROVE  j \in R
      <4>1. j \in T
        BY <1>2
      <4>2. key[j] < key[k] /\ key[k] <= key[l] /\ j \in B /\ k \in B /\ l \in B
        BY <2>1 DEF Ahead
      <4>3. j # l
        BY <1>b, <4>2
      <4> QED
        BY <4>1, <4>3
    <3> QED
      BY <3>1
  <2>4. Fills(R)
    <3>1. R \in H
      BY <1>2, <2>1
    <3> QED
      BY <2>3, <3>1
  <2>5. IsFiniteSet(T) /\ \A x \in T : f[x] \in Int /\ E[x] \in Int /\ z[x] \in Int
    <3>1. IsFiniteSet(T)
      BY <1>a, FS_Subset, Zenon
    <3> QED
      BY <1>0, <1>c, <3>1
  <2>6. /\ SumOver(f, T) = f[l] + SumOver(f, R) /\ SumOver(E, T) = E[l] + SumOver(E, R)
        /\ SumOver(z, T) = z[l] + SumOver(z, R)
    BY <2>1, <2>5, SumWithout
  <2>7. f[l] = A!Larger(0, A!Smaller(z[l], need - SumOver(z, R)))
    BY <1>d, <2>2
  <2> DEFINE sf == SumOver(f, R)
             se == SumOver(E, R)
             sz == SumOver(z, R)
  <2>8. /\ sf \in Int /\ se \in Int /\ sz \in Int /\ sf <= need /\ se <= c
        /\ sz <= need => sf = sz /\ se <= 0
        /\ need \in Nat /\ c \in Nat
    BY <1>a, <2>4
  <2>9. /\ f[l] \in Nat /\ E[l] \in Int /\ z[l] \in Nat /\ E[l] <= c
        /\ (f[l] = 0 \/ f[l] = z[l]) => E[l] <= 0
    BY <1>0, <1>c
  <2> HIDE DEF sf, se, sz, R
  <2>10. f[l] = A!Larger(0, A!Smaller(z[l], need - sz))
    BY <2>7 DEF sz, R
  <2>11. /\ f[l] + sf <= need /\ E[l] + se <= c
         /\ z[l] + sz <= need => f[l] + sf = z[l] + sz /\ E[l] + se <= 0
    <3>1. CASE sz > need
      <4>1. f[l] = 0
        BY <2>8, <2>9, <2>10, <3>1 DEF A!Larger, A!Smaller
      <4> QED
        BY <2>8, <2>9, <3>1, <4>1
    <3>2. CASE sz <= need /\ z[l] <= need - sz
      <4>1. f[l] = z[l]
        BY <2>8, <2>9, <2>10, <3>2 DEF A!Larger, A!Smaller
      <4> QED
        BY <2>8, <2>9, <3>2, <4>1
    <3>3. CASE sz <= need /\ z[l] > need - sz
      <4>1. f[l] = need - sz
        BY <2>8, <2>9, <2>10, <3>3 DEF A!Larger, A!Smaller
      <4> QED
        BY <2>8, <2>9, <3>3, <4>1
    <3> QED
      BY <2>8, <2>9, <3>1, <3>2, <3>3
  <2> QED
    BY <2>6, <2>8, <2>9, <2>11 DEF sf, se, sz, R
<1>3. {} \in H /\ \A T \in SUBSET B : T # {} /\ (\A x \in T : T \ {x} \in H) => T \in H
  <2> HIDE DEF Fills, Whole
  <2> QED
    BY <1>1, <1>2
<1> HIDE DEF H, Fills
<1>4. SUBSET B \subseteq H
  BY <1>a, <1>3, BySize
<1>5. B \in H /\ Whole(B)
  BY <1>4 DEF Ahead
<1>6. Fills(B)
  BY <1>5 DEF H
<1> QED
  BY <1>0, <1>6 DEF Fills

\* The folds of a book.
LEMMA ZephIsSum ==
    ASSUME NEW S, IsFiniteSet(S), NEW F, \A x \in S : F[x] \in Int /\ F[x] = A!InZeph(x)
    PROVE  A!MapThenSumSet(A!InZeph, S) = SumOver(F, S)
<1> DEFINE size(x) == A!InZeph(x)
           Body(h) == [s \in SUBSET S |-> IF s = {} THEN 0
                                          ELSE size(CHOOSE y \in s : TRUE) + h[s \ {CHOOSE y \in s : TRUE}]]
           g == CHOOSE h : h = Body(h)
<1>1. A!MapThenSumSet(A!InZeph, S) = g[S]
  BY DEF A!MapThenSumSet, A!MapThenFoldSet
<1>2. \A x \in S : F[x] \in Int /\ F[x] = size(x)
  OBVIOUS
<1>3. ASSUME NEW h
      PROVE  (h = Body(h)) <=> FoldsUp(h, F, S)
  <2> HIDE DEF size
  <2> QED
    BY <1>2, ZenonT(30) DEF FoldsUp
<1> HIDE DEF Body
<1>4. \E h : h = Body(h)
  BY <1>3, FoldIsThere
<1>5. g = Body(g)
  BY <1>4
<1> HIDE DEF g
<1>6. FoldsUp(g, F, S)
  BY <1>3, <1>5
<1>7. g[S] = SumOver(F, S)
  BY <1>6, FoldIsSum
<1> QED
  BY <1>1, <1>7

\* What the levels hold, in cents.
LEMMA CentsIsSum ==
    ASSUME NEW S, IsFiniteSet(S), NEW F, \A x \in S : F[x] \in Int /\ F[x] = A!InCents(x)
    PROVE  A!MapThenSumSet(A!InCents, S) = SumOver(F, S)
<1> DEFINE size(x) == A!InCents(x)
           Body(h) == [s \in SUBSET S |-> IF s = {} THEN 0
                                          ELSE size(CHOOSE y \in s : TRUE) + h[s \ {CHOOSE y \in s : TRUE}]]
           g == CHOOSE h : h = Body(h)
<1>1. A!MapThenSumSet(A!InCents, S) = g[S]
  BY DEF A!MapThenSumSet, A!MapThenFoldSet
<1>2. \A x \in S : F[x] \in Int /\ F[x] = size(x)
  OBVIOUS
<1>3. ASSUME NEW h
      PROVE  (h = Body(h)) <=> FoldsUp(h, F, S)
  <2> HIDE DEF size
  <2> QED
    BY <1>2, ZenonT(30) DEF FoldsUp
<1> HIDE DEF Body
<1>4. \E h : h = Body(h)
  BY <1>3, FoldIsThere
<1>5. g = Body(g)
  BY <1>4
<1> HIDE DEF g
<1>6. FoldsUp(g, F, S)
  BY <1>3, <1>5
<1>7. g[S] = SumOver(F, S)
  BY <1>6, FoldIsSum
<1> QED
  BY <1>1, <1>7

\* What is filled of them, in ZEPH.
LEMMA FilledZephIsSum ==
    ASSUME NEW rq, NEW st, NEW need, NEW S, IsFiniteSet(S), NEW F,
           \A x \in S : F[x] \in Int /\ F[x] = A!Filled(rq, st, x, need, A!InZeph)
    PROVE  S = A!BookSide(rq, st) => A!FilledAll(rq, st, need, A!InZeph) = SumOver(F, S)
<1> DEFINE fill(x) == A!Filled(rq, st, x, need, A!InZeph)
           Body(h) == [s \in SUBSET S |-> IF s = {} THEN 0
                                          ELSE fill(CHOOSE y \in s : TRUE) + h[s \ {CHOOSE y \in s : TRUE}]]
           g == CHOOSE h : h = Body(h)
<1>1. A!MapThenSumSet(fill, S) = g[S]
  BY DEF A!MapThenSumSet, A!MapThenFoldSet
<1>2. \A x \in S : F[x] \in Int /\ F[x] = fill(x)
  OBVIOUS
<1>3. ASSUME NEW h
      PROVE  (h = Body(h)) <=> FoldsUp(h, F, S)
  <2> HIDE DEF fill
  <2> QED
    BY <1>2, ZenonT(30) DEF FoldsUp
<1> HIDE DEF Body
<1>4. \E h : h = Body(h)
  BY <1>3, FoldIsThere
<1>5. g = Body(g)
  BY <1>4
<1> HIDE DEF g
<1>6. FoldsUp(g, F, S)
  BY <1>3, <1>5
<1>7. g[S] = SumOver(F, S)
  BY <1>6, FoldIsSum
<1> QED
  BY <1>1, <1>7 DEF A!FilledAll

\* And in cents.
LEMMA FilledCentsIsSum ==
    ASSUME NEW rq, NEW st, NEW need, NEW S, IsFiniteSet(S), NEW F,
           \A x \in S : F[x] \in Int /\ F[x] = A!Filled(rq, st, x, need, A!InCents)
    PROVE  S = A!BookSide(rq, st) => A!FilledAll(rq, st, need, A!InCents) = SumOver(F, S)
<1> DEFINE fill(x) == A!Filled(rq, st, x, need, A!InCents)
           Body(h) == [s \in SUBSET S |-> IF s = {} THEN 0
                                          ELSE fill(CHOOSE y \in s : TRUE) + h[s \ {CHOOSE y \in s : TRUE}]]
           g == CHOOSE h : h = Body(h)
<1>1. A!MapThenSumSet(fill, S) = g[S]
  BY DEF A!MapThenSumSet, A!MapThenFoldSet
<1>2. \A x \in S : F[x] \in Int /\ F[x] = fill(x)
  OBVIOUS
<1>3. ASSUME NEW h
      PROVE  (h = Body(h)) <=> FoldsUp(h, F, S)
  <2> HIDE DEF fill
  <2> QED
    BY <1>2, ZenonT(30) DEF FoldsUp
<1> HIDE DEF Body
<1>4. \E h : h = Body(h)
  BY <1>3, FoldIsThere
<1>5. g = Body(g)
  BY <1>4
<1> HIDE DEF g
<1>6. FoldsUp(g, F, S)
  BY <1>3, <1>5
<1>7. g[S] = SumOver(F, S)
  BY <1>6, FoldIsSum
<1> QED
  BY <1>1, <1>7 DEF A!FilledAll

\* The cents that ZEPH is sold for.
LEMMA ForZephIsSum ==
    ASSUME NEW rq, NEW st, NEW need, NEW S, IsFiniteSet(S), NEW F,
           \A x \in S : F[x] \in Int /\ F[x] = A!Filled(rq, st, x, need, A!InZeph) * x.price
    PROVE  S = A!BookSide(rq, st) => A!ForZeph(rq, st, need) = SumOver(F, S)
<1> DEFINE worth(x) == A!Filled(rq, st, x, need, A!InZeph) * x.price
           Body(h) == [s \in SUBSET S |-> IF s = {} THEN 0
                                          ELSE worth(CHOOSE y \in s : TRUE) + h[s \ {CHOOSE y \in s : TRUE}]]
           g == CHOOSE h : h = Body(h)
<1>1. A!MapThenSumSet(worth, S) = g[S]
  BY DEF A!MapThenSumSet, A!MapThenFoldSet
<1>2. \A x \in S : F[x] \in Int /\ F[x] = worth(x)
  OBVIOUS
<1>3. ASSUME NEW h
      PROVE  (h = Body(h)) <=> FoldsUp(h, F, S)
  <2> HIDE DEF worth
  <2> QED
    BY <1>2, ZenonT(30) DEF FoldsUp
<1> HIDE DEF Body
<1>4. \E h : h = Body(h)
  BY <1>3, FoldIsThere
<1>5. g = Body(g)
  BY <1>4
<1> HIDE DEF g
<1>6. FoldsUp(g, F, S)
  BY <1>3, <1>5
<1>7. g[S] = SumOver(F, S)
  BY <1>6, FoldIsSum
<1> QED
  BY <1>1, <1>7 DEF A!ForZeph

\* The ZEPH that cents buy.
LEMMA ForCentsIsSum ==
    ASSUME NEW rq, NEW st, NEW need, NEW S, IsFiniteSet(S), NEW F,
           \A x \in S : F[x] \in Int /\ F[x] = A!Rounded(100 * A!Filled(rq, st, x, need, A!InCents), x.price)
    PROVE  S = A!BookSide(rq, st) => A!ForCents(rq, st, need) = SumOver(F, S)
<1> DEFINE zeph(x) == A!Rounded(100 * A!Filled(rq, st, x, need, A!InCents), x.price)
           Body(h) == [s \in SUBSET S |-> IF s = {} THEN 0
                                          ELSE zeph(CHOOSE y \in s : TRUE) + h[s \ {CHOOSE y \in s : TRUE}]]
           g == CHOOSE h : h = Body(h)
<1>1. A!MapThenSumSet(zeph, S) = g[S]
  BY DEF A!MapThenSumSet, A!MapThenFoldSet
<1>2. \A x \in S : F[x] \in Int /\ F[x] = zeph(x)
  OBVIOUS
<1>3. ASSUME NEW h
      PROVE  (h = Body(h)) <=> FoldsUp(h, F, S)
  <2> HIDE DEF zeph
  <2> QED
    BY <1>2, ZenonT(30) DEF FoldsUp
<1> HIDE DEF Body
<1>4. \E h : h = Body(h)
  BY <1>3, FoldIsThere
<1>5. g = Body(g)
  BY <1>4
<1> HIDE DEF g
<1>6. FoldsUp(g, F, S)
  BY <1>3, <1>5
<1>7. g[S] = SumOver(F, S)
  BY <1>6, FoldIsSum
<1> QED
  BY <1>1, <1>7 DEF A!ForCents

\* The order of a side: the dearest bid, or the cheapest ask.
KeyOf(rq, B) == [l \in B |-> IF A!Sells(rq) THEN -l.price ELSE l.price]

\* The key orders the levels of a side as the book is walked.
LEMMA SideFacts ==
    ASSUME NEW rq, NEW st, NEW B, B = A!BookSide(rq, st), IsSide(B), NEW key, key = KeyOf(rq, B)
    PROVE  /\ IsFiniteSet(B) /\ \A l \in B : key[l] \in Int
           /\ \A l, k \in B : key[l] = key[k] => l = k
           /\ \A l \in B : /\ l.price \in Nat /\ l.price > 0 /\ l.amount \in Nat
                           /\ A!Betters(rq, st, l) = Ahead(B, key, l)
                           /\ IsFiniteSet(Ahead(B, key, l)) /\ Ahead(B, key, l) \subseteq B
<1>1. /\ IsFiniteSet(B) /\ \A l, k \in B : l.price = k.price => l = k
      /\ \A l \in B : l.price \in Nat /\ l.price > 0 /\ l.amount \in Nat
  BY Zenon DEF IsSide
<1>2. \A l \in B : key[l] = IF A!Sells(rq) THEN -l.price ELSE l.price
  BY DEF KeyOf
<1>3. \A l, k \in B :
        /\ key[l] = key[k] => l = k
        /\ key[k] < key[l] <=> IF A!Sells(rq) THEN k.price > l.price ELSE k.price < l.price
  BY <1>1, <1>2
<1>4. ASSUME NEW l \in B
      PROVE  /\ A!Betters(rq, st, l) = Ahead(B, key, l) /\ Ahead(B, key, l) \subseteq B
             /\ IsFiniteSet(Ahead(B, key, l))
  <2>1. A!Betters(rq, st, l) = Ahead(B, key, l)
    BY <1>3 DEF A!Betters, Ahead
  <2>2. Ahead(B, key, l) \subseteq B
    BY DEF Ahead
  <2>3. IsFiniteSet(Ahead(B, key, l))
    BY <1>1, <2>2, FS_Subset, Zenon
  <2> QED
    BY <2>1, <2>2, <2>3
<1>5. \A l \in B : key[l] \in Int
  BY <1>1, <1>2
<1> QED
  BY <1>1, <1>3, <1>4, <1>5

\* What a level holds, either way it is counted.
LEMMA SizesAre == \A l : A!InZeph(l) = 100 * l.amount /\ A!InCents(l) = l.price * l.amount
BY DEF A!InZeph, A!InCents

\* A side that is filled in ZEPH.
LEMMA ZephFills ==
    ASSUME NEW rq, NEW st, NEW B, B = A!BookSide(rq, st), IsSide(B), NEW need \in Nat,
           NEW f, \A l \in B : f[l] = A!Filled(rq, st, l, need, A!InZeph)
    PROVE  /\ \A l \in B : f[l] \in Nat
           /\ SumOver(f, B) \in Int /\ SumOver(f, B) <= need
<1> DEFINE key == KeyOf(rq, B)
           z == [l \in B |-> A!InZeph(l)]
           E == [l \in B |-> 0]
<1>1. /\ IsFiniteSet(B) /\ \A l \in B : key[l] \in Int
      /\ \A l, k \in B : key[l] = key[k] => l = k
      /\ \A l \in B : /\ l.price \in Nat /\ l.price > 0 /\ l.amount \in Nat
                      /\ A!Betters(rq, st, l) = Ahead(B, key, l)
                      /\ IsFiniteSet(Ahead(B, key, l)) /\ Ahead(B, key, l) \subseteq B
  BY SideFacts
<1> HIDE DEF key
<1>2. \A l \in B : z[l] = A!InZeph(l) /\ z[l] \in Nat
  <2> TAKE l \in B
  <2>1. l.price \in Nat /\ l.amount \in Nat
    BY <1>1
  <2>2. A!InZeph(l) \in Nat
    BY <2>1, SizesAre
  <2> QED
    BY <2>2
<1> HIDE DEF z
<1>3. ASSUME NEW l \in B
      PROVE  f[l] = A!Larger(0, A!Smaller(z[l], need - SumOver(z, Ahead(B, key, l))))
  <2> DEFINE T == Ahead(B, key, l)
  <2>1. IsFiniteSet(T) /\ \A x \in T : z[x] \in Int /\ z[x] = A!InZeph(x)
    BY <1>1, <1>2
  <2>2. A!MapThenSumSet(A!InZeph, T) = SumOver(z, T)
    BY <2>1, ZephIsSum
  <2>3. f[l] = A!Larger(0, A!Smaller(A!InZeph(l), need - A!MapThenSumSet(A!InZeph, T)))
    BY <1>1 DEF A!Filled
  <2> QED
    BY <1>2, <2>2, <2>3
<1>4. \A l \in B : E[l] \in Int /\ E[l] <= 0 /\ ((f[l] = 0 \/ f[l] = z[l]) => E[l] <= 0)
  OBVIOUS
<1> HIDE DEF E
<1>5. 0 \in Nat
  OBVIOUS
<1>6. FillLevels(B, key, z, need, f, 0, E)
  BY <1>1, <1>2, <1>3, <1>4, <1>5 DEF FillLevels
<1> QED
  BY <1>6, LevelsFill

\* Levels that are filled in cents, and what rounding adds at each.
CentsLevels(rq, st, B, need, f, c, E) ==
    /\ B = A!BookSide(rq, st) /\ IsSide(B) /\ need \in Nat /\ c \in Nat
    /\ \A l \in B : f[l] = A!Filled(rq, st, l, need, A!InCents)
    /\ \A l \in B : f[l] \in Nat => /\ E[l] \in Int /\ E[l] <= c
                                    /\ (f[l] = 0 \/ f[l] = A!InCents(l)) => E[l] <= 0

\* And one that is filled in cents.
LEMMA CentsFill ==
    ASSUME NEW rq, NEW st, NEW B, NEW need, NEW f, NEW c, NEW E, CentsLevels(rq, st, B, need, f, c, E)
    PROVE  /\ \A l \in B : f[l] \in Nat
           /\ SumOver(f, B) \in Int /\ SumOver(f, B) <= need
           /\ SumOver(E, B) \in Int /\ SumOver(E, B) <= c
<1>a. B = A!BookSide(rq, st) /\ IsSide(B) /\ need \in Nat /\ c \in Nat
  BY Zenon DEF CentsLevels
<1>b. \A l \in B : f[l] = A!Filled(rq, st, l, need, A!InCents)
  BY Zenon DEF CentsLevels
<1>c. \A l \in B : f[l] \in Nat => /\ E[l] \in Int /\ E[l] <= c
                                   /\ (f[l] = 0 \/ f[l] = A!InCents(l)) => E[l] <= 0
  BY Zenon DEF CentsLevels
<1> DEFINE key == KeyOf(rq, B)
           z == [l \in B |-> A!InCents(l)]
<1>1. /\ IsFiniteSet(B) /\ \A l \in B : key[l] \in Int
      /\ \A l, k \in B : key[l] = key[k] => l = k
      /\ \A l \in B : /\ l.price \in Nat /\ l.price > 0 /\ l.amount \in Nat
                      /\ A!Betters(rq, st, l) = Ahead(B, key, l)
                      /\ IsFiniteSet(Ahead(B, key, l)) /\ Ahead(B, key, l) \subseteq B
  BY <1>a, SideFacts
<1> HIDE DEF key
<1>2. \A l \in B : z[l] = A!InCents(l) /\ z[l] \in Nat
  <2> TAKE l \in B
  <2>1. l.price \in Nat /\ l.amount \in Nat
    BY <1>1
  <2>2. A!InCents(l) \in Nat
    BY <2>1, SizesAre
  <2> QED
    BY <2>2
<1> HIDE DEF z
<1>3. ASSUME NEW l \in B
      PROVE  /\ f[l] = A!Larger(0, A!Smaller(z[l], need - SumOver(z, Ahead(B, key, l))))
             /\ f[l] \in Nat
  <2> DEFINE T == Ahead(B, key, l)
  <2>1. IsFiniteSet(T) /\ \A x \in T : z[x] \in Int /\ z[x] = A!InCents(x)
    BY <1>1, <1>2
  <2>2. A!MapThenSumSet(A!InCents, T) = SumOver(z, T) /\ SumOver(z, T) \in Int
    BY <2>1, CentsIsSum, SumIsInt
  <2>3. f[l] = A!Larger(0, A!Smaller(A!InCents(l), need - A!MapThenSumSet(A!InCents, T)))
    BY <1>1, <1>b DEF A!Filled
  <2>4. f[l] = A!Larger(0, A!Smaller(z[l], need - SumOver(z, T)))
    BY <1>2, <2>2, <2>3
  <2>5. z[l] \in Nat
    BY <1>2
  <2> QED
    BY <1>a, <2>2, <2>4, <2>5 DEF A!Larger, A!Smaller
<1>4. \A l \in B : E[l] \in Int /\ E[l] <= c /\ ((f[l] = 0 \/ f[l] = z[l]) => E[l] <= 0)
  BY <1>2, <1>3, <1>c
<1>5. FillLevels(B, key, z, need, f, c, E)
  BY <1>1, <1>2, <1>3, <1>4, <1>a DEF FillLevels
<1> QED
  BY <1>5, LevelsFill

\* Rounding to the nearest is off by at most a half.
LEMMA RoundedIsNear ==
    ASSUME NEW n \in Nat, NEW d \in Nat, d > 0
    PROVE  A!Rounded(n, d) \in Nat /\ (2 * d) * A!Rounded(n, d) <= 2 * n + d
<1> DEFINE t == 2 * n + d
           e == 2 * d
<1>1. A!Rounded(n, d) = t \div e /\ t \in Nat /\ e \in Nat /\ e > 0
  BY DEF A!Rounded
<1> HIDE DEF t, e
<1> DEFINE q == t \div e
<1>2. q \in Nat /\ e * q <= t
  BY <1>1
<1>3. A!Rounded(n, d) = q
  BY <1>1
<1> HIDE DEF q
<1> QED
  BY <1>2, <1>3 DEF t, e

\* And leaves what has no fraction.
LEMMA RoundedIsExact ==
    ASSUME NEW n \in Nat, NEW d \in Nat, d > 0, NEW q \in Nat, n = q * d
    PROVE  A!Rounded(n, d) = q
<1> DEFINE t == 2 * n + d
           e == 2 * d
<1>1. A!Rounded(n, d) = t \div e /\ t \in Nat /\ e \in Nat /\ e > 0
  BY DEF A!Rounded
<1>2. q * e <= t /\ t < (q + 1) * e
  OBVIOUS
<1> HIDE DEF t, e
<1>3. t \div e = q
  <2> DEFINE r == t \div e
  <2>1. r \in Int /\ e * r <= t /\ t < e * r + e
    BY <1>1
  <2> HIDE DEF r
  <2>2. r < q + 1
    <3> SUFFICES ASSUME r >= q + 1 PROVE FALSE
      BY <2>1
    <3>1. (q + 1) * e <= r * e
      BY <1>1, <2>1
    <3> QED
      BY <1>1, <1>2, <2>1, <3>1
  <2>3. q < r + 1
    <3> SUFFICES ASSUME q >= r + 1 PROVE FALSE
      BY <2>1
    <3>1. (r + 1) * e <= q * e
      BY <1>1, <2>1
    <3> QED
      BY <1>1, <1>2, <2>1, <3>1
  <2> QED
    BY <2>1, <2>2, <2>3 DEF r
<1> QED
  BY <1>1, <1>3

\* What a number of units are worth over the cents paid for them, in two hundredths of a cent.
Excess(zeph, got, cents) == 2 * zeph * got - 200 * cents

\* What is bought at a level, no cheaper than the price of ZEPH, but for half a unit of it at a level
\* that is filled in part.
LEMMA BoughtIsFair ==
    ASSUME NEW price \in Nat, price > 0, NEW cents \in Nat, NEW zeph \in Nat, zeph <= price,
           NEW got, got = A!Rounded(100 * cents, price)
    PROVE  /\ got \in Nat /\ Excess(zeph, got, cents) <= zeph
           /\ \A q \in Nat : cents = price * q => Excess(zeph, got, cents) <= 0
<1>0. 100 * cents \in Nat
  OBVIOUS
<1>1. got \in Nat /\ (2 * price) * got <= 2 * (100 * cents) + price
  BY <1>0, RoundedIsNear
<1>2. 2 * zeph * got - 200 * cents <= zeph
  <2> DEFINE lhs == 2 * zeph * got
             rhs == 200 * cents + zeph
  <2>1. price * lhs <= price * rhs
    <3>1. zeph * ((2 * price) * got) <= zeph * (200 * cents + price)
      <4> DEFINE x == (2 * price) * got
                 y == 200 * cents + price
      <4>1. x \in Int /\ y \in Int /\ x <= y
        BY <1>1
      <4> HIDE DEF x, y
      <4>2. zeph * x <= zeph * y
        BY <4>1
      <4> QED
        BY <4>2 DEF x, y
    <3>2. price * lhs = zeph * ((2 * price) * got)
      BY <1>1
    <3>3. zeph * (200 * cents) <= price * (200 * cents)
      OBVIOUS
    <3>4. zeph * (200 * cents + price) = zeph * (200 * cents) + zeph * price
      OBVIOUS
    <3>5. price * rhs = price * (200 * cents) + zeph * price
      OBVIOUS
    <3> QED
      BY <1>1, <3>1, <3>2, <3>3, <3>4, <3>5
  <2>2. lhs \in Int /\ rhs \in Int
    BY <1>1
  <2> HIDE DEF lhs, rhs
  <2>3. lhs <= rhs
    BY <2>1, <2>2
  <2> QED
    BY <1>1, <2>3 DEF lhs, rhs
<1>3. ASSUME NEW q \in Nat, cents = price * q
      PROVE  2 * zeph * got - 200 * cents <= 0
  <2>1. 100 * q \in Nat /\ 100 * cents = (100 * q) * price
    BY <1>3
  <2>2. got = 100 * q
    BY <1>0, <2>1, RoundedIsExact
  <2>3. zeph * q <= price * q
    OBVIOUS
  <2> QED
    BY <1>3, <2>2, <2>3
<1> QED
  BY <1>1, <1>2, <1>3 DEF Excess

\* What ZEPH is sold for is no more than the price of ZEPH.
LEMMA SoldForLess ==
    ASSUME NEW rq, NEW st, IsSide(A!BookSide(rq, st)), NEW need \in Nat, NEW zeph \in Nat,
           \A l \in A!BookSide(rq, st) : l.price <= zeph
    PROVE  A!ForZeph(rq, st, need) \in Nat /\ A!ForZeph(rq, st, need) <= zeph * need
<1> DEFINE B == A!BookSide(rq, st)
           f == [l \in B |-> A!Filled(rq, st, l, need, A!InZeph)]
           F == [l \in B |-> f[l] * l.price]
           E == [l \in B |-> F[l] + (-zeph) * f[l]]
<1>1. IsFiniteSet(B) /\ \A l \in B : l.price \in Nat /\ l.price <= zeph
  BY DEF IsSide
<1>2. \A l \in B : f[l] = A!Filled(rq, st, l, need, A!InZeph)
  OBVIOUS
<1>3. \A l \in B : F[l] = f[l] * l.price
  OBVIOUS
<1>4. \A l \in B : E[l] = F[l] + (-zeph) * f[l]
  OBVIOUS
<1> HIDE DEF f, F, E
<1>5. (\A l \in B : f[l] \in Nat) /\ SumOver(f, B) \in Int /\ SumOver(f, B) <= need
  BY <1>2, ZephFills
<1>6. \A l \in B : F[l] \in Int /\ F[l] >= 0 /\ F[l] = A!Filled(rq, st, l, need, A!InZeph) * l.price
  BY <1>1, <1>2, <1>3, <1>5
<1>7. A!ForZeph(rq, st, need) = SumOver(F, B)
  BY <1>1, <1>6, ForZephIsSum
<1>8. \A l \in B : E[l] \in Int /\ E[l] <= 0
  <2> TAKE l \in B
  <2>1. l.price \in Nat /\ l.price <= zeph /\ f[l] \in Nat /\ E[l] = f[l] * l.price + (-zeph) * f[l]
    BY <1>1, <1>3, <1>4, <1>5
  <2> DEFINE n == f[l]
             p == l.price
  <2>2. n \in Nat /\ p \in Nat /\ p <= zeph /\ E[l] = n * p + (-zeph) * n
    BY <2>1
  <2> HIDE DEF n, p
  <2>3. n * p <= n * zeph
    BY <2>2
  <2> QED
    BY <2>2, <2>3
<1>9. SumOver(E, B) \in Int /\ SumOver(E, B) <= 0
  BY <1>1, <1>8, SumNotPositive
<1>10. SumOver(E, B) = SumOver(F, B) + (-zeph) * SumOver(f, B)
  <2>1. -zeph \in Int /\ \A l \in B : F[l] \in Int /\ f[l] \in Int /\ E[l] = F[l] + (-zeph) * f[l]
    BY <1>4, <1>5, <1>6
  <2> QED
    BY <1>1, <2>1, SumsAdd
<1>11. SumOver(F, B) \in Int /\ SumOver(F, B) >= 0
  <2> DEFINE N == [l \in B |-> 0 + (-1) * F[l]]
             Z == [l \in B |-> 0]
  <2>1. \A l \in B : Z[l] \in Int /\ Z[l] = 0 /\ F[l] \in Int /\ N[l] = Z[l] + (-1) * F[l]
    BY <1>6
  <2>2. \A l \in B : N[l] \in Int /\ N[l] <= 0
    BY <1>6
  <2> HIDE DEF N, Z
  <2>3. SumOver(N, B) = SumOver(Z, B) + (-1) * SumOver(F, B)
    BY <1>1, <2>1, SumsAdd
  <2>4. SumOver(Z, B) = 0
    BY <1>1, <2>1, SumOfZeros
  <2>5. SumOver(N, B) <= 0 /\ SumOver(F, B) \in Int
    BY <1>1, <1>6, <2>2, SumNotPositive, SumIsInt
  <2> QED
    BY <2>3, <2>4, <2>5
<1> DEFINE s == SumOver(F, B)
           t == SumOver(f, B)
<1>12. s \in Int /\ s >= 0 /\ t \in Int /\ t <= need /\ s + (-zeph) * t <= 0
  BY <1>5, <1>9, <1>10, <1>11
<1> HIDE DEF s, t
<1>13. s <= zeph * need
  <2>1. zeph * t <= zeph * need
    BY <1>12
  <2> QED
    BY <1>12, <2>1
<1> QED
  BY <1>7, <1>12, <1>13 DEF s

\* What is bought of ZEPH is worth no more, but for half a unit, than what is paid.
LEMMA BoughtForMore ==
    ASSUME NEW rq, NEW st, IsSide(A!BookSide(rq, st)), NEW need \in Nat, NEW zeph \in Nat,
           \A l \in A!BookSide(rq, st) : zeph <= l.price
    PROVE  /\ A!ForCents(rq, st, need) \in Nat
           /\ 2 * zeph * A!ForCents(rq, st, need) <= 200 * need + zeph
<1> DEFINE B == A!BookSide(rq, st)
           f == [l \in B |-> A!Filled(rq, st, l, need, A!InCents)]
           F == [l \in B |-> A!Rounded(100 * f[l], l.price)]
           G == [l \in B |-> (2 * zeph) * F[l]]
           E == [l \in B |-> G[l] + (-200) * f[l]]
<1>1. IsFiniteSet(B) /\ \A l \in B : l.price \in Nat /\ l.price > 0 /\ l.amount \in Nat /\ zeph <= l.price
  BY DEF IsSide
<1>2. \A l \in B : f[l] = A!Filled(rq, st, l, need, A!InCents)
  OBVIOUS
<1>3. \A l \in B : F[l] = A!Rounded(100 * f[l], l.price)
  OBVIOUS
<1>4. \A l \in B : G[l] = (2 * zeph) * F[l] /\ E[l] = G[l] + (-200) * f[l]
  OBVIOUS
<1> HIDE DEF f, F, E, G
<1>5. \A l \in B : f[l] \in Nat => /\ F[l] \in Nat /\ G[l] \in Int /\ E[l] \in Int /\ E[l] <= zeph
                                   /\ (f[l] = 0 \/ f[l] = A!InCents(l)) => E[l] <= 0
  <2> SUFFICES ASSUME NEW l \in B, f[l] \in Nat
               PROVE  /\ F[l] \in Nat /\ G[l] \in Int /\ E[l] \in Int /\ E[l] <= zeph
                      /\ (f[l] = 0 \/ f[l] = A!InCents(l)) => E[l] <= 0
    OBVIOUS
  <2> DEFINE n == f[l]
             p == l.price
             m == l.amount
             got == F[l]
  <2>1. n \in Nat /\ p \in Nat /\ p > 0 /\ m \in Nat /\ zeph <= p /\ got = A!Rounded(100 * n, p)
    BY <1>1, <1>3
  <2>2. A!InCents(l) = p * m
    BY SizesAre
  <2>3. E[l] = (2 * zeph) * got + (-200) * n /\ G[l] = (2 * zeph) * got
    BY <1>4
  <2> HIDE DEF n, p, m, got
  <2>4. /\ got \in Nat /\ Excess(zeph, got, n) <= zeph
        /\ \A q \in Nat : n = p * q => Excess(zeph, got, n) <= 0
    BY <2>1, BoughtIsFair
  <2>5. Excess(zeph, got, n) = E[l] /\ G[l] \in Int /\ E[l] \in Int
    BY <2>1, <2>3, <2>4 DEF Excess
  <2>6. E[l] <= zeph /\ ((n = 0 \/ n = p * m) => E[l] <= 0)
    <3>1. n = 0 => n = p * 0
      BY <2>1
    <3>2. (n = p * 0 \/ n = p * m) => Excess(zeph, got, n) <= 0
      BY <2>1, <2>4
    <3> QED
      BY <2>4, <2>5, <3>1, <3>2
  <2> QED
    BY <2>2, <2>4, <2>5, <2>6 DEF n, got
<1>6. /\ \A l \in B : f[l] \in Nat
      /\ SumOver(f, B) \in Int /\ SumOver(f, B) <= need
      /\ SumOver(E, B) \in Int /\ SumOver(E, B) <= zeph
  <2>1. \A l \in B : f[l] \in Nat => /\ E[l] \in Int /\ E[l] <= zeph
                                     /\ (f[l] = 0 \/ f[l] = A!InCents(l)) => E[l] <= 0
    BY <1>5
  <2> HIDE DEF B
  <2>2. B = A!BookSide(rq, st) /\ IsSide(B)
    BY DEF B
  <2>3. CentsLevels(rq, st, B, need, f, zeph, E)
    BY <1>2, <2>1, <2>2, Zenon DEF CentsLevels
  <2> QED
    BY <2>3, CentsFill, Zenon
<1>7. \A l \in B : F[l] \in Int /\ F[l] >= 0 /\ G[l] \in Int /\ f[l] \in Int
  BY <1>5, <1>6
<1>8. A!ForCents(rq, st, need) = SumOver(F, B)
  <2>1. \A l \in B : F[l] \in Int /\ F[l] = A!Rounded(100 * A!Filled(rq, st, l, need, A!InCents), l.price)
    BY <1>2, <1>3, <1>7
  <2> QED
    BY <1>1, <2>1, ForCentsIsSum
<1>9. SumOver(E, B) = SumOver(G, B) + (-200) * SumOver(f, B)
  <2>1. -200 \in Int /\ \A l \in B : G[l] \in Int /\ f[l] \in Int /\ E[l] = G[l] + (-200) * f[l]
    BY <1>4, <1>7
  <2> QED
    BY <1>1, <2>1, SumsAdd
<1>10. SumOver(G, B) = (2 * zeph) * SumOver(F, B) /\ SumOver(F, B) \in Int /\ SumOver(F, B) >= 0
  <2> DEFINE N == [l \in B |-> 0 + (-1) * F[l]]
             Z == [l \in B |-> 0]
  <2>1. \A l \in B : Z[l] \in Int /\ Z[l] = 0 /\ F[l] \in Int /\ N[l] = Z[l] + (-1) * F[l]
    BY <1>7
  <2>2. \A l \in B : N[l] \in Int /\ N[l] <= 0
    BY <1>7
  <2> HIDE DEF N, Z
  <2>3. SumOver(N, B) = SumOver(Z, B) + (-1) * SumOver(F, B)
    BY <1>1, <2>1, SumsAdd
  <2>4. SumOver(Z, B) = 0
    BY <1>1, <2>1, SumOfZeros
  <2>5. SumOver(N, B) <= 0 /\ SumOver(F, B) \in Int
    BY <1>1, <1>7, <2>2, SumNotPositive, SumIsInt
  <2>6. 2 * zeph \in Int /\ \A l \in B : Z[l] \in Int /\ F[l] \in Int /\ G[l] = Z[l] + (2 * zeph) * F[l]
    BY <1>4, <1>7, <2>1
  <2>7. SumOver(G, B) = SumOver(Z, B) + (2 * zeph) * SumOver(F, B)
    BY <1>1, <2>6, SumsAdd
  <2>8. (2 * zeph) * SumOver(F, B) \in Int
    BY <2>5
  <2> QED
    BY <2>3, <2>4, <2>5, <2>7, <2>8
<1> DEFINE s == SumOver(F, B)
           t == SumOver(f, B)
<1>11. s \in Int /\ s >= 0 /\ t \in Int /\ t <= need /\ (2 * zeph) * s + (-200) * t <= zeph
  BY <1>6, <1>9, <1>10
<1> HIDE DEF s, t
<1>12. 2 * zeph * s <= 200 * need + zeph
  BY <1>11
<1> QED
  BY <1>8, <1>11, <1>12 DEF s

\* What a trade of an exact input gives: nothing, or what the levels give less the fee.
LEMMA TradeGives ==
    ASSUME NEW rq, NEW st, rq.amountIn > 0,
           NEW need, need = IF A!Sells(rq) THEN rq.amountIn ELSE 10 * rq.amountIn,
           NEW gross, gross = IF A!Sells(rq) THEN A!Rounded(A!ForZeph(rq, st, need), 1000)
                              ELSE A!ForCents(rq, st, need)
    PROVE  A!QuoteCexTrade(rq, st).amountOut \in {0, A!Rounded(gross * (10000 - st.takerBps), 10000)}
<1> DEFINE exact == rq.amountIn > 0
           amount == IF exact THEN rq.amountIn ELSE rq.amountOut
           byZeph == A!Sells(rq) = exact
           needs == IF byZeph THEN amount ELSE 10 * amount
           fills == IF byZeph THEN A!FilledAll(rq, st, needs, A!InZeph) ELSE A!FilledAll(rq, st, needs, A!InCents)
           other == IF byZeph THEN A!Rounded(A!ForZeph(rq, st, needs), 1000) ELSE A!ForCents(rq, st, needs)
           whole == IF exact THEN other ELSE amount
           nets == A!Rounded(whole * (10000 - st.takerBps), 10000)
<1>1. A!QuoteCexTrade(rq, st) =
        IF ~st.hasCex \/ {rq.from, rq.to} # A!CexMarket \/ fills < needs
        THEN A!Quote(rq.amountIn, 0, 0, 0, FALSE)
        ELSE A!Quote(IF exact THEN amount ELSE other, whole, nets, whole - nets,
                     A!TradeEnabled(rq, st) /\ nets > 0)
  BY DEF A!QuoteCexTrade
<1>2. exact /\ A!Sells(rq) \in BOOLEAN
  BY DEF A!Sells
<1>3. amount = rq.amountIn
  BY <1>2
<1>4. byZeph <=> A!Sells(rq)
  BY <1>2
<1> HIDE DEF amount, byZeph
<1>5. needs = need
  BY <1>3, <1>4
<1> HIDE DEF needs
<1>6. other = gross
  BY <1>4, <1>5
<1> HIDE DEF other
<1>7. whole = gross
  BY <1>2, <1>6
<1> HIDE DEF whole
<1>8. nets = A!Rounded(gross * (10000 - st.takerBps), 10000)
  BY <1>7
<1> HIDE DEF nets, fills, exact
<1> QED
  BY <1>1, <1>8 DEF A!Quote

\* A trade sells into bids no dearer than the price and buys from asks no cheaper, less a fee
\* (pathing/quoting/cex.ts).
LEMMA TradeIsFair ==
    ASSUME NEW st, A!IsMarket(st), st.hasReserve, PricesAgree(st), IsSide(st.bids), IsSide(st.asks),
           st.takerBps \in Nat, NEW h, h.op = "tradeCEX",
           A!ContextAvailable(h.op, h.from, h.to, st), NEW in \in Nat, in > 0
    PROVE  Fair(h, in, Quoted(h, in, st), st)
<1> DEFINE rq == A!Request(h.op, h.from, h.to, in, 0)
           sells == A!Sells(rq)
           need == IF sells THEN in ELSE 10 * in
           gross == IF sells THEN A!Rounded(A!ForZeph(rq, st, need), 1000) ELSE A!ForCents(rq, st, need)
           net == A!Rounded(gross * (10000 - st.takerBps), 10000)
           out == Quoted(h, in, st)
           z == A!Asset("ZEPH", "x")
           u == A!Asset("USDT", "x")
           zeph == A!SpotUsd("ZEPH", st.reserve.rates)
<1>1. /\ rq.op = "tradeCEX" /\ rq.from = h.from /\ rq.to = h.to /\ rq.amountIn = in /\ rq.amountOut = 0
  BY DEF A!Request
<1>2. out \in {0, net}
  <2>1. out = A!QuoteCexTrade(rq, st).amountOut
    BY <1>1 DEF A!InvokeQuoter, Quoted
  <2>2. rq.amountIn > 0 /\ sells \in BOOLEAN
    BY <1>1 DEF A!Sells
  <2>3. A!QuoteCexTrade(rq, st).amountOut \in {0, net}
    <3>1. rq.amountIn = in /\ rq.amountIn > 0
      BY <1>1
    <3> HIDE DEF rq
    <3> QED
      BY <3>1, TradeGives
  <2> QED
    BY <2>1, <2>3
<1>3. {h.from, h.to} = {z, u}
  BY DEF A!ContextAvailable, A!CexMarket
<1>4. z # u /\ z[1] = "ZEPH" /\ u[1] = "USDT" /\ "ZEPH" \in A!Coins
  BY DEF A!Asset, A!Coins
<1>5. sells <=> h.from = z
  BY <1>1 DEF A!Sells
<1>6. zeph \in Nat /\ Usd(z, st) = zeph /\ Usd(u, st) = 100
  <2>1. Usd(z, st) = A!SpotUsd(z[1], st.reserve.rates) /\ Usd(z, st) \in Nat /\ Usd(u, st) = 100
    BY <1>4, PriceIs
  <2> QED
    BY <1>4, <2>1
<1>7. A!Units(z) = 100 /\ A!Units(u) = 10
  BY <1>4 DEF A!Units
<1>8. UnitOf(z, st) = 10 * zeph /\ UnitOf(u, st) = 10000
  <2>1. 1000 \div 100 = 10 /\ 1000 \div 10 = 100
    OBVIOUS
  <2> QED
    BY <1>6, <1>7, <2>1 DEF UnitOf
<1>9. (\A l \in st.bids : l.price <= zeph) /\ (\A l \in st.asks : zeph <= l.price)
  BY Zenon DEF PricesAgree
<1>10. need \in Nat
  OBVIOUS
<1>11. ASSUME gross \in Nat
       PROVE  out \in Int /\ out <= gross
  <2> DEFINE t == st.takerBps
             n == gross * (10000 - t)
             num == 2 * n + 10000
             q == num \div 20000
  <2>1. t \in Nat
    OBVIOUS
  <2> HIDE DEF gross, t
  <2>2. n \in Int /\ n <= gross * 10000
    BY <1>11, <2>1
  <2>3. net = q
    <3>1. 2 * 10000 = 20000
      OBVIOUS
    <3> QED
      BY <3>1 DEF A!Rounded, t
  <2> HIDE DEF n, net
  <2>4. num \in Int /\ num <= 20000 * gross + 10000
    BY <1>11, <2>2
  <2> HIDE DEF num
  <2>5. q \in Int /\ 20000 * q <= num
    BY <2>4
  <2> HIDE DEF q
  <2>6. q <= gross
    BY <1>11, <2>4, <2>5
  <2> HIDE DEF out
  <2> QED
    BY <1>2, <1>11, <2>3, <2>5, <2>6
<1>12. CASE h.from = z
  <2>1. h.to = u /\ sells /\ need = in /\ A!BookSide(rq, st) = st.bids
    BY <1>3, <1>4, <1>5, <1>12 DEF A!BookSide
  <2> DEFINE worth == A!ForZeph(rq, st, need)
  <2>2. worth \in Nat /\ worth <= zeph * need
    BY <1>6, <1>9, <1>10, <2>1, SoldForLess
  <2>3. gross = A!Rounded(worth, 1000)
    BY <2>1
  <2> HIDE DEF worth, gross
  <2>4. gross \in Nat /\ 2000 * gross <= 2 * worth + 1000
    <3> DEFINE d == 1000
    <3>1. d \in Nat /\ d > 0
      OBVIOUS
    <3> HIDE DEF d
    <3>2. A!Rounded(worth, d) \in Nat /\ (2 * d) * A!Rounded(worth, d) <= 2 * worth + d
      BY <2>2, <3>1, RoundedIsNear
    <3> QED
      BY <2>3, <3>2 DEF d
  <2>5. out \in Int /\ out <= gross
    BY <1>11, <2>4
  <2> HIDE DEF need, out
  <2>6. 2 * (out * 10000) <= 2 * (in * (10 * zeph)) + 10000
    <3>1. worth <= zeph * in /\ zeph * in \in Nat
      BY <1>6, <2>1, <2>2
    <3>2. in * (10 * zeph) = 10 * (zeph * in)
      BY <1>6
    <3> DEFINE w == zeph * in
    <3>3. w \in Nat /\ worth <= w /\ in * (10 * zeph) = 10 * w
      BY <3>1, <3>2
    <3> HIDE DEF w
    <3> QED
      BY <2>2, <2>4, <2>5, <3>3
  <2>7. Usd(h.from, st) \in Nat /\ Usd(h.to, st) \in Nat
    BY <1>6, <1>12, <2>1
  <2> HIDE DEF z, u, zeph
  <2> QED
    BY <1>8, <1>12, <2>1, <2>5, <2>6, <2>7 DEF Fair, out
<1>13. CASE h.from # z
  <2>1. h.from = u /\ h.to = z /\ ~sells /\ need = 10 * in /\ A!BookSide(rq, st) = st.asks
    BY <1>3, <1>4, <1>5, <1>13 DEF A!BookSide
  <2> DEFINE bought == A!ForCents(rq, st, need)
  <2>2. bought \in Nat /\ 2 * zeph * bought <= 200 * need + zeph
    BY <1>6, <1>9, <1>10, <2>1, BoughtForMore
  <2>3. gross = bought
    BY <2>1
  <2> HIDE DEF bought, gross
  <2>5. out \in Int /\ out <= bought
    BY <1>11, <2>2, <2>3
  <2> HIDE DEF need, out
  <2>6. 2 * (out * (10 * zeph)) <= 2 * (in * 10000) + 10 * zeph
    <3>1. zeph * out <= zeph * bought
      BY <1>6, <2>2, <2>5
    <3> DEFINE x == zeph * out
               y == zeph * bought
    <3>2. x \in Int /\ y \in Int /\ x <= y /\ 2 * (out * (10 * zeph)) = 20 * x /\ 2 * zeph * bought = 2 * y
      BY <1>6, <2>2, <2>5, <3>1
    <3> HIDE DEF x, y
    <3>3. 2 * y <= 2000 * in + zeph
      BY <2>1, <2>2, <3>2
    <3> QED
      BY <1>6, <3>2, <3>3
  <2>7. Usd(h.from, st) \in Nat /\ Usd(h.to, st) \in Nat
    BY <1>6, <2>1
  <2> HIDE DEF z, u, zeph
  <2> QED
    BY <1>8, <2>1, <2>5, <2>6, <2>7 DEF Fair, out
<1> QED
  BY <1>12, <1>13

-----------------------------------------------------------------------------
(***************************************************************************)
(* The hops there are.                                                     *)
(***************************************************************************)
\* A hop leads elsewhere; a transfer keeps the coin, and a withdrawal counts it no more coarsely.
SoundHop(h) ==
    /\ h.from # h.to
    /\ h.op \in {"wrap", "unwrap", "nativeMint", "nativeRedeem", "swapEVM", "tradeCEX", "deposit", "withdraw"}
    /\ h.op \in {"deposit", "withdraw"} => h.to[1] = h.from[1] /\ h.from[1] \in {"ZEPH", "USDT"}
    /\ h.op = "withdraw" => A!Units(h.from) <= A!Units(h.to)

\* All of a list.
LEMMA FourListed ==
    ASSUME NEW from, NEW a, NEW b, NEW c, NEW d,
           \A e \in {a, b, c, d} : SoundHop(A!Hop(from, e[2], e[1]))
    PROVE  \A s \in A!Listed(from, <<a, b, c, d>>) : SoundHop(s.hop)
<1> DEFINE list == <<a, b, c, d>>
<1> SUFFICES ASSUME NEW s \in A!Listed(from, list)
             PROVE  SoundHop(s.hop)
  OBVIOUS
<1>1. DOMAIN list = {1, 2, 3, 4} /\ \A i \in {1, 2, 3, 4} : list[i] \in {a, b, c, d}
  OBVIOUS
<1> HIDE DEF list
<1>2. PICK i \in DOMAIN list : s = [hop |-> A!Hop(from, list[i][2], list[i][1]), rank |-> i]
  BY DEF A!Listed
<1>3. s.hop = A!Hop(from, list[i][2], list[i][1])
  BY <1>2
<1> QED
  BY <1>1, <1>3

\* The hops of a list are sound where each of its entries gives a sound hop.
LEMMA ThreeListed ==
    ASSUME NEW from, NEW a, NEW b, NEW c,
           \A e \in {a, b, c} : SoundHop(A!Hop(from, e[2], e[1]))
    PROVE  \A s \in A!Listed(from, <<a, b, c>>) : SoundHop(s.hop)
<1> DEFINE list == <<a, b, c>>
<1> SUFFICES ASSUME NEW s \in A!Listed(from, list)
             PROVE  SoundHop(s.hop)
  OBVIOUS
<1>1. DOMAIN list = {1, 2, 3} /\ \A i \in {1, 2, 3} : list[i] \in {a, b, c}
  OBVIOUS
<1> HIDE DEF list
<1>2. PICK i \in DOMAIN list : s = [hop |-> A!Hop(from, list[i][2], list[i][1]), rank |-> i]
  BY DEF A!Listed
<1>3. s.hop = A!Hop(from, list[i][2], list[i][1])
  BY <1>2
<1> QED
  BY <1>1, <1>3

LEMMA TwoListed ==
    ASSUME NEW from, NEW a, NEW b,
           \A e \in {a, b} : SoundHop(A!Hop(from, e[2], e[1]))
    PROVE  \A s \in A!Listed(from, <<a, b>>) : SoundHop(s.hop)
<1> DEFINE list == <<a, b>>
<1> SUFFICES ASSUME NEW s \in A!Listed(from, list)
             PROVE  SoundHop(s.hop)
  OBVIOUS
<1>1. DOMAIN list = {1, 2} /\ \A i \in {1, 2} : list[i] \in {a, b}
  OBVIOUS
<1> HIDE DEF list
<1>2. PICK i \in DOMAIN list : s = [hop |-> A!Hop(from, list[i][2], list[i][1]), rank |-> i]
  BY DEF A!Listed
<1>3. s.hop = A!Hop(from, list[i][2], list[i][1])
  BY <1>2
<1> QED
  BY <1>1, <1>3

LEMMA OneListed ==
    ASSUME NEW from, NEW a, SoundHop(A!Hop(from, a[2], a[1]))
    PROVE  \A s \in A!Listed(from, <<a>>) : SoundHop(s.hop)
<1> DEFINE list == <<a>>
<1> SUFFICES ASSUME NEW s \in A!Listed(from, list)
             PROVE  SoundHop(s.hop)
  OBVIOUS
<1>1. DOMAIN list = {1} /\ list[1] = a
  OBVIOUS
<1> HIDE DEF list
<1>2. PICK i \in DOMAIN list : s = [hop |-> A!Hop(from, list[i][2], list[i][1]), rank |-> i]
  BY DEF A!Listed
<1>3. s.hop = A!Hop(from, list[i][2], list[i][1])
  BY <1>2
<1> QED
  BY <1>1, <1>3

\* By the coins, the places and the operation of a hop.
LEMMA HopIsSound ==
    ASSUME NEW c, NEW p, NEW d, NEW q,
           NEW kind \in {"wrap", "unwrap", "nativeMint", "nativeRedeem",
                         "swapEVM", "tradeCEX", "deposit", "withdraw"},
           c # d \/ p # q,
           kind \in {"deposit", "withdraw"} => d = c /\ c \in {"ZEPH", "USDT"},
           kind = "withdraw" => c = "USDT" \/ q # "x"
    PROVE  SoundHop(A!Hop(A!Asset(c, p), A!Asset(d, q), kind))
<1> DEFINE f == A!Asset(c, p)
           t == A!Asset(d, q)
           h == A!Hop(f, t, kind)
<1>1. h.from = f /\ h.to = t /\ h.op = kind
  BY DEF A!Hop
<1>2. f[1] = c /\ f[2] = p /\ t[1] = d /\ t[2] = q /\ A!Asset("ZEPH", "x")[2] = "x"
  BY DEF A!Asset
<1>3. kind = "withdraw" => A!Units(f) <= A!Units(t)
  <2> SUFFICES ASSUME kind = "withdraw"
               PROVE  A!Units(f) <= A!Units(t)
    OBVIOUS
  <2>1. d = c /\ c \in {"ZEPH", "USDT"}
    OBVIOUS
  <2> HIDE DEF f, t
  <2>2. CASE c = "USDT"
    <3>0. A!Asset("ZEPH", "x")[1] = "ZEPH"
      BY DEF A!Asset
    <3>1. A!Units(f) = 10 /\ A!Units(t) = 10
      BY <1>2, <2>1, <2>2, <3>0 DEF A!Units
    <3> QED
      BY <3>1
  <2>3. CASE c # "USDT"
    <3>1. A!Units(t) = 1000
      <4>1. t # A!Asset("ZEPH", "x") /\ t[1] # "USDT"
        BY <1>2, <2>1, <2>3
      <4> QED
        BY <4>1 DEF A!Units
    <3>2. A!Units(f) \in {10, 100, 1000}
      BY UnitsArePositive
    <3> QED
      BY <3>1, <3>2
  <2> QED
    BY <2>2, <2>3
<1>4. f # t
  BY <1>2
<1> HIDE DEF f, t, h
<1>5. SoundHop(h)
  BY <1>1, <1>2, <1>3, <1>4 DEF SoundHop
<1> QED
  BY <1>5 DEF h, f, t

\* All hops of the graph are sound (pathing/graph.ts).
LEMMA HopsAreSound == \A h \in A!Hops : SoundHop(h)
<1>a. A!Ether = A!Asset("ETH", "e") /\ \A p : A!Usdt(p) = A!Asset("USDT", p)
  BY DEF A!Ether, A!Usdt
<1>1. \A s \in A!Listed(A!Asset("ZEPH", "n"),
              <<<<"wrap", A!Asset("ZEPH", "e")>>, <<"deposit", A!Asset("ZEPH", "x")>>,
                <<"nativeMint", A!Asset("ZSD", "n")>>, <<"nativeMint", A!Asset("ZRS", "n")>>>>) : SoundHop(s.hop)
  <2>1. SoundHop(A!Hop(A!Asset("ZEPH", "n"), A!Asset("ZEPH", "e"), "wrap"))
    BY <1>a, HopIsSound
  <2>2. SoundHop(A!Hop(A!Asset("ZEPH", "n"), A!Asset("ZEPH", "x"), "deposit"))
    BY <1>a, HopIsSound
  <2>3. SoundHop(A!Hop(A!Asset("ZEPH", "n"), A!Asset("ZSD", "n"), "nativeMint"))
    BY <1>a, HopIsSound
  <2>4. SoundHop(A!Hop(A!Asset("ZEPH", "n"), A!Asset("ZRS", "n"), "nativeMint"))
    BY <1>a, HopIsSound
  <2> QED
    BY <2>1, <2>2, <2>3, <2>4, FourListed
<1>2. \A s \in A!Listed(A!Asset("ZSD", "n"),
              <<<<"wrap", A!Asset("ZSD", "e")>>, <<"nativeRedeem", A!Asset("ZEPH", "n")>>,
                <<"nativeMint", A!Asset("ZYS", "n")>>>>) : SoundHop(s.hop)
  <2>1. SoundHop(A!Hop(A!Asset("ZSD", "n"), A!Asset("ZSD", "e"), "wrap"))
    BY <1>a, HopIsSound
  <2>2. SoundHop(A!Hop(A!Asset("ZSD", "n"), A!Asset("ZEPH", "n"), "nativeRedeem"))
    BY <1>a, HopIsSound
  <2>3. SoundHop(A!Hop(A!Asset("ZSD", "n"), A!Asset("ZYS", "n"), "nativeMint"))
    BY <1>a, HopIsSound
  <2> QED
    BY <2>1, <2>2, <2>3, ThreeListed
<1>3. \A s \in A!Listed(A!Asset("ZRS", "n"),
              <<<<"wrap", A!Asset("ZRS", "e")>>, <<"nativeRedeem", A!Asset("ZEPH", "n")>>>>) : SoundHop(s.hop)
  <2>1. SoundHop(A!Hop(A!Asset("ZRS", "n"), A!Asset("ZRS", "e"), "wrap"))
    BY <1>a, HopIsSound
  <2>2. SoundHop(A!Hop(A!Asset("ZRS", "n"), A!Asset("ZEPH", "n"), "nativeRedeem"))
    BY <1>a, HopIsSound
  <2> QED
    BY <2>1, <2>2, TwoListed
<1>4. \A s \in A!Listed(A!Asset("ZYS", "n"),
              <<<<"wrap", A!Asset("ZYS", "e")>>, <<"nativeRedeem", A!Asset("ZSD", "n")>>>>) : SoundHop(s.hop)
  <2>1. SoundHop(A!Hop(A!Asset("ZYS", "n"), A!Asset("ZYS", "e"), "wrap"))
    BY <1>a, HopIsSound
  <2>2. SoundHop(A!Hop(A!Asset("ZYS", "n"), A!Asset("ZSD", "n"), "nativeRedeem"))
    BY <1>a, HopIsSound
  <2> QED
    BY <2>1, <2>2, TwoListed
<1>5. \A s \in A!Listed(A!Asset("ZEPH", "e"),
              <<<<"swapEVM", A!Asset("ZSD", "e")>>, <<"swapEVM", A!Asset("ZRS", "e")>>,
                <<"unwrap", A!Asset("ZEPH", "n")>>>>) : SoundHop(s.hop)
  <2>1. SoundHop(A!Hop(A!Asset("ZEPH", "e"), A!Asset("ZSD", "e"), "swapEVM"))
    BY <1>a, HopIsSound
  <2>2. SoundHop(A!Hop(A!Asset("ZEPH", "e"), A!Asset("ZRS", "e"), "swapEVM"))
    BY <1>a, HopIsSound
  <2>3. SoundHop(A!Hop(A!Asset("ZEPH", "e"), A!Asset("ZEPH", "n"), "unwrap"))
    BY <1>a, HopIsSound
  <2> QED
    BY <2>1, <2>2, <2>3, ThreeListed
<1>6. \A s \in A!Listed(A!Asset("ZSD", "e"),
              <<<<"swapEVM", A!Usdt("e")>>, <<"swapEVM", A!Asset("ZEPH", "e")>>,
                <<"swapEVM", A!Asset("ZYS", "e")>>, <<"unwrap", A!Asset("ZSD", "n")>>>>) : SoundHop(s.hop)
  <2>1. SoundHop(A!Hop(A!Asset("ZSD", "e"), A!Usdt("e"), "swapEVM"))
    BY <1>a, HopIsSound
  <2>2. SoundHop(A!Hop(A!Asset("ZSD", "e"), A!Asset("ZEPH", "e"), "swapEVM"))
    BY <1>a, HopIsSound
  <2>3. SoundHop(A!Hop(A!Asset("ZSD", "e"), A!Asset("ZYS", "e"), "swapEVM"))
    BY <1>a, HopIsSound
  <2>4. SoundHop(A!Hop(A!Asset("ZSD", "e"), A!Asset("ZSD", "n"), "unwrap"))
    BY <1>a, HopIsSound
  <2> QED
    BY <2>1, <2>2, <2>3, <2>4, FourListed
<1>7. \A s \in A!Listed(A!Asset("ZRS", "e"),
              <<<<"swapEVM", A!Asset("ZEPH", "e")>>, <<"unwrap", A!Asset("ZRS", "n")>>>>) : SoundHop(s.hop)
  <2>1. SoundHop(A!Hop(A!Asset("ZRS", "e"), A!Asset("ZEPH", "e"), "swapEVM"))
    BY <1>a, HopIsSound
  <2>2. SoundHop(A!Hop(A!Asset("ZRS", "e"), A!Asset("ZRS", "n"), "unwrap"))
    BY <1>a, HopIsSound
  <2> QED
    BY <2>1, <2>2, TwoListed
<1>8. \A s \in A!Listed(A!Asset("ZYS", "e"),
              <<<<"swapEVM", A!Asset("ZSD", "e")>>, <<"unwrap", A!Asset("ZYS", "n")>>>>) : SoundHop(s.hop)
  <2>1. SoundHop(A!Hop(A!Asset("ZYS", "e"), A!Asset("ZSD", "e"), "swapEVM"))
    BY <1>a, HopIsSound
  <2>2. SoundHop(A!Hop(A!Asset("ZYS", "e"), A!Asset("ZYS", "n"), "unwrap"))
    BY <1>a, HopIsSound
  <2> QED
    BY <2>1, <2>2, TwoListed
<1>9. \A s \in A!Listed(A!Usdt("e"),
              <<<<"swapEVM", A!Asset("ZSD", "e")>>, <<"swapEVM", A!Ether>>,
                <<"deposit", A!Usdt("x")>>>>) : SoundHop(s.hop)
  <2>1. SoundHop(A!Hop(A!Usdt("e"), A!Asset("ZSD", "e"), "swapEVM"))
    BY <1>a, HopIsSound
  <2>2. SoundHop(A!Hop(A!Usdt("e"), A!Ether, "swapEVM"))
    BY <1>a, HopIsSound
  <2>3. SoundHop(A!Hop(A!Usdt("e"), A!Usdt("x"), "deposit"))
    BY <1>a, HopIsSound
  <2> QED
    BY <2>1, <2>2, <2>3, ThreeListed
<1>10. \A s \in A!Listed(A!Ether, <<<<"swapEVM", A!Usdt("e")>>>>) : SoundHop(s.hop)
  <2>1. SoundHop(A!Hop(A!Ether, A!Usdt("e"), "swapEVM"))
    BY <1>a, HopIsSound
  <2> QED
    BY <2>1, OneListed
<1>11. \A s \in A!Listed(A!Asset("ZEPH", "x"),
              <<<<"tradeCEX", A!Usdt("x")>>, <<"withdraw", A!Asset("ZEPH", "n")>>>>) : SoundHop(s.hop)
  <2>1. SoundHop(A!Hop(A!Asset("ZEPH", "x"), A!Usdt("x"), "tradeCEX"))
    BY <1>a, HopIsSound
  <2>2. SoundHop(A!Hop(A!Asset("ZEPH", "x"), A!Asset("ZEPH", "n"), "withdraw"))
    BY <1>a, HopIsSound
  <2> QED
    BY <2>1, <2>2, TwoListed
<1>12. \A s \in A!Listed(A!Usdt("x"),
              <<<<"tradeCEX", A!Asset("ZEPH", "x")>>, <<"withdraw", A!Usdt("e")>>>>) : SoundHop(s.hop)
  <2>1. SoundHop(A!Hop(A!Usdt("x"), A!Asset("ZEPH", "x"), "tradeCEX"))
    BY <1>a, HopIsSound
  <2>2. SoundHop(A!Hop(A!Usdt("x"), A!Usdt("e"), "withdraw"))
    BY <1>a, HopIsSound
  <2> QED
    BY <2>1, <2>2, TwoListed
<1>13. \A s \in A!AssetSteps : SoundHop(s.hop)
  BY <1>1, <1>2, <1>3, <1>4, <1>5, <1>6, <1>7, <1>8, <1>9, <1>10, <1>11, <1>12 DEF A!AssetSteps
<1> QED
  BY <1>13 DEF A!Hops

-----------------------------------------------------------------------------
(***************************************************************************)
(* A hop of a path, and the hops one after the other.                      *)
(***************************************************************************)
\* Markets whose prices agree.
PathMarket(st) ==
    /\ A!IsMarket(st) /\ st.hasReserve /\ PricesAgree(st)
    /\ IsSide(st.bids) /\ IsSide(st.asks) /\ st.takerBps \in Nat
    /\ \A a \in {"ZEPH", "USDT"} : st.withdrawFee[a] \in Nat

\* Whatever the operation of a hop, it makes no value.
LEMMA QuotedIsFair ==
    ASSUME NEW st, PathMarket(st), NEW h \in A!Hops, A!ContextAvailable(h.op, h.from, h.to, st),
           NEW in \in Int, in > 0
    PROVE  Fair(h, in, Quoted(h, in, st), st)
<1>1. SoundHop(h)
  BY HopsAreSound
<1>2. /\ A!IsMarket(st) /\ st.hasReserve /\ PricesAgree(st) /\ IsSide(st.bids) /\ IsSide(st.asks)
      /\ st.takerBps \in Nat /\ \A a \in {"ZEPH", "USDT"} : st.withdrawFee[a] \in Nat
  BY Zenon DEF PathMarket
<1>3. in \in Nat
  OBVIOUS
<1>4. CASE h.op \in {"wrap", "unwrap"}
  BY <1>2, <1>3, <1>4, BridgeIsFair
<1>5. CASE h.op \in {"nativeMint", "nativeRedeem"}
  BY <1>2, <1>3, <1>5, ConversionIsFair
<1>6. CASE h.op = "swapEVM"
  BY <1>2, <1>3, <1>6, SwapIsFair
<1>7. CASE h.op = "tradeCEX"
  BY <1>2, <1>3, <1>7, TradeIsFair
<1>8. CASE h.op = "deposit"
  <2>1. h.to[1] = h.from[1] /\ h.from[1] \in A!Coins \cup {"USDT"}
    BY <1>1, <1>8 DEF SoundHop, A!Coins
  <2> QED
    BY <1>2, <1>3, <1>8, <2>1, DepositIsFair
<1>9. CASE h.op = "withdraw"
  <2>1. h.to[1] = h.from[1] /\ h.from[1] \in {"ZEPH", "USDT"} /\ A!Units(h.from) <= A!Units(h.to)
    BY <1>1, <1>9 DEF SoundHop
  <2> QED
    BY <1>2, <1>3, <1>9, <2>1, WithdrawalIsFair
<1> QED
  BY <1>1, <1>4, <1>5, <1>6, <1>7, <1>8, <1>9 DEF SoundHop

\* A hop that gives something was given something, and gives no more at the prices but for half a unit.
StepIs(e, h, in, st) ==
    /\ e.hop = h /\ e.amountIn = in /\ e.amountOut \in Int
    /\ e.amountOut > 0 => in > 0 /\ Fair(h, in, e.amountOut, st)

\* An evaluated hop is such a step (evaluateStep).
LEMMA StepIsFair ==
    ASSUME NEW st, PathMarket(st), NEW h \in A!Hops, NEW in \in Int
    PROVE  StepIs(A!EvaluateStep(h, in, st), h, in, st)
<1> DEFINE e == A!EvaluateStep(h, in, st)
           can == A!ContextAvailable(h.op, h.from, h.to, st)
           quote == A!InvokeQuoter(A!Request(h.op, h.from, h.to, in, 0), st)
<1>1. e.hop = h /\ e.amountIn = in /\ e.amountOut = (IF in > 0 /\ can THEN quote ELSE A!NoQuote).amountOut
  BY DEF A!EvaluateStep, A!Evaluation
<1>2. quote.amountOut = Quoted(h, in, st)
  BY DEF Quoted
<1> HIDE DEF e, can, quote
<1>3. CASE in > 0 /\ can
  <2>1. e.amountOut = Quoted(h, in, st)
    BY <1>1, <1>2, <1>3
  <2>2. Fair(h, in, Quoted(h, in, st), st)
    BY <1>3, QuotedIsFair DEF can
  <2>3. Quoted(h, in, st) \in Int
    BY <2>2 DEF Fair
  <2>4. StepIs(e, h, in, st)
    BY <1>1, <1>3, <2>1, <2>2, <2>3 DEF StepIs
  <2> QED
    BY <2>4 DEF e
<1>4. CASE ~(in > 0 /\ can)
  <2>1. e.amountOut = -1
    BY <1>1, <1>4 DEF A!NoQuote, A!Quote, A!None
  <2>2. StepIs(e, h, in, st)
    BY <1>1, <2>1 DEF StepIs
  <2> QED
    BY <2>2 DEF e
<1> QED
  BY <1>3, <1>4

\* The first n hops of a path, each with what the one before gives.
HopsFollow(g, path, in, st, n) ==
    g = [i \in 1..n |-> A!EvaluateStep(path[i], IF i = 1 THEN in ELSE g[i - 1].amountOut, st)]

\* There is such a sequence, however long the path.
LEMMA HopsAreThere ==
    ASSUME NEW path, NEW in, NEW st, NEW n \in Nat
    PROVE  \E g : HopsFollow(g, path, in, st, n)
<1> DEFINE S == {m \in Nat : \E g : HopsFollow(g, path, in, st, m)}
<1>1. 0 \in S
  <2> DEFINE g == [i \in 1..0 |-> in]
  <2>1. HopsFollow(g, path, in, st, 0)
    BY DEF HopsFollow
  <2> QED
    BY <2>1
<1>2. ASSUME NEW m \in Nat, m \in S
      PROVE  m + 1 \in S
  <2>1. PICK g : HopsFollow(g, path, in, st, m)
    BY <1>2
  <2> DEFINE Step(i, f) == A!EvaluateStep(path[i], IF i = 1 THEN in ELSE f[i - 1].amountOut, st)
             f == [i \in 1..m + 1 |-> IF i = m + 1 THEN Step(i, g) ELSE g[i]]
  <2>2. \A i \in 1..m : g[i] = Step(i, g)
    <3>1. g = [i \in 1..m |-> Step(i, g)]
      BY <2>1 DEF HopsFollow
    <3> HIDE DEF Step
    <3> QED
      BY <3>1
  <2>3. \A i \in 1..m + 1 : (i = 1 \/ i - 1 \in 1..m) /\ (i = m + 1 \/ i \in 1..m)
    OBVIOUS
  <2>4. /\ \A i \in 1..m : f[i] = g[i]
        /\ \A i \in 1..m + 1 : f[i] = Step(i, g)
    <3> HIDE DEF Step
    <3>1. \A i \in 1..m + 1 : f[i] = IF i = m + 1 THEN Step(i, g) ELSE g[i]
      OBVIOUS
    <3> HIDE DEF f
    <3>2. \A i \in 1..m : i \in 1..m + 1 /\ i # m + 1
      OBVIOUS
    <3> QED
      BY <2>2, <2>3, <3>1, <3>2
  <2>5. f = [i \in 1..m + 1 |-> f[i]]
    <3> HIDE DEF Step
    <3> QED
      OBVIOUS
  <2> HIDE DEF f
  <2>6. \A i \in 1..m + 1 : Step(i, g) = Step(i, f)
    <3> TAKE i \in 1..m + 1
    <3>1. CASE i = 1
      BY <3>1
    <3>2. CASE i # 1
      <4>1. f[i - 1] = g[i - 1]
        BY <2>3, <2>4, <3>2
      <4> QED
        BY <3>2, <4>1
    <3> QED
      BY <3>1, <3>2
  <2>7. \A i \in 1..m + 1 : f[i] = Step(i, f)
    <3> HIDE DEF Step
    <3> QED
      BY <2>4, <2>6
  <2>8. f = [i \in 1..m + 1 |-> Step(i, f)]
    <3> HIDE DEF Step
    <3> QED
      BY <2>5, <2>7
  <2>9. HopsFollow(f, path, in, st, m + 1)
    BY <2>8 DEF HopsFollow
  <2> QED
    BY <2>9
<1> HIDE DEF S
<1>3. Nat \subseteq S
  BY <1>1, <1>2, Inductively
<1> QED
  BY <1>3 DEF S

\* Every hop of an evaluated path.
HopsGo(hops, path, st) ==
    /\ DOMAIN hops = DOMAIN path
    /\ \A i \in DOMAIN path : /\ hops[i].hop = path[i] /\ hops[i].amountIn \in Int
                              /\ StepIs(hops[i], path[i], hops[i].amountIn, st)
                              /\ i > 1 => hops[i].amountIn = hops[i - 1].amountOut

\* The evaluation of a path is such a sequence.
LEMMA EvaluatedGoes ==
    ASSUME NEW st, PathMarket(st), NEW path \in Seq(A!Hops), NEW in \in Int
    PROVE  HopsGo(A!Evaluated(path, in, st), path, st)
<1> DEFINE n == Len(path)
           Body(g) == [i \in DOMAIN path |-> A!EvaluateStep(path[i], IF i = 1 THEN in ELSE g[i - 1].amountOut, st)]
           hops == CHOOSE g : g = Body(g)
           Step(i) == A!EvaluateStep(path[i], IF i = 1 THEN in ELSE hops[i - 1].amountOut, st)
<1>1. A!Evaluated(path, in, st) = hops
  BY DEF A!Evaluated
<1>2. n \in Nat /\ DOMAIN path = 1..n
  OBVIOUS
<1>3. \A i \in 1..n : path[i] \in A!Hops
  OBVIOUS
<1> HIDE DEF n
<1>4. \E g : g = Body(g)
  <2>1. PICK g : HopsFollow(g, path, in, st, n)
    BY <1>2, HopsAreThere
  <2>2. g = Body(g)
    BY <1>2, <2>1 DEF HopsFollow
  <2> QED
    BY <2>2
<1>5. hops = Body(hops)
  <2> HIDE DEF Body
  <2> QED
    BY <1>4
<1> HIDE DEF hops
<1>6. DOMAIN hops = 1..n /\ \A i \in 1..n : hops[i] = Step(i)
  <2>1. hops = [i \in 1..n |-> Step(i)]
    BY <1>2, <1>5
  <2> HIDE DEF Step, Body
  <2> QED
    BY <2>1
<1>7. \A i \in 1..n : \A x \in Int : StepIs(A!EvaluateStep(path[i], x, st), path[i], x, st)
  BY <1>3, StepIsFair
<1> DEFINE S == {m \in Nat : m + 1 \in 1..n => hops[m + 1].amountIn \in Int /\ hops[m + 1].amountOut \in Int}
<1>8. 0 \in S
  <2> SUFFICES ASSUME 1 \in 1..n
               PROVE  hops[1].amountIn \in Int /\ hops[1].amountOut \in Int
    OBVIOUS
  <2>1. hops[1] = A!EvaluateStep(path[1], in, st)
    BY <1>6
  <2>2. StepIs(hops[1], path[1], in, st)
    BY <1>7, <2>1
  <2> QED
    BY <2>2 DEF StepIs
<1>9. ASSUME NEW m \in Nat, m \in S
      PROVE  m + 1 \in S
  <2> SUFFICES ASSUME (m + 1) + 1 \in 1..n
               PROVE  hops[(m + 1) + 1].amountIn \in Int /\ hops[(m + 1) + 1].amountOut \in Int
    OBVIOUS
  <2> DEFINE j == (m + 1) + 1
             x == hops[m + 1].amountOut
  <2>1. j \in 1..n /\ j # 1 /\ j - 1 = m + 1 /\ m + 1 \in 1..n
    BY <1>2
  <2>2. hops[j] = A!EvaluateStep(path[j], x, st) /\ x \in Int
    <3>1. x \in Int
      BY <1>9, <2>1
    <3>2. hops[j] = Step(j)
      BY <1>6, <2>1
    <3> HIDE DEF j
    <3> QED
      BY <2>1, <3>1, <3>2
  <2> HIDE DEF j, x
  <2>3. StepIs(hops[j], path[j], x, st)
    BY <1>7, <2>1, <2>2
  <2>4. hops[j].amountIn \in Int /\ hops[j].amountOut \in Int
    BY <2>2, <2>3 DEF StepIs
  <2> QED
    BY <2>4 DEF j
<1> HIDE DEF S
<1>10. Nat \subseteq S
  BY <1>8, <1>9, Inductively
<1>11. \A i \in 1..n : hops[i].amountIn \in Int /\ hops[i].amountOut \in Int
  <2> TAKE i \in 1..n
  <2>1. i - 1 \in Nat /\ (i - 1) + 1 = i
    BY <1>2
  <2>2. i - 1 \in S
    BY <1>10, <2>1
  <2> QED
    BY <2>1, <2>2 DEF S
<1>12. ASSUME NEW i \in 1..n
       PROVE  /\ hops[i].hop = path[i] /\ hops[i].amountIn \in Int
              /\ StepIs(hops[i], path[i], hops[i].amountIn, st)
              /\ i > 1 => hops[i].amountIn = hops[i - 1].amountOut
  <2> DEFINE x == IF i = 1 THEN in ELSE hops[i - 1].amountOut
  <2>1. hops[i] = A!EvaluateStep(path[i], x, st)
    BY <1>6
  <2>2. x \in Int
    <3>1. i # 1 => i - 1 \in 1..n
      BY <1>2
    <3> QED
      BY <1>11, <3>1
  <2>3. i > 1 => x = hops[i - 1].amountOut
    OBVIOUS
  <2> HIDE DEF x
  <2>4. StepIs(hops[i], path[i], x, st)
    BY <1>7, <2>1, <2>2
  <2>5. hops[i].hop = path[i] /\ hops[i].amountIn = x
    BY <2>4 DEF StepIs
  <2> QED
    BY <2>2, <2>3, <2>4, <2>5
<1>13. HopsGo(hops, path, st)
  BY <1>2, <1>6, <1>12 DEF HopsGo
<1> QED
  BY <1>1, <1>13

-----------------------------------------------------------------------------
(***************************************************************************)
(* The search.                                                             *)
(***************************************************************************)
\* Walks that are one hop longer.
Longer(from, to, W) ==
    UNION {{Append(w, h) : h \in {g \in A!Hops : g.from = A!EndOf(from, w) /\ g.to \notin A!Visited(from, w)}}
           : w \in {v \in W : A!EndOf(from, v) # to}}

Lengthens(f, from, to, n) == f = [k \in 0..n |-> IF k = 0 THEN {<<>>} ELSE Longer(from, to, f[k - 1])]

\* There are walks of every length.
LEMMA WalksAreThere ==
    ASSUME NEW from, NEW to, NEW n \in Nat
    PROVE  \E f : Lengthens(f, from, to, n)
<1> DEFINE S == {m \in Nat : \E f : Lengthens(f, from, to, m)}
<1>1. 0 \in S
  <2> DEFINE f == [k \in 0..0 |-> {<<>>}]
  <2>1. f = [k \in 0..0 |-> IF k = 0 THEN {<<>>} ELSE Longer(from, to, f[k - 1])]
    OBVIOUS
  <2>2. Lengthens(f, from, to, 0)
    BY <2>1 DEF Lengthens
  <2> QED
    BY <2>2
<1>2. ASSUME NEW m \in Nat, m \in S
      PROVE  m + 1 \in S
  <2>1. PICK f : Lengthens(f, from, to, m)
    BY <1>2
  <2> DEFINE last == Longer(from, to, f[m])
             g == [k \in 0..m + 1 |-> IF k = m + 1 THEN last ELSE f[k]]
  <2>2. g = [k \in 0..m + 1 |-> g[k]] /\ g[m + 1] = last /\ \A k \in 0..m : g[k] = f[k]
    <3> HIDE DEF last
    <3> QED
      OBVIOUS
  <2>3. \A k \in 0..m : f[k] = IF k = 0 THEN {<<>>} ELSE Longer(from, to, f[k - 1])
    BY <2>1 DEF Lengthens
  <2> HIDE DEF g
  <2>4. ASSUME NEW k \in 0..m + 1
        PROVE  g[k] = IF k = 0 THEN {<<>>} ELSE Longer(from, to, g[k - 1])
    <3>1. CASE k = m + 1
      <4>1. k - 1 = m /\ m \in 0..m /\ k # 0
        BY <3>1
      <4>2. g[k] = last /\ g[k - 1] = f[m]
        BY <2>2, <3>1, <4>1, Zenon
      <4> QED
        BY <4>1, <4>2
    <3>2. CASE k # m + 1
      <4>1. k \in 0..m /\ (k # 0 => k - 1 \in 0..m)
        BY <3>2
      <4>2. g[k] = f[k] /\ (k # 0 => g[k - 1] = f[k - 1])
        BY <2>2, <4>1, Zenon
      <4> QED
        BY <2>3, <4>1, <4>2
    <3> QED
      BY <3>1, <3>2
  <2>5. Lengthens(g, from, to, m + 1)
    BY <2>2, <2>4 DEF Lengthens
  <2> QED
    BY <2>5
<1> HIDE DEF S
<1>3. Nat \subseteq S
  BY <1>1, <1>2, Inductively
<1> QED
  BY <1>3 DEF S

\* A walk: every hop leaves an asset of the walk, and no two lead to the same.
IsWalk(from, w) ==
    /\ w \in Seq(A!Hops)
    /\ \A i \in DOMAIN w : w[i].from \in A!Visited(from, w)
    /\ \A i, j \in DOMAIN w : w[i].to = w[j].to => i = j

\* A walk stays one when a hop to an asset it has not visited is appended.
LEMMA LongerIsWalk ==
    ASSUME NEW from, NEW w, IsWalk(from, w), NEW h \in A!Hops,
           h.from = A!EndOf(from, w), h.to \notin A!Visited(from, w)
    PROVE  IsWalk(from, Append(w, h))
<1> DEFINE v == Append(w, h)
           n == Len(w)
<1>1. w \in Seq(A!Hops)
  BY DEF IsWalk
<1>2. /\ n \in Nat /\ DOMAIN w = 1..n /\ DOMAIN v = 1..(n + 1) /\ v \in Seq(A!Hops)
      /\ v[n + 1] = h /\ \A i \in 1..n : v[i] = w[i]
  BY <1>1
<1>3. A!EndOf(from, w) \in A!Visited(from, w)
  <2>1. CASE w = <<>>
    BY <2>1 DEF A!EndOf, A!Visited
  <2>2. CASE w # <<>>
    <3>1. n \in DOMAIN w
      BY <1>1, <2>2
    <3>2. A!EndOf(from, w) = w[n].to
      BY <2>2 DEF A!EndOf
    <3> QED
      BY <3>1, <3>2 DEF A!Visited
  <2> QED
    BY <2>1, <2>2
<1> HIDE DEF v, n
<1>4. A!Visited(from, w) \subseteq A!Visited(from, v)
  <2>1. \A i \in DOMAIN w : i \in DOMAIN v /\ v[i] = w[i]
    BY <1>2
  <2> QED
    BY <2>1 DEF A!Visited
<1>5. \A i \in 1..(n + 1) : i = n + 1 \/ i \in 1..n
  BY <1>2
<1>6. ASSUME NEW i \in DOMAIN v
      PROVE  v[i].from \in A!Visited(from, v)
  <2>1. CASE i \in 1..n
    BY <1>2, <1>4, <2>1 DEF IsWalk
  <2>2. CASE i = n + 1
    BY <1>2, <1>3, <1>4, <2>2
  <2> QED
    BY <1>2, <1>5, <2>1, <2>2
<1>7. \A i \in 1..n : v[i].to # h.to
  <2> TAKE i \in 1..n
  <2>1. w[i].to \in A!Visited(from, w)
    BY <1>2 DEF A!Visited
  <2> QED
    BY <1>2, <2>1
<1>8. ASSUME NEW i \in DOMAIN v, NEW j \in DOMAIN v, v[i].to = v[j].to
      PROVE  i = j
  <2>1. CASE i \in 1..n /\ j \in 1..n
    BY <1>2, <1>8, <2>1 DEF IsWalk
  <2>2. CASE i = n + 1 /\ j \in 1..n
    BY <1>2, <1>7, <1>8, <2>2
  <2>3. CASE i \in 1..n /\ j = n + 1
    BY <1>2, <1>7, <1>8, <2>3
  <2>4. CASE i = n + 1 /\ j = n + 1
    BY <2>4
  <2> QED
    BY <1>2, <1>5, <2>1, <2>2, <2>3, <2>4
<1>9. IsWalk(from, v)
  BY <1>2, <1>6, <1>8 DEF IsWalk
<1> QED
  BY <1>9 DEF v

\* So is the path without hops.
LEMMA EmptyIsWalk == ASSUME NEW from PROVE IsWalk(from, <<>>)
BY DEF IsWalk

\* What the search collects after any number of hops are walks.
LEMMA WalksAreWalks ==
    ASSUME NEW from, NEW to, NEW n \in Nat
    PROVE  \A w \in A!WalksFrom(from, to, n) : IsWalk(from, w)
<1> DEFINE Body(f) == [k \in 0..n |->
                IF k = 0 THEN {<<>>}
                ELSE UNION {{Append(w, h) : h \in {g \in A!Hops : g.from = A!EndOf(from, w)
                                                                  /\ g.to \notin A!Visited(from, w)}}
                            : w \in {v \in f[k - 1] : A!EndOf(from, v) # to}}]
           walks == CHOOSE f : f = Body(f)
<1>1. A!WalksFrom(from, to, n) = walks[n]
  BY DEF A!WalksFrom
<1>2. ASSUME NEW f
      PROVE  (f = Body(f)) <=> Lengthens(f, from, to, n)
  BY DEF Lengthens, Longer
<1> HIDE DEF Body
<1>3. \E f : f = Body(f)
  BY <1>2, WalksAreThere
<1>4. walks = Body(walks)
  BY <1>3
<1> HIDE DEF walks
<1>5. Lengthens(walks, from, to, n)
  BY <1>2, <1>4
<1>6. \A k \in 0..n : walks[k] = IF k = 0 THEN {<<>>} ELSE Longer(from, to, walks[k - 1])
  BY <1>5 DEF Lengthens
<1> DEFINE S == {m \in Nat : m \in 0..n => \A w \in walks[m] : IsWalk(from, w)}
<1>7. 0 \in S
  <2>1. 0 \in 0..n => walks[0] = {<<>>}
    BY <1>6
  <2> QED
    BY <2>1, EmptyIsWalk
<1>8. ASSUME NEW m \in Nat, m \in S
      PROVE  m + 1 \in S
  <2> SUFFICES ASSUME m + 1 \in 0..n, NEW v \in walks[m + 1]
               PROVE  IsWalk(from, v)
    OBVIOUS
  <2>1. walks[m + 1] = Longer(from, to, walks[m])
    <3>1. m + 1 # 0 /\ (m + 1) - 1 = m
      OBVIOUS
    <3> QED
      BY <1>6, <3>1
  <2>2. \A w \in walks[m] : IsWalk(from, w)
    BY <1>8
  <2> HIDE DEF S
  <2>3. PICK w \in walks[m] : \E h \in A!Hops : /\ v = Append(w, h) /\ h.from = A!EndOf(from, w)
                                                /\ h.to \notin A!Visited(from, w)
    BY <2>1 DEF Longer
  <2> QED
    BY <2>2, <2>3, LongerIsWalk
<1> HIDE DEF S
<1>9. Nat \subseteq S
  BY <1>7, <1>8, Inductively
<1>10. n \in S /\ n \in 0..n
  BY <1>9
<1> QED
  BY <1>1, <1>10 DEF S

\* And so is every path it finds (findAssetPaths).
LEMMA PathsAreWalks ==
    ASSUME NEW from, NEW to, NEW depth \in Nat
    PROVE  \A p \in A!FindAssetPaths(from, to, depth) : IsWalk(from, p)
<1> SUFFICES ASSUME NEW p \in A!FindAssetPaths(from, to, depth)
             PROVE  IsWalk(from, p)
  OBVIOUS
<1>1. CASE from = to
  BY <1>1, EmptyIsWalk DEF A!FindAssetPaths
<1>2. CASE from # to
  <2>1. PICK n \in 1..depth : p \in A!WalksFrom(from, to, n)
    BY <1>2 DEF A!FindAssetPaths
  <2>2. n \in Nat
    OBVIOUS
  <2> QED
    BY <2>1, <2>2, WalksAreWalks
<1> QED
  BY <1>1, <1>2

\* A sum of multiples.
LEMMA SumTimes ==
    ASSUME NEW S, IsFiniteSet(S), NEW G, NEW k \in Int, NEW E, \A x \in S : G[x] \in Int /\ E[x] = k * G[x]
    PROVE  SumOver(E, S) = k * SumOver(G, S) /\ SumOver(G, S) \in Int
<1> DEFINE Z == [x \in S |-> 0]
<1>1. \A x \in S : Z[x] = 0
  OBVIOUS
<1> HIDE DEF Z
<1>2. \A x \in S : Z[x] \in Int /\ G[x] \in Int /\ E[x] = Z[x] + k * G[x]
  <2> TAKE x \in S
  <2>1. Z[x] = 0 /\ G[x] \in Int /\ E[x] = k * G[x]
    BY <1>1
  <2> QED
    BY <2>1
<1>3. SumOver(E, S) = SumOver(Z, S) + k * SumOver(G, S)
  BY <1>2, SumsAdd
<1>4. SumOver(Z, S) = 0 /\ SumOver(G, S) \in Int
  BY <1>1, SumOfZeros, SumIsInt
<1> QED
  BY <1>3, <1>4

-----------------------------------------------------------------------------
(***************************************************************************)
(* A path as a whole.  Hops i of I lead from one asset to another, give    *)
(* and take; what the priced assets P are left with after some of the      *)
(* hops is worth at most half a unit of each asset that was led to.        *)
(***************************************************************************)
Given(r, I, a) == [i \in I |-> IF r.to[i] = a THEN r.given[i] ELSE 0]
Taken(r, I, a) == [i \in I |-> IF r.from[i] = a THEN r.taken[i] ELSE 0]

LeftWith(r, I, s, a) ==
    2 * (SumOver(Given(r, I, a), s) - SumOver(Taken(r, I, a), s)) * r.worth[a]
        - (IF \E i \in s : r.to[i] = a THEN r.worth[a] ELSE 0)

FairHops(r, I, P) ==
    /\ IsFiniteSet(I) /\ IsFiniteSet(P) /\ \A a \in P : r.worth[a] \in Nat
    /\ \A i, j \in I : r.to[i] = r.to[j] => i = j
    /\ \A i \in I : /\ r.given[i] \in Nat /\ r.taken[i] \in Nat /\ r.from[i] # r.to[i]
                    /\ r.given[i] > 0 =>
                        /\ r.from[i] \in P /\ r.to[i] \in P
                        /\ 2 * (r.given[i] * r.worth[r.to[i]])
                             <= 2 * (r.taken[i] * r.worth[r.from[i]]) + r.worth[r.to[i]]

\* What one hop adds.
LEMMA HopLeavesNothing ==
    ASSUME NEW r, NEW I, NEW P, FairHops(r, I, P), NEW i \in I,
           NEW D, \A a \in P : D[a] = 2 * (Given(r, I, a)[i] - Taken(r, I, a)[i]) * r.worth[a]
                                        - (IF r.to[i] = a THEN r.worth[a] ELSE 0)
    PROVE  (\A a \in P : D[a] \in Int) /\ SumOver(D, P) \in Int /\ SumOver(D, P) <= 0
<1> DEFINE g == r.given[i]
           t == r.taken[i]
<1>1. IsFiniteSet(P) /\ (\A a \in P : r.worth[a] \in Nat) /\ g \in Nat /\ t \in Nat /\ r.from[i] # r.to[i]
  BY DEF FairHops
<1>2. \A a : /\ Given(r, I, a)[i] = IF r.to[i] = a THEN g ELSE 0
             /\ Taken(r, I, a)[i] = IF r.from[i] = a THEN t ELSE 0
  BY DEF Given, Taken
<1>3. ASSUME NEW a \in P
      PROVE  D[a] \in Int
  <2> DEFINE w == r.worth[a]
  <2>1. w \in Nat /\ Given(r, I, a)[i] \in Nat /\ Taken(r, I, a)[i] \in Nat
    BY <1>1, <1>2
  <2>2. (IF r.to[i] = a THEN w ELSE 0) \in Nat
    BY <2>1
  <2> DEFINE m == Given(r, I, a)[i]
             n == Taken(r, I, a)[i]
             v == IF r.to[i] = a THEN w ELSE 0
  <2>3. D[a] = 2 * (m - n) * w - v
    OBVIOUS
  <2>4. m \in Nat /\ n \in Nat /\ v \in Nat /\ w \in Nat
    BY <2>1, <2>2
  <2> HIDE DEF m, n, v, w
  <2> QED
    BY <2>3, <2>4
<1>4. CASE g > 0
  <2> DEFINE b == r.from[i]
             c == r.to[i]
             wb == r.worth[b]
             wc == r.worth[c]
  <2>1. b \in P /\ c \in P /\ b # c /\ 2 * (g * wc) <= 2 * (t * wb) + wc
    BY <1>4 DEF FairHops
  <2>2. wb \in Nat /\ wc \in Nat
    BY <1>1, <2>1
  <2>3. D[b] = 2 * (0 - t) * wb - 0
    BY <1>2, <2>1
  <2>4. D[c] = 2 * (g - 0) * wc - wc
    BY <1>2, <2>1
  <2>5. \A x \in P : x # b /\ x # c => D[x] = 0
    <3> SUFFICES ASSUME NEW x \in P, x # b, x # c
                 PROVE  D[x] = 0
      OBVIOUS
    <3>1. D[x] = 2 * (0 - 0) * r.worth[x] - 0 /\ r.worth[x] \in Nat
      BY <1>1, <1>2
    <3> QED
      BY <3>1
  <2> HIDE DEF b, c, wb, wc
  <2>6. SumOver(D, P) = D[b] + D[c]
    BY <1>1, <1>3, <2>1, <2>5, SumOfTwo
  <2> HIDE DEF g, t
  <2> QED
    BY <1>1, <1>3, <2>1, <2>2, <2>3, <2>4, <2>6
<1>5. CASE ~(g > 0)
  <2>1. g = 0
    BY <1>1, <1>5
  <2>2. \A a \in P : D[a] <= 0
    <3> TAKE a \in P
    <3> DEFINE w == r.worth[a]
               n == Taken(r, I, a)[i]
               v == IF r.to[i] = a THEN w ELSE 0
    <3>1. Given(r, I, a)[i] = 0 /\ n \in Nat /\ w \in Nat
      BY <1>1, <1>2, <2>1
    <3>2. v \in Nat
      BY <3>1
    <3>3. D[a] = 2 * (0 - n) * w - v
      BY <3>1
    <3> HIDE DEF n, w, v
    <3>4. n * w >= 0 /\ n * w \in Nat /\ 2 * (0 - n) * w = -(2 * (n * w))
      BY <3>1
    <3> QED
      BY <3>2, <3>3, <3>4
  <2>3. \A a \in P : D[a] \in Int /\ D[a] <= 0
    BY <1>3, <2>2
  <2> QED
    BY <1>1, <1>3, <2>3, SumNotPositive
<1> QED
  BY <1>3, <1>4, <1>5

\* Such hops, all taken, leave the priced assets with no gain beyond their half units.
LEMMA HopsLeaveNothing ==
    ASSUME NEW r, NEW I, NEW P, FairHops(r, I, P),
           NEW K, \A a \in P : K[a] = LeftWith(r, I, I, a)
    PROVE  (\A a \in P : K[a] \in Int) /\ SumOver(K, P) \in Int /\ SumOver(K, P) <= 0
<1> DEFINE After(s) == [a \in P |-> LeftWith(r, I, s, a)]
           Good(s) == (\A a \in P : After(s)[a] \in Int) /\ SumOver(After(s), P) \in Int /\ SumOver(After(s), P) <= 0
           H == {s \in SUBSET I : Good(s)}
<1>1. /\ IsFiniteSet(I) /\ IsFiniteSet(P) /\ \A a \in P : r.worth[a] \in Nat
      /\ \A i, j \in I : r.to[i] = r.to[j] => i = j
      /\ \A i \in I : r.given[i] \in Nat /\ r.taken[i] \in Nat
  BY DEF FairHops
<1>2. \A s : \A a \in P : After(s)[a] = LeftWith(r, I, s, a)
  OBVIOUS
<1> HIDE DEF After
<1>3. \A a : \A i \in I : Given(r, I, a)[i] \in Int /\ Taken(r, I, a)[i] \in Int
  BY <1>1 DEF Given, Taken
<1>4. Good({})
  <2>1. \A a \in P : After({})[a] = 0
    <3> TAKE a \in P
    <3>1. SumOver(Given(r, I, a), {}) = 0 /\ SumOver(Taken(r, I, a), {}) = 0
      BY SumOfNone
    <3>2. After({})[a] = 2 * (0 - 0) * r.worth[a] - 0
      BY <1>2, <3>1 DEF LeftWith
    <3> QED
      BY <1>1, <3>2
  <2>2. SumOver(After({}), P) = 0
    BY <1>1, <2>1, SumOfZeros
  <2> QED
    BY <2>1, <2>2
<1>5. ASSUME NEW s \in SUBSET I, s # {}, \A i \in s : s \ {i} \in H
      PROVE  Good(s)
  <2>1. PICK i \in s : TRUE
    BY <1>5
  <2> DEFINE q == s \ {i}
             D == [a \in P |-> 2 * (Given(r, I, a)[i] - Taken(r, I, a)[i]) * r.worth[a]
                                 - (IF r.to[i] = a THEN r.worth[a] ELSE 0)]
  <2>2. Good(q)
    BY <1>5, <2>1
  <2>3. \A a \in P : D[a] = 2 * (Given(r, I, a)[i] - Taken(r, I, a)[i]) * r.worth[a]
                              - (IF r.to[i] = a THEN r.worth[a] ELSE 0)
    OBVIOUS
  <2> HIDE DEF D, H
  <2>4. (\A a \in P : D[a] \in Int) /\ SumOver(D, P) \in Int /\ SumOver(D, P) <= 0
    <3>1. i \in I
      BY <2>1
    <3> QED
      BY <2>3, <3>1, HopLeavesNothing
  <2>5. ASSUME NEW a \in P
        PROVE  After(s)[a] = After(q)[a] + 1 * D[a]
    <3> DEFINE w == r.worth[a]
               gi == Given(r, I, a)[i]
               ti == Taken(r, I, a)[i]
               gq == SumOver(Given(r, I, a), q)
               tq == SumOver(Taken(r, I, a), q)
               lq == IF \E j \in q : r.to[j] = a THEN w ELSE 0
               li == IF r.to[i] = a THEN w ELSE 0
    <3>1. IsFiniteSet(s)
      BY <1>1, FS_Subset, Zenon
    <3>2. SumOver(Given(r, I, a), s) = gi + gq /\ gi \in Int /\ gq \in Int
      BY <1>3, <2>1, <3>1, SumWithout
    <3>3. SumOver(Taken(r, I, a), s) = ti + tq /\ ti \in Int /\ tq \in Int
      BY <1>3, <2>1, <3>1, SumWithout
    <3>4. (IF \E j \in s : r.to[j] = a THEN w ELSE 0) = lq + li /\ lq \in Int /\ li \in Int
      <4>1. w \in Nat
        BY <1>1
      <4>2. (\E j \in s : r.to[j] = a) <=> ((\E j \in q : r.to[j] = a) \/ r.to[i] = a)
        BY <2>1
      <4>3. ~((\E j \in q : r.to[j] = a) /\ r.to[i] = a)
        <5> SUFFICES ASSUME NEW j \in q, r.to[j] = a, r.to[i] = a
                     PROVE  FALSE
          OBVIOUS
        <5>1. j \in I /\ i \in I /\ r.to[i] = r.to[j] /\ i # j
          BY <2>1
        <5> QED
          BY <1>1, <5>1
      <4> HIDE DEF w, q
      <4> QED
        BY <4>1, <4>2, <4>3
    <3>5. After(s)[a] = 2 * ((gi + gq) - (ti + tq)) * w - (lq + li)
      <4>1. After(s)[a] = LeftWith(r, I, s, a)
        BY <1>2
      <4>2. LeftWith(r, I, s, a) = 2 * (SumOver(Given(r, I, a), s) - SumOver(Taken(r, I, a), s)) * w
                                       - (IF \E j \in s : r.to[j] = a THEN w ELSE 0)
        BY DEF LeftWith
      <4> HIDE DEF gi, ti, gq, tq, lq, li, w
      <4> QED
        BY <3>2, <3>3, <3>4, <4>1, <4>2
    <3>6. After(q)[a] = 2 * (gq - tq) * w - lq
      BY <1>2 DEF LeftWith
    <3>7. D[a] = 2 * (gi - ti) * w - li /\ w \in Nat
      BY <1>1, <2>3
    <3> HIDE DEF gi, ti, gq, tq, lq, li, w
    <3>8. 2 * ((gi + gq) - (ti + tq)) * w = 2 * (gq - tq) * w + 2 * (gi - ti) * w
      BY <3>2, <3>3, <3>7
    <3> DEFINE x == 2 * (gq - tq) * w
               y == 2 * (gi - ti) * w
               z == 2 * ((gi + gq) - (ti + tq)) * w
    <3>9. x \in Int /\ y \in Int /\ z = x + y /\ After(s)[a] = z - (lq + li) /\ After(q)[a] = x - lq /\ D[a] = y - li
      BY <3>2, <3>3, <3>5, <3>6, <3>7, <3>8
    <3> HIDE DEF x, y, z
    <3> QED
      BY <3>4, <3>9
  <2> HIDE DEF q
  <2>6. \A a \in P : After(q)[a] \in Int /\ D[a] \in Int /\ After(s)[a] = After(q)[a] + 1 * D[a]
    BY <2>2, <2>4, <2>5
  <2>7. SumOver(After(s), P) = SumOver(After(q), P) + 1 * SumOver(D, P)
    BY <1>1, <2>6, SumsAdd
  <2>8. \A a \in P : After(s)[a] \in Int
    BY <2>6
  <2> QED
    BY <2>2, <2>4, <2>7, <2>8
<1>6. {} \in H /\ \A s \in SUBSET I : s # {} /\ (\A i \in s : s \ {i} \in H) => s \in H
  <2> HIDE DEF Good
  <2> QED
    BY <1>4, <1>5
<1> HIDE DEF H
<1>7. SUBSET I \subseteq H
  BY <1>1, <1>6, BySize
<1>8. Good(I)
  BY <1>7 DEF H
<1>9. \A a \in P : After(I)[a] \in Int /\ K[a] = After(I)[a]
  BY <1>2, <1>8
<1>10. SumOver(K, P) = SumOver(After(I), P)
  BY <1>1, <1>9, SumsAgree
<1> QED
  BY <1>8, <1>9, <1>10

\* The folds of a path.
GivenTo(asset, hops) ==
    LET given(i) == IF hops[i].hop.to = asset THEN A!Larger(0, hops[i].amountOut) ELSE 0
    IN  A!MapThenSumSet(given, DOMAIN hops)

TakenFrom(asset, hops) ==
    LET taken(i) == IF hops[i].hop.from = asset THEN A!Larger(0, hops[i].amountIn) ELSE 0
    IN  A!MapThenSumSet(taken, DOMAIN hops)

\* The fold is a sum.
LEMMA GivenIsSum ==
    ASSUME NEW asset, NEW hops, NEW S, IsFiniteSet(S), NEW F,
           \A x \in S : F[x] \in Int /\ F[x] = IF hops[x].hop.to = asset THEN A!Larger(0, hops[x].amountOut) ELSE 0
    PROVE  S = DOMAIN hops => GivenTo(asset, hops) = SumOver(F, S)
<1> DEFINE given(x) == IF hops[x].hop.to = asset THEN A!Larger(0, hops[x].amountOut) ELSE 0
           Body(h) == [s \in SUBSET S |-> IF s = {} THEN 0
                                          ELSE given(CHOOSE y \in s : TRUE) + h[s \ {CHOOSE y \in s : TRUE}]]
           g == CHOOSE h : h = Body(h)
<1>1. A!MapThenSumSet(given, S) = g[S]
  BY DEF A!MapThenSumSet, A!MapThenFoldSet
<1>2. \A x \in S : F[x] \in Int /\ F[x] = given(x)
  OBVIOUS
<1>3. ASSUME NEW h
      PROVE  (h = Body(h)) <=> FoldsUp(h, F, S)
  <2> HIDE DEF given
  <2> QED
    BY <1>2, ZenonT(30) DEF FoldsUp
<1> HIDE DEF Body
<1>4. \E h : h = Body(h)
  BY <1>3, FoldIsThere
<1>5. g = Body(g)
  BY <1>4
<1> HIDE DEF g
<1>6. FoldsUp(g, F, S)
  BY <1>3, <1>5
<1>7. g[S] = SumOver(F, S)
  BY <1>6, FoldIsSum
<1> QED
  BY <1>1, <1>7 DEF GivenTo

LEMMA TakenIsSum ==
    ASSUME NEW asset, NEW hops, NEW S, IsFiniteSet(S), NEW F,
           \A x \in S : F[x] \in Int /\ F[x] = IF hops[x].hop.from = asset THEN A!Larger(0, hops[x].amountIn) ELSE 0
    PROVE  S = DOMAIN hops => TakenFrom(asset, hops) = SumOver(F, S)
<1> DEFINE taken(x) == IF hops[x].hop.from = asset THEN A!Larger(0, hops[x].amountIn) ELSE 0
           Body(h) == [s \in SUBSET S |-> IF s = {} THEN 0
                                          ELSE taken(CHOOSE y \in s : TRUE) + h[s \ {CHOOSE y \in s : TRUE}]]
           g == CHOOSE h : h = Body(h)
<1>1. A!MapThenSumSet(taken, S) = g[S]
  BY DEF A!MapThenSumSet, A!MapThenFoldSet
<1>2. \A x \in S : F[x] \in Int /\ F[x] = taken(x)
  OBVIOUS
<1>3. ASSUME NEW h
      PROVE  (h = Body(h)) <=> FoldsUp(h, F, S)
  <2> HIDE DEF taken
  <2> QED
    BY <1>2, ZenonT(30) DEF FoldsUp
<1> HIDE DEF Body
<1>4. \E h : h = Body(h)
  BY <1>3, FoldIsThere
<1>5. g = Body(g)
  BY <1>4
<1> HIDE DEF g
<1>6. FoldsUp(g, F, S)
  BY <1>3, <1>5
<1>7. g[S] = SumOver(F, S)
  BY <1>6, FoldIsSum
<1> QED
  BY <1>1, <1>7 DEF TakenFrom

\* So is the net worth of what a path gives and takes (netUsd).
LEMMA NetIsOfAssets ==
    ASSUME NEW hops, NEW st, NEW assets, NEW S, IsFiniteSet(S), NEW F,
           \A x \in S : F[x] \in Int /\ F[x] = A!Worth(A!Delta(x, hops), x, st)
    PROVE  S = {a \in assets : A!AssetPrice(a, st) # A!None} => A!NetUsd(assets, hops, st) = SumOver(F, S)
<1> DEFINE usd(x) == A!Worth(A!Delta(x, hops), x, st)
           Body(h) == [s \in SUBSET S |-> IF s = {} THEN 0
                                          ELSE usd(CHOOSE y \in s : TRUE) + h[s \ {CHOOSE y \in s : TRUE}]]
           g == CHOOSE h : h = Body(h)
<1>1. A!MapThenSumSet(usd, S) = g[S]
  BY DEF A!MapThenSumSet, A!MapThenFoldSet
<1>2. \A x \in S : F[x] \in Int /\ F[x] = usd(x)
  OBVIOUS
<1>3. ASSUME NEW h
      PROVE  (h = Body(h)) <=> FoldsUp(h, F, S)
  <2> HIDE DEF usd
  <2> QED
    BY <1>2, ZenonT(30) DEF FoldsUp
<1> HIDE DEF Body
<1>4. \E h : h = Body(h)
  BY <1>3, FoldIsThere
<1>5. g = Body(g)
  BY <1>4
<1> HIDE DEF g
<1>6. FoldsUp(g, F, S)
  BY <1>3, <1>5
<1>7. g[S] = SumOver(F, S)
  BY <1>6, FoldIsSum
<1> QED
  BY <1>1, <1>7 DEF A!NetUsd

\* And the worth of a unit of each asset.
LEMMA UnitsAreSum ==
    ASSUME NEW st, NEW S, IsFiniteSet(S), NEW F, \A x \in S : F[x] \in Int /\ F[x] = A!Worth(1, x, st)
    PROVE  LET unit(a) == A!Worth(1, a, st)
           IN  A!MapThenSumSet(unit, S) = SumOver(F, S)
<1> DEFINE unit(x) == A!Worth(1, x, st)
           Body(h) == [s \in SUBSET S |-> IF s = {} THEN 0
                                          ELSE unit(CHOOSE y \in s : TRUE) + h[s \ {CHOOSE y \in s : TRUE}]]
           g == CHOOSE h : h = Body(h)
<1>1. A!MapThenSumSet(unit, S) = g[S]
  BY DEF A!MapThenSumSet, A!MapThenFoldSet
<1>2. \A x \in S : F[x] \in Int /\ F[x] = unit(x)
  OBVIOUS
<1>3. ASSUME NEW h
      PROVE  (h = Body(h)) <=> FoldsUp(h, F, S)
  <2> HIDE DEF unit
  <2> QED
    BY <1>2, ZenonT(30) DEF FoldsUp
<1> HIDE DEF Body
<1>4. \E h : h = Body(h)
  BY <1>3, FoldIsThere
<1>5. g = Body(g)
  BY <1>4
<1> HIDE DEF g
<1>6. FoldsUp(g, F, S)
  BY <1>3, <1>5
<1>7. g[S] = SumOver(F, S)
  BY <1>6, FoldIsSum
<1> QED
  BY <1>1, <1>7

-----------------------------------------------------------------------------
(***************************************************************************)
(* No path makes value.                                                    *)
(***************************************************************************)
\* What an asset gains on a path is what its hops give less what they take.
LEMMA DeltaIs ==
    ASSUME NEW hops, NEW asset, NEW I, I = DOMAIN hops, IsFiniteSet(I),
           NEW F,
           \A i \in I : F[i] \in Int /\ F[i] = IF hops[i].hop.to = asset THEN A!Larger(0, hops[i].amountOut) ELSE 0,
           NEW G,
           \A i \in I : G[i] \in Int /\ G[i] = IF hops[i].hop.from = asset THEN A!Larger(0, hops[i].amountIn) ELSE 0
    PROVE  A!Delta(asset, hops) = SumOver(F, I) - SumOver(G, I)
<1>1. GivenTo(asset, hops) = SumOver(F, I)
  BY GivenIsSum
<1>2. TakenFrom(asset, hops) = SumOver(G, I)
  BY TakenIsSum
<1>3. A!Delta(asset, hops) = GivenTo(asset, hops) - TakenFrom(asset, hops)
  BY DEF A!Delta, GivenTo, TakenFrom
<1> QED
  BY <1>1, <1>2, <1>3

\* A path visits finitely many assets.
LEMMA VisitedIsFinite ==
    ASSUME NEW from, NEW T, NEW w \in Seq(T)
    PROVE  IsFiniteSet(A!Visited(from, w))
<1> DEFINE n == Len(w)
           To(i) == w[i].to
           Tos(m) == {To(i) : i \in 1..m}
           Few(m) == IsFiniteSet(Tos(m))
           S == {m \in Nat : Few(m)}
<1>1. 0 \in S
  <2>1. Tos(0) = {}
    OBVIOUS
  <2>2. IsFiniteSet({})
    BY FS_EmptySet, Zenon
  <2>3. Few(0)
    BY <2>1, <2>2
  <2> HIDE DEF Few
  <2> QED
    BY <2>3
<1>2. ASSUME NEW m \in Nat, m \in S
      PROVE  m + 1 \in S
  <2> HIDE DEF To
  <2>1. Tos(m + 1) = Tos(m) \cup {To(m + 1)}
    <3>1. 1..(m + 1) = (1..m) \cup {m + 1}
      OBVIOUS
    <3> QED
      BY <3>1
  <2> HIDE DEF Tos
  <2>2. IsFiniteSet(Tos(m) \cup {To(m + 1)})
    <3>1. IsFiniteSet(Tos(m))
      BY <1>2
    <3> QED
      BY <3>1, FS_AddElement, Zenon
  <2>3. Few(m + 1)
    BY <2>1, <2>2, Zenon
  <2> HIDE DEF Few
  <2> QED
    BY <2>3
<1>3. n \in Nat /\ DOMAIN w = 1..n
  OBVIOUS
<1> HIDE DEF S, n
<1>4. n \in S
  BY <1>1, <1>2, <1>3, Inductively
<1>5. A!Visited(from, w) = Tos(n) \cup {from}
  BY <1>3 DEF A!Visited
<1>6. IsFiniteSet(Tos(n) \cup {from})
  <2>1. IsFiniteSet(Tos(n))
    BY <1>4 DEF S
  <2> QED
    BY <2>1, FS_AddElement, Zenon
<1> QED
  BY <1>5, <1>6

\* The hops of a walk that goes on as evaluated.
PathHops(hops, P, st) ==
    [to |-> [i \in DOMAIN hops |-> hops[i].hop.to], from |-> [i \in DOMAIN hops |-> hops[i].hop.from],
     given |-> [i \in DOMAIN hops |-> A!Larger(0, hops[i].amountOut)],
     taken |-> [i \in DOMAIN hops |-> A!Larger(0, hops[i].amountIn)],
     worth |-> [a \in P |-> UnitOf(a, st)]]

\* The hops of a walk as evaluated leave each asset at most once, and make no value.
LEMMA HopsAreFair ==
    ASSUME NEW st, PathMarket(st), NEW from, NEW path, IsWalk(from, path), NEW hops, HopsGo(hops, path, st),
           NEW P, P = {a \in A!Visited(from, path) : Usd(a, st) # A!None},
           NEW r, r = PathHops(hops, P, st), NEW I, I = DOMAIN hops
    PROVE  FairHops(r, I, P)
<1>1. path \in Seq(A!Hops) /\ I = DOMAIN path /\ A!IsMarket(st) /\ st.hasReserve
  BY Zenon DEF IsWalk, HopsGo, PathMarket
<1>2. IsFiniteSet(I)
  <2>1. I = 1..Len(path) /\ Len(path) \in Nat
    BY <1>1
  <2>2. 1 \in Int /\ Len(path) \in Int
    BY <2>1
  <2> QED
    BY <2>1, <2>2, FS_Interval, Zenon
<1>3. IsFiniteSet(P)
  <2>1. P \subseteq A!Visited(from, path)
    OBVIOUS
  <2>2. IsFiniteSet(A!Visited(from, path))
    BY <1>1, VisitedIsFinite
  <2> QED
    BY <2>1, <2>2, FS_Subset, Zenon
<1>4. \A a : Usd(a, st) \in Nat => /\ UnitOf(a, st) \in Nat /\ Usd(a, st) # A!None
                                   /\ (a \in A!Visited(from, path) => a \in P)
  <2> TAKE a
  <2> HAVE Usd(a, st) \in Nat
  <2>1. UnitOf(a, st) \in Nat
    BY UnitFacts
  <2>2. Usd(a, st) # A!None
    BY DEF A!None
  <2> QED
    BY <2>1, <2>2
<1>5. \A a \in P : Usd(a, st) \in Nat /\ r.worth[a] = UnitOf(a, st) /\ r.worth[a] \in Nat
  <2> TAKE a \in P
  <2>1. Usd(a, st) \in Nat
    BY <1>1, PriceIs
  <2>2. r.worth[a] = UnitOf(a, st)
    BY DEF PathHops
  <2> QED
    BY <1>4, <2>1, <2>2
<1>6. \A i \in I : /\ r.to[i] = hops[i].hop.to /\ r.from[i] = hops[i].hop.from
                   /\ r.given[i] = A!Larger(0, hops[i].amountOut) /\ r.taken[i] = A!Larger(0, hops[i].amountIn)
  BY DEF PathHops
<1>7. \A i \in I : /\ hops[i].hop = path[i] /\ hops[i].amountIn \in Int
                   /\ StepIs(hops[i], path[i], hops[i].amountIn, st)
  BY <1>1 DEF HopsGo
<1>8. \A i, j \in I : r.to[i] = r.to[j] => i = j
  <2> SUFFICES ASSUME NEW i \in I, NEW j \in I, r.to[i] = r.to[j]
               PROVE  i = j
    OBVIOUS
  <2>1. path[i].to = path[j].to
    BY <1>6, <1>7
  <2> QED
    BY <1>1, <2>1 DEF IsWalk
<1>9. ASSUME NEW i \in I
      PROVE  /\ r.given[i] \in Nat /\ r.taken[i] \in Nat /\ r.from[i] # r.to[i]
             /\ r.given[i] > 0 =>
                  /\ r.from[i] \in P /\ r.to[i] \in P
                  /\ 2 * (r.given[i] * r.worth[r.to[i]])
                       <= 2 * (r.taken[i] * r.worth[r.from[i]]) + r.worth[r.to[i]]
  <2> DEFINE h == path[i]
             in == hops[i].amountIn
             out == hops[i].amountOut
  <2>1. /\ r.to[i] = h.to /\ r.from[i] = h.from /\ r.given[i] = A!Larger(0, out) /\ r.taken[i] = A!Larger(0, in)
        /\ in \in Int /\ out \in Int /\ (out > 0 => in > 0 /\ Fair(h, in, out, st))
    BY <1>6, <1>7 DEF StepIs
  <2>2. h.from # h.to
    BY <1>1, HopsAreSound DEF SoundHop
  <2>3. h.from \in A!Visited(from, path) /\ h.to \in A!Visited(from, path)
    <3>1. h.from \in A!Visited(from, path)
      BY <1>1 DEF IsWalk
    <3>2. h.to \in A!Visited(from, path)
      BY <1>1 DEF A!Visited
    <3> QED
      BY <3>1, <3>2
  <2> HIDE DEF h, in, out
  <2>4. A!Larger(0, out) \in Nat /\ A!Larger(0, in) \in Nat /\ (A!Larger(0, out) > 0 => out > 0)
    BY <2>1 DEF A!Larger
  <2>5. ASSUME out > 0
        PROVE  /\ h.from \in P /\ h.to \in P
               /\ 2 * (A!Larger(0, out) * r.worth[h.to]) <= 2 * (A!Larger(0, in) * r.worth[h.from]) + r.worth[h.to]
    <3>1. in > 0 /\ Fair(h, in, out, st)
      BY <2>1, <2>5
    <3>2. /\ Usd(h.from, st) \in Nat /\ Usd(h.to, st) \in Nat
          /\ 2 * (out * UnitOf(h.to, st)) <= 2 * (in * UnitOf(h.from, st)) + UnitOf(h.to, st)
      BY <2>5, <3>1 DEF Fair
    <3>3. h.from \in P /\ h.to \in P
      BY <1>4, <2>3, <3>2
    <3>4. r.worth[h.to] = UnitOf(h.to, st) /\ r.worth[h.from] = UnitOf(h.from, st)
      BY <1>5, <3>3
    <3>5. A!Larger(0, out) = out /\ A!Larger(0, in) = in
      BY <2>1, <2>5, <3>1 DEF A!Larger
    <3> QED
      BY <3>2, <3>3, <3>4, <3>5
  <2> QED
    BY <2>1, <2>2, <2>4, <2>5
<1>10. \A a \in P : r.worth[a] \in Nat
  BY <1>5
<1>11. \A i \in I : /\ r.given[i] \in Nat /\ r.taken[i] \in Nat /\ r.from[i] # r.to[i]
                    /\ r.given[i] > 0 =>
                        /\ r.from[i] \in P /\ r.to[i] \in P
                        /\ 2 * (r.given[i] * r.worth[r.to[i]])
                             <= 2 * (r.taken[i] * r.worth[r.from[i]]) + r.worth[r.to[i]]
  BY <1>9, Zenon
<1> QED
  BY <1>2, <1>3, <1>8, <1>10, <1>11, Zenon DEF FairHops

\* So a walk as a whole makes no value, whatever it starts with.
LEMMA WalkMakesNoValue ==
    ASSUME NEW st, PathMarket(st), NEW from, NEW path, IsWalk(from, path), NEW amount \in Int, NEW inventory
    PROVE  ~A!MakesValue(A!EvaluatePath(from, path, amount, inventory, st), st)
<1> DEFINE hops == A!Evaluated(path, amount, st)
           assets == A!Visited(from, path)
           P == {a \in assets : Usd(a, st) # A!None}
           r == PathHops(hops, P, st)
           I == DOMAIN hops
           e == A!EvaluatePath(from, path, amount, inventory, st)
           net == A!NetUsd(assets, hops, st)
           N == [a \in P |-> A!Worth(A!Delta(a, hops), a, st)]
           U == [a \in P |-> A!Worth(1, a, st)]
           K == [a \in P |-> LeftWith(r, I, I, a)]
           M == [a \in P |-> (-1) * U[a]]
           E == [a \in P |-> M[a] + 2 * N[a]]
           R == [a \in P |-> E[a] + (-1) * K[a]]
<1>1. /\ e.source = from /\ e.path = path
      /\ e.net = [known |-> \E a \in assets : A!AssetPrice(a, st) # A!None,
                  usd |-> IF \E a \in assets : A!AssetPrice(a, st) # A!None THEN net ELSE 0]
  BY DEF A!EvaluatePath, A!Score, A!AssetsOf
<1>2. path \in Seq(A!Hops)
  BY DEF IsWalk
<1>3. HopsGo(hops, path, st)
  BY <1>2, EvaluatedGoes
<1>4. P = {a \in assets : A!AssetPrice(a, st) # A!None}
  BY DEF Usd
<1>5. \A a \in P : /\ N[a] = A!Worth(A!Delta(a, hops), a, st) /\ U[a] = A!Worth(1, a, st)
                   /\ K[a] = LeftWith(r, I, I, a) /\ M[a] = (-1) * U[a] /\ E[a] = M[a] + 2 * N[a]
                   /\ R[a] = E[a] + (-1) * K[a]
  OBVIOUS
<1> DEFINE unit(a) == A!Worth(1, a, st)
<1>6. A!MakesValue(e, st) => 2 * net > A!MapThenSumSet(unit, P)
  <2> HIDE DEF e, net
  <2>1. A!AssetsOf(from, path) = assets
    BY DEF A!AssetsOf
  <2> SUFFICES ASSUME A!MakesValue(e, st)
               PROVE  2 * net > A!MapThenSumSet(unit, P)
    OBVIOUS
  <2>2. /\ e.net.known
        /\ 2 * e.net.usd > A!MapThenSumSet(unit, {a \in A!AssetsOf(e.source, e.path) : A!AssetPrice(a, st) # A!None})
    BY DEF A!MakesValue
  <2>3. e.net.usd = net
    BY <1>1, <2>2
  <2>4. {a \in A!AssetsOf(e.source, e.path) : A!AssetPrice(a, st) # A!None} = P
    BY <1>1, <1>4, <2>1
  <2> HIDE DEF P, unit
  <2> QED
    BY <2>2, <2>3, <2>4
<1>7. FairHops(r, I, P)
  <2> HIDE DEF hops, assets
  <2>1. P = {a \in A!Visited(from, path) : Usd(a, st) # A!None}
    BY DEF assets
  <2> HIDE DEF P, r, I
  <2>2. r = PathHops(hops, P, st) /\ I = DOMAIN hops
    BY DEF r, I
  <2> QED
    BY <1>3, <2>1, <2>2, HopsAreFair
<1>8. \A i \in I : /\ r.to[i] = hops[i].hop.to /\ r.from[i] = hops[i].hop.from
                   /\ r.given[i] = A!Larger(0, hops[i].amountOut) /\ r.taken[i] = A!Larger(0, hops[i].amountIn)
  BY DEF PathHops
<1>9. \A a \in P : r.worth[a] = UnitOf(a, st)
  BY DEF PathHops
<1>10. I = DOMAIN hops
  OBVIOUS
<1> HIDE DEF hops, P, r, I, N, U, K, M, E, R, net, e
<1>11. /\ IsFiniteSet(I) /\ IsFiniteSet(P) /\ \A a \in P : r.worth[a] \in Nat
       /\ \A i \in I : r.given[i] \in Nat /\ r.taken[i] \in Nat
  BY <1>7 DEF FairHops
<1>12. \A a : /\ A!Delta(a, hops) = SumOver(Given(r, I, a), I) - SumOver(Taken(r, I, a), I)
              /\ SumOver(Given(r, I, a), I) \in Int /\ SumOver(Taken(r, I, a), I) \in Int
  <2> TAKE a
  <2> DEFINE F == Given(r, I, a)
             G == Taken(r, I, a)
  <2>1. \A i \in I : F[i] \in Int /\ F[i] = IF hops[i].hop.to = a THEN A!Larger(0, hops[i].amountOut) ELSE 0
    BY <1>8, <1>11 DEF Given
  <2>2. \A i \in I : G[i] \in Int /\ G[i] = IF hops[i].hop.from = a THEN A!Larger(0, hops[i].amountIn) ELSE 0
    BY <1>8, <1>11 DEF Taken
  <2> HIDE DEF F, G
  <2>3. A!Delta(a, hops) = SumOver(F, I) - SumOver(G, I)
    BY <1>10, <1>11, <2>1, <2>2, DeltaIs
  <2>4. SumOver(F, I) \in Int /\ SumOver(G, I) \in Int
    BY <1>11, <2>1, <2>2, SumIsInt
  <2> QED
    BY <2>3, <2>4 DEF F, G
<1>13. \A n \in Int : \A a \in P : A!Worth(n, a, st) = n * r.worth[a]
  <2> TAKE n \in Int
  <2> TAKE a \in P
  <2> DEFINE k == 1000 \div A!Units(a)
             p == Usd(a, st)
  <2>1. A!Worth(n, a, st) = n * k * p
    BY DEF A!Worth, Usd
  <2>2. r.worth[a] = k * p
    BY <1>9 DEF UnitOf
  <2>3. k \in Int /\ p \in Int
    <3>1. k \in Int
      BY UnitsArePositive
    <3>2. Usd(a, st) # A!None /\ A!IsMarket(st) /\ st.hasReserve
      BY DEF P, PathMarket
    <3>3. p \in Int
      BY <3>2, PriceIs
    <3> QED
      BY <3>1, <3>3
  <2> HIDE DEF k, p
  <2> QED
    BY <2>1, <2>2, <2>3
<1>14. ASSUME NEW a \in P
       PROVE  /\ N[a] \in Int /\ U[a] \in Int /\ U[a] >= 0 /\ M[a] \in Int /\ E[a] \in Int
              /\ K[a] \in Int => R[a] \in Int /\ R[a] <= 0
  <2> DEFINE d == A!Delta(a, hops)
             w == r.worth[a]
             v == IF \E i \in I : r.to[i] = a THEN w ELSE 0
  <2>1. d \in Int /\ w \in Nat /\ d = SumOver(Given(r, I, a), I) - SumOver(Taken(r, I, a), I)
    BY <1>11, <1>12
  <2>2. N[a] = d * w /\ U[a] = 1 * w
    BY <1>5, <1>13, <2>1
  <2>3. K[a] = 2 * d * w - v
    BY <1>5, <2>1 DEF LeftWith
  <2>4. v \in Nat /\ v <= w
    BY <2>1
  <2>5. M[a] = (-1) * U[a] /\ E[a] = M[a] + 2 * N[a] /\ R[a] = E[a] + (-1) * K[a]
    BY <1>5
  <2> HIDE DEF d, w, v
  <2> DEFINE x == d * w
  <2>6. x \in Int /\ N[a] = x /\ K[a] = 2 * x - v /\ U[a] = w
    BY <2>1, <2>2, <2>3
  <2> HIDE DEF x
  <2> QED
    BY <2>1, <2>4, <2>5, <2>6
<1>15. (\A a \in P : K[a] \in Int) /\ SumOver(K, P) \in Int /\ SumOver(K, P) <= 0
  <2>1. \A a \in P : K[a] = LeftWith(r, I, I, a)
    BY <1>5
  <2> QED
    BY <1>7, <2>1, HopsLeaveNothing
<1>16. net = SumOver(N, P) /\ SumOver(N, P) \in Int
  <2>1. \A a \in P : N[a] \in Int /\ N[a] = A!Worth(A!Delta(a, hops), a, st)
    BY <1>5, <1>14
  <2>2. net = SumOver(N, P)
    BY <1>4, <1>11, <2>1, NetIsOfAssets DEF net
  <2> QED
    BY <1>11, <2>1, <2>2, SumIsInt
<1>17. A!MapThenSumSet(unit, P) = SumOver(U, P) /\ SumOver(U, P) \in Int
  <2>1. \A a \in P : U[a] \in Int /\ U[a] = A!Worth(1, a, st)
    BY <1>5, <1>14
  <2>2. A!MapThenSumSet(unit, P) = SumOver(U, P)
    BY <1>11, <2>1, UnitsAreSum
  <2> QED
    BY <1>11, <2>1, <2>2, SumIsInt
<1>18. SumOver(M, P) = (-1) * SumOver(U, P)
  <2>1. -1 \in Int /\ \A a \in P : U[a] \in Int /\ M[a] = (-1) * U[a]
    BY <1>5, <1>14
  <2> QED
    BY <1>11, <2>1, SumTimes
<1>19. SumOver(E, P) = SumOver(M, P) + 2 * SumOver(N, P)
  <2>1. \A a \in P : M[a] \in Int /\ N[a] \in Int /\ E[a] = M[a] + 2 * N[a]
    BY <1>5, <1>14
  <2> QED
    BY <1>11, <2>1, SumsAdd
<1>20. SumOver(R, P) = SumOver(E, P) + (-1) * SumOver(K, P)
  <2>1. -1 \in Int /\ \A a \in P : E[a] \in Int /\ K[a] \in Int /\ R[a] = E[a] + (-1) * K[a]
    BY <1>5, <1>14, <1>15
  <2> QED
    BY <1>11, <2>1, SumsAdd
<1>21. SumOver(R, P) \in Int /\ SumOver(R, P) <= 0
  <2>1. \A a \in P : R[a] \in Int /\ R[a] <= 0
    BY <1>14, <1>15
  <2> QED
    BY <1>11, <2>1, SumNotPositive
<1>22. 2 * net <= A!MapThenSumSet(unit, P)
  <2> DEFINE n == SumOver(N, P)
             u == SumOver(U, P)
             k == SumOver(K, P)
             s == SumOver(R, P)
  <2>1. n \in Int /\ u \in Int /\ k \in Int /\ k <= 0 /\ s \in Int /\ s <= 0 /\ s = ((-1) * u + 2 * n) + (-1) * k
    BY <1>15, <1>16, <1>17, <1>18, <1>19, <1>20, <1>21
  <2>2. net = n /\ A!MapThenSumSet(unit, P) = u
    BY <1>16, <1>17
  <2> HIDE DEF n, u, k, s
  <2>3. 2 * n <= u
    BY <2>1
  <2> HIDE DEF unit
  <2> QED
    BY <2>2, <2>3
<1>23. net \in Int /\ A!MapThenSumSet(unit, P) \in Int
  BY <1>16, <1>17
<1>24. ~A!MakesValue(e, st)
  <2> HIDE DEF unit
  <2> QED
    BY <1>6, <1>22, <1>23
<1> QED
  BY <1>24 DEF e

\* No path makes value out of prices that agree, whatever the markets: what an evaluation calls a gain
\* comes from a difference of prices, and never from decimals, fees or the order of the hops
\* (pathing/evaluator.ts, evaluatePath).
THEOREM PathsMakeNoValue == MarketSpec => []NoPathMakesValue
<1> DEFINE Kept == part = "path" => case \in PathCases
<1>1. MarketInit => Kept
  BY DEF MarketInit, Lasting
<1>2. Kept /\ [MarketNext]_allVars => Kept'
  BY PartsStep
<1>3. Kept => NoPathMakesValue
  <2> DEFINE st == case.st
             amount == case.coins * A!Units(case.from)
             paths == A!FindAssetPaths(case.from, case.to, 4)
  <2> SUFFICES ASSUME part = "path", case \in PathCases,
                      NEW e \in A!EvaluatePaths(case.from, case.to, amount, 4, 100, <<>>, st)
               PROVE  ~A!MakesValue(e, st)
    BY DEF NoPathMakesValue
  <2>1. IsPathCase(case)
    BY MarketAssumption DEF MarketAssumption
  <2>2. PathMarket(st) /\ amount \in Int
    <3>1. PathMarket(st) /\ case.coins \in Nat
      BY <2>1, Zenon DEF IsPathCase, PathMarket
    <3>2. A!Units(case.from) \in Nat
      BY UnitsArePositive
    <3> QED
      BY <3>1, <3>2
  <2>3. \A p \in A!FirstOf(100, paths, A!Before) : p \in paths
    BY DEF A!FirstOf
  <2>4. PICK p \in paths : e = A!EvaluatePath(case.from, p, amount, <<>>, st)
    <3> HIDE DEF st, amount
    <3>1. PICK p \in A!FirstOf(100, paths, A!Before) : e = A!EvaluatePath(case.from, p, amount, <<>>, st)
      BY DEF A!EvaluatePaths
    <3> HIDE DEF paths
    <3>2. p \in paths
      BY <2>3
    <3> QED
      BY <3>1, <3>2
  <2>5. IsWalk(case.from, p)
    <3>1. 4 \in Nat
      OBVIOUS
    <3> QED
      BY <2>4, <3>1, PathsAreWalks
  <2> HIDE DEF st, amount
  <2> QED
    BY <2>2, <2>4, <2>5, WalkMakesNoValue
<1> QED
  BY <1>1, <1>2, <1>3, PTL DEF MarketSpec

-----------------------------------------------------------------------------
(***************************************************************************)
(* The types.  What a part's types rest on is in the invariant that was    *)
(* found for its properties (what the watcher has seen of the chain, the   *)
(* bracket of the search, the account of the events), so they are shown    *)
(* together.                                                               *)
(***************************************************************************)
FeedsTyped == FeedTyped /\ RowsTyped /\ WatchTyped
PageTyped == RelayProofs!IInv /\ RelayProofs!ShownTyped
TableTyped == TableProofs!IInv /\ TableProofs!TroublesTyped
SizingTyped == ClipInv /\ ClipTyped
BuiltTyped == VouchInv /\ StateTyped
PaperTyped == AccountInv /\ OrdersTyped /\ FileInv /\ edits \in 0..MaxEdits

PartsTyped ==
    /\ FeedsTyped /\ PageTyped /\ TableTyped /\ SizingTyped /\ BuiltTyped /\ PaperTyped
    /\ part = "strategies" => RunsTyped

LEMMA PartsTypedBegin == ASSUME MarketInit PROVE PartsTyped
<1> USE MarketAssumption DEF MarketAssumption
<1>1. FeedsTyped
  BY PartsBegin, FeedInit, RowsTypesBegin, WatchTypesBegin DEF FeedsTyped
<1>2. PageTyped
  BY PartsBegin, RelayIsProved, RelayProofs!InitHolds, RelayProofs!ShownBegins DEF PageTyped
<1>3. TableTyped
  BY PartsBegin, TableIsProved, TableProofs!InitHolds, TableProofs!TroublesBegin DEF TableTyped
<1>4. SizingTyped
  BY PartsBegin, ClipInit, ClipTypesBegin DEF SizingTyped
<1>5. BuiltTyped
  BY PartsBegin, VouchInit, StateTypesBegin DEF BuiltTyped
<1>6. PaperTyped
  BY PartsBegin, AccountInit, OrdersTypesBegin, FileInit, EditsTyped DEF PaperTyped
<1>7. part = "strategies" => RunsTyped
  BY PartsBegin, RunsInit
<1> QED
  BY <1>1, <1>2, <1>3, <1>4, <1>5, <1>6, <1>7 DEF PartsTyped

LEMMA PartsTypedNext == ASSUME PartsTyped, [MarketNext]_allVars PROVE PartsTyped'
<1> USE MarketAssumption DEF MarketAssumption
<1>1. FeedsTyped'
  BY PartsStep, FeedTypes, RowsTypes, WatchTypes DEF PartsTyped, FeedsTyped
<1>2. PageTyped'
  BY PartsStep, RelayIsProved, RelayProofs!StepHolds, RelayProofs!StepShown DEF PartsTyped, PageTyped
<1>3. TableTyped'
  BY PartsStep, TableIsProved, TableProofs!StepHolds, TableProofs!TroublesStep DEF PartsTyped, TableTyped
<1>4. SizingTyped'
  <2>1. ClipInv'
    BY PartsStep, ClipNext DEF PartsTyped, SizingTyped
  <2> QED
    BY <2>1, PartsStep, ClipTypes DEF PartsTyped, SizingTyped
<1>5. BuiltTyped'
  BY PartsStep, VouchNext, StateTypes DEF PartsTyped, BuiltTyped, VouchInv
<1>6. PaperTyped'
  BY PartsStep, AccountNext, OrdersTypes, FileNext, EditsTyped DEF PartsTyped, PaperTyped
<1>7. part' = "strategies" => RunsTyped'
  <2>1. [Runs!Next]_(Runs!vars) /\ part' = part
    BY PartsStep
  <2> QED
    BY <2>1, RunsNext DEF PartsTyped
<1> QED
  BY <1>1, <1>2, <1>3, <1>4, <1>5, <1>6, <1>7 DEF PartsTyped

LEMMA PartsTypedIsType == ASSUME PartsTyped PROVE MarketTypeOK
<1> USE MarketAssumption DEF MarketAssumption
<1>1. TypeOK /\ Rows!TypeOK /\ Reserve!TypeOK
  BY FeedTypedIsType, RowsAreTyped, WatchIsTyped DEF PartsTyped, FeedsTyped
<1>2. Relay!TypeOK
  BY RelayIsTyped, RelayProofs!ShownIsTyped DEF PartsTyped, PageTyped, RelayProofs!IInv
<1>3. Table!TypeOK
  BY TableIsTyped, TableProofs!TableIsTyped DEF PartsTyped, TableTyped, TableProofs!IInv
<1>4. Clip!TypeOK
  BY ClipIsTyped DEF PartsTyped, SizingTyped
<1>5. Global!TypeOK
  BY StateIsTyped DEF PartsTyped, BuiltTyped, VouchInv
<1>6. Account!TypeOK /\ File!TypeOK
  BY AccountIsTyped, FileIsTyped DEF PartsTyped, PaperTyped
<1>7. RunsTyped => Runs!RunsTypeOK
  BY DEF RunsTyped, Runs!RunsTypeOK, Places, Runs!Positions
<1> QED
  BY <1>1, <1>2, <1>3, <1>4, <1>5, <1>6, <1>7 DEF PartsTyped, MarketTypeOK

\* Each part keeps its state within its types: the sockets, frames and polls of the MEXC watcher and of its
\* page, the rows of both watchers, the built state, the paper account and its file, the table of balances,
\* the samples of a clip and the balances and ranges of the strategies (services/mexc, apps/watchers,
\* domain/state, services/paper, domain/inventory, domain/arbitrage, domain/strategies).
THEOREM PartsKeepTypes == MarketSpec => []MarketTypeOK
<1>1. MarketInit => PartsTyped
  BY PartsTypedBegin
<1>2. PartsTyped /\ [MarketNext]_allVars => PartsTyped'
  BY PartsTypedNext
<1>3. PartsTyped => MarketTypeOK
  BY PartsTypedIsType
<1> QED
  BY <1>1, <1>2, <1>3, PTL DEF MarketSpec
===============================================================================
