-------------------------- MODULE VenueExecutionProofs --------------------------
(***************************************************************************)
(* A step is reported as it went: what it set going is done when it is     *)
(* reported successful, and when it is reported failed it has spent        *)
(* nothing, unless an answer was lost.  For any plans, venues' prices,     *)
(* slips and troubles:                                                     *)
(*                                                                         *)
(*   Spec => []TypeOK                                                      *)
(*   Spec => []OnlyLostAnswersSpendSilently                                *)
(*   Spec => []SuccessMeansDone                                            *)
(*   Spec => []RebalancingMovesItsAmount                                   *)
(*   Spec => []RoundTripsPayForThemselves                                  *)
(*                                                                         *)
(* The inductive invariant says where in its script a step is: nothing is  *)
(* under way before the script comes to the receipt (AtStep), nor of a     *)
(* step not yet begun (Unbegun); and a failure is the last report.  What   *)
(* the scripts of all executors have in common is ScriptFacts.             *)
(*                                                                         *)
(* The last two need a ledger as well (Accounted): what a place holds is   *)
(* what it held before the plan, with what each step that is done has      *)
(* taken from it and brought to it, less what is still on its way.         *)
(***************************************************************************)
EXTENDS VenueExecution, SequenceTheorems, TLAPS

-----------------------------------------------------------------------------
(* The scripts *)

Awaits == {"ask", "approve", "send", "receipt", "call"}

\* Awaiting one thing more before the others.
LEMMA Prefixed ==
    ASSUME NEW s \in Seq(Awaits), NEW w \in Awaits
    PROVE  /\ <<w>> \o s \in Seq(Awaits) /\ Len(<<w>> \o s) = Len(s) + 1
           /\ (<<w>> \o s)[1] = w
           /\ \A i \in 1..Len(s) : (<<w>> \o s)[i + 1] = s[i]
<1>1. <<w>> \in Seq(Awaits) /\ Len(<<w>>) = 1 /\ <<w>>[1] = w
  OBVIOUS
<1> DEFINE v == <<w>>
<1> HIDE DEF v
<1>2. v \in Seq(Awaits) /\ Len(v) = 1 /\ v[1] = w
  BY <1>1 DEF v
<1>3. /\ v \o s \in Seq(Awaits) /\ Len(v \o s) = Len(v) + Len(s) /\ Len(s) \in Nat
      /\ \A i \in 1..Len(v) + Len(s) : (v \o s)[i] = IF i <= Len(v) THEN v[i] ELSE s[i - Len(v)]
  <2>1. Len(s) \in Nat
    OBVIOUS
  <2>2. v \in Seq(Awaits) /\ s \in Seq(Awaits)
    BY <1>2
  <2>3. /\ v \o s \in Seq(Awaits) /\ Len(v \o s) = Len(v) + Len(s)
        /\ \A i \in 1..Len(v) + Len(s) : (v \o s)[i] = IF i <= Len(v) THEN v[i] ELSE s[i - Len(v)]
    BY ONLY <2>2, ConcatProperties, Zenon
  <2> QED
    BY <2>1, <2>3
<1>4. (v \o s)[1] = w /\ \A i \in 1..Len(s) : (v \o s)[i + 1] = s[i]
  BY <1>2, <1>3
<1> QED
  BY <1>2, <1>3, <1>4 DEF v

LEMMA UnwrapScript ==
    LET s == Script("unwrap")
    IN  /\ Len(s) = 4 /\ s[1] = "ask" /\ s[2] = "ask" /\ s[3] = "send" /\ s[4] = "receipt"
<1> DEFINE b == BridgeUnwrap
           s == ExecuteUnwrap
<1>1. /\ BurnWithData \in Seq(Awaits) /\ Len(BurnWithData) = 2
      /\ BurnWithData[1] = "send" /\ BurnWithData[2] = "receipt"
  BY DEF BurnWithData, Awaits
<1>2. b = <<"ask">> \o BurnWithData /\ s = <<"ask">> \o b
  BY DEF BridgeUnwrap, PrepareUnwrap, ExecuteUnwrap
<1> HIDE DEF b, s
<1>3. /\ b \in Seq(Awaits) /\ Len(b) = 3 /\ b[1] = "ask" /\ b[1 + 1] = "send" /\ b[2 + 1] = "receipt"
  <2>1. "ask" \in Awaits /\ 1 \in 1..Len(BurnWithData) /\ 2 \in 1..Len(BurnWithData)
    BY <1>1 DEF Awaits
  <2> QED
    BY <1>1, <1>2, <2>1, Prefixed
<1>4. /\ Len(s) = 4 /\ s[1] = "ask" /\ s[1 + 1] = "ask" /\ s[2 + 1] = "send" /\ s[3 + 1] = "receipt"
  <2>1. "ask" \in Awaits /\ \A i \in {1, 2, 3} : i \in 1..Len(b)
    BY <1>3 DEF Awaits
  <2> QED
    BY <1>2, <1>3, <2>1, Prefixed
<1>5. Script("unwrap") = s
  BY DEF Script, s
<1> QED
  BY <1>4, <1>5

LEMMA WithdrawScript ==
    LET s == Script("withdraw")
    IN  Len(s) = 2 /\ s[1] = "ask" /\ s[2] = "call"
<1>1. RequestWithdraw \in Seq(Awaits) /\ Len(RequestWithdraw) = 1 /\ RequestWithdraw[1] = "call"
  BY DEF RequestWithdraw, Awaits
<1>2. Script("withdraw") = <<"ask">> \o RequestWithdraw
  BY DEF Script, ExecuteCexWithdraw
<1>3. \A s : s = <<"ask">> \o RequestWithdraw => Len(s) = 2 /\ s[1] = "ask" /\ s[1 + 1] = "call"
  BY <1>1, Prefixed DEF Awaits
<1> QED
  BY <1>2, <1>3

LEMMA OtherScripts ==
    ASSUME NEW op \in Ops
    PROVE  /\ op \in {"swapEVM", "lpMint"} => Script(op) = <<"approve", "send", "receipt">>
           /\ op \in {"lpBurn", "lpCollect"} => Script(op) = <<"send", "receipt">>
           /\ op \in {"wrap", "nativeMint", "nativeRedeem"} => Script(op) = <<"ask", "call">>
           /\ op = "tradeCEX" => Script(op) = <<"call">>
           /\ op = "deposit" => Script(op) = <<"ask">>
BY DEF Script, Ops, ExecuteSwap, ExecuteLpMint, ExecuteLpBurn, ExecuteLpCollect,
       ExecuteWrap, DoConversion, MarketOrder, ExecuteCexDeposit, BridgeWrap, NotifyDeposit

Questions == {"ask", "approve"}
Calls == {"nativeMint", "nativeRedeem", "wrap", "withdraw", "tradeCEX"}

\* What the scripts have in common: a receipt follows a transaction, which is sent once, and only the
\* notice of a deposit ends with a question.
LEMMA ScriptFacts ==
    ASSUME NEW op \in Ops
    PROVE  LET s == Script(op)
           IN  /\ Len(s) \in 1..4 /\ s[1] # "receipt"
               /\ \A i \in 1..Len(s) :
                    /\ s[i] \in Questions => IF i = Len(s) THEN op = "deposit" ELSE s[i + 1] # "receipt"
                    /\ s[i] = "send" => i # Len(s) /\ s[i + 1] = "receipt"
                    /\ s[i] = "call" => i = Len(s) /\ op \in Calls
                    /\ s[i] = "receipt" => i = Len(s) /\ op \notin {"deposit", "tradeCEX"}
<1>1. CASE op = "unwrap"
  <2>1. Len(Script(op)) = 4 /\ 1..4 = {1, 2, 3, 4}
    BY <1>1, UnwrapScript
  <2>2. /\ Script(op)[1] = "ask" /\ Script(op)[2] = "ask" /\ Script(op)[3] = "send"
        /\ Script(op)[4] = "receipt" /\ op \notin {"deposit", "tradeCEX"}
    BY <1>1, UnwrapScript
  <2> QED
    BY <2>1, <2>2 DEF Questions
<1>2. CASE op = "withdraw"
  BY <1>2, WithdrawScript DEF Questions, Calls
<1>3. CASE op \in {"swapEVM", "lpMint"}
  BY <1>3, OtherScripts DEF Questions
<1>4. CASE op \in {"lpBurn", "lpCollect"}
  BY <1>4, OtherScripts DEF Questions
<1>5. CASE op \in {"wrap", "nativeMint", "nativeRedeem"}
  BY <1>5, OtherScripts DEF Questions, Calls
<1>6. CASE op = "tradeCEX"
  BY <1>6, OtherScripts DEF Questions, Calls
<1>7. CASE op = "deposit"
  BY <1>7, OtherScripts DEF Questions
<1> QED
  BY <1>1, <1>2, <1>3, <1>4, <1>5, <1>6, <1>7 DEF Ops

-----------------------------------------------------------------------------
(* The inductive invariant *)

USE DEF config

Typed == TypeOK /\ plan \in Seq(Steps)

\* A step is under way only where the engine waits for its receipt.
AtStep ==
    at # 0 =>
        /\ ~Ended /\ at \in 1..Len(Script(step.op))
        /\ Script(step.op)[at] # "receipt" => move[Current] = "none"

Unbegun == \A k \in 1..Len(plan) : k > Current \/ (k = Current /\ at = 0) => move[k] = "none"

\* The loop stops at a failure.
FailureIsLast == \A k \in 1..Len(results) : results[k] = "failed" => k = Len(results)

Reported == FailureIsLast /\ OnlyLostAnswersSpendSilently /\ SuccessMeansDone

VenueInv == Typed /\ AtStep /\ Unbegun /\ Reported

LEMMA InitHolds == Init => VenueInv
<1> SUFFICES ASSUME Init PROVE VenueInv
  OBVIOUS
<1>1. plan \in Seq(Steps) /\ Len(plan) \in Nat
  BY VenueAssumption DEF Init
<1>2. results \in Seq(Outcomes) /\ Len(results) = 0 /\ results = <<>>
  BY DEF Init
<1>3. Typed
  <2>1. mode \in {"paper", "devnet", "live"} /\ wallets \in BOOLEAN /\ dryRun \in BOOLEAN
    BY DEF Init
  <2>3. below \in BOOLEAN
    BY DEF Init
  <2>4. at \in 0..4 /\ troubles \in 0..MaxTroubles
    BY VenueAssumption DEF Init
  <2>5. funds \in [Assets -> Nat] /\ lost \subseteq 1..Len(plan)
    BY VenueAssumption DEF Init
  <2>2. /\ move \in [1..Len(plan) -> {"none", "pending", "reverted", "done"}]
        /\ coming \in [1..Len(plan) -> Nat]
    BY DEF Init
  <2> QED
    BY <1>1, <1>2, <2>1, <2>2, <2>3, <2>4, <2>5 DEF Typed, TypeOK
<1>4. AtStep /\ Unbegun
  BY DEF Init, AtStep, Unbegun
<1>5. Reported
  BY <1>2 DEF Reported, FailureIsLast, OnlyLostAnswersSpendSilently, SuccessMeansDone
<1> QED
  BY <1>3, <1>4, <1>5 DEF VenueInv

-----------------------------------------------------------------------------
(* The end of a step *)

\* The current step, while the plan has not ended.
LEMMA CurrentStep ==
    ASSUME Typed, ~Ended
    PROVE  /\ Len(results) \in Nat /\ Len(plan) \in Nat /\ Current = Len(results) + 1
           /\ Current \in 1..Len(plan) /\ step \in Steps /\ step.op \in Ops
           /\ results # <<>> => results[Len(results)] # "failed"
<1>1. Len(results) \in Nat /\ Len(plan) \in Nat /\ Len(results) <= Len(plan)
  BY DEF Typed, TypeOK
<1>2. Len(results) # Len(plan) /\ (results # <<>> => results[Len(results)] # "failed")
  BY DEF Ended, Failed
<1>3. Current \in 1..Len(plan)
  BY <1>1, <1>2 DEF Current
<1>4. step \in Steps
  BY <1>1, <1>3 DEF step, Typed
<1> QED
  BY <1>1, <1>2, <1>3, <1>4 DEF Current, Steps

\* Only the amount of the next step is overwritten.
LEMMA FinishedStep ==
    ASSUME Typed, ~Ended, NEW result \in Outcomes, NEW out \in Nat \cup {None}, Finish(result, out)
    PROVE  /\ results' \in Seq(Outcomes) /\ Len(results') = Current /\ results'[Current] = result
           /\ \A k \in 1..Len(results) : results'[k] = results[k]
           /\ at' = 0 /\ plan' \in Seq(Steps) /\ Len(plan') = Len(plan)
           /\ \A k \in 1..Len(plan) :
                /\ plan'[k].op = plan[k].op /\ plan'[k].from = plan[k].from /\ plan'[k].to = plan[k].to
                /\ k # Current + 1 => plan'[k] = plan[k]
<1>1. /\ Len(results) \in Nat /\ Len(plan) \in Nat /\ Current = Len(results) + 1
      /\ results \in Seq(Outcomes) /\ plan \in Seq(Steps)
  BY CurrentStep DEF Typed, TypeOK
<1>2. results' = Append(results, result) /\ at' = 0
  BY DEF Finish
<1>3. /\ results' \in Seq(Outcomes) /\ Len(results') = Current /\ results'[Current] = result
      /\ \A k \in 1..Len(results) : results'[k] = results[k]
  BY <1>1, <1>2
<1>4. CASE plan' = plan
  BY <1>1, <1>2, <1>3, <1>4
<1>5. CASE plan' # plan
  <2> DEFINE n == Current + 1
             s == [plan[n] EXCEPT !.amountIn = out]
  <2>1. out \in Nat /\ n \in 1..Len(plan) /\ plan' = [plan EXCEPT ![n].amountIn = out]
    BY <1>1, <1>5 DEF Finish, None
  <2>2. plan[n] \in Steps
    BY <1>1, <2>1
  <2>3. s \in Steps /\ s.op = plan[n].op /\ s.from = plan[n].from /\ s.to = plan[n].to
    BY <2>1, <2>2 DEF Steps
  <2> HIDE DEF s, n
  <2>4. plan' = [plan EXCEPT ![n] = s]
    BY <2>1 DEF s
  <2>5. plan' \in Seq(Steps) /\ Len(plan') = Len(plan)
    BY <1>1, <2>1, <2>3, <2>4, ExceptSeq
  <2>6. \A k \in 1..Len(plan) : IF k = n THEN plan'[k] = s ELSE plan'[k] = plan[k]
    BY <1>1, <2>1, <2>4
  <2> QED
    BY <1>2, <1>3, <2>3, <2>5, <2>6 DEF n
<1> QED
  BY <1>4, <1>5

\* The report of a step holds if it tells what the step has set going.
LEMMA FinishReports ==
    ASSUME VenueInv, ~Ended, NEW result \in Outcomes, NEW out \in Nat \cup {None}, Finish(result, out),
           UNCHANGED config, \A k \in 1..Len(plan) : k # Current => move'[k] = move[k],
           lost \subseteq lost',
           result = "failed" /\ move'[Current] \in {"pending", "done"} => Current \in lost',
           mode # "paper" /\ result = "success" =>
               move'[Current] = IF Immaterial(step) THEN "none" ELSE "done"
    PROVE  plan' \in Seq(Steps) /\ AtStep' /\ Unbegun' /\ Reported'
<1>1. /\ Len(results) \in Nat /\ Len(plan) \in Nat /\ Current = Len(results) + 1
      /\ Current \in 1..Len(plan) /\ (results # <<>> => results[Len(results)] # "failed")
  BY CurrentStep DEF VenueInv
<1>2. /\ results' \in Seq(Outcomes) /\ Len(results') = Current /\ results'[Current] = result
      /\ \A k \in 1..Len(results) : results'[k] = results[k]
      /\ at' = 0 /\ plan' \in Seq(Steps) /\ Len(plan') = Len(plan)
      /\ \A k \in 1..Len(plan) : plan'[k].op = plan[k].op
  BY FinishedStep DEF VenueInv
<1>3. AtStep'
  BY <1>2 DEF AtStep
<1>4. Unbegun'
  <2>1. Current' = Current + 1
    BY <1>1, <1>2 DEF Current
  <2> QED
    BY <1>1, <1>2, <2>1 DEF VenueInv, Unbegun
<1>5. \A k \in 1..Len(results) : results[k] # "failed"
  <2>1. results \in Seq(Outcomes)
    BY DEF VenueInv, Typed, TypeOK
  <2> QED
    BY <1>1, <2>1 DEF VenueInv, Reported, FailureIsLast
<1>6. 1..Len(results') = 1..Len(results) \cup {Current}
  BY <1>1, <1>2
<1>7. FailureIsLast'
  BY <1>1, <1>2, <1>5, <1>6 DEF FailureIsLast
<1>8. OnlyLostAnswersSpendSilently'
  BY <1>1, <1>2, <1>5, <1>6 DEF OnlyLostAnswersSpendSilently
<1>9. SuccessMeansDone'
  <2>1. \A k \in 1..Len(plan) : Immaterial(plan[k])' = Immaterial(plan[k])
    BY <1>2 DEF Immaterial
  <2>2. ASSUME NEW k \in 1..Len(results'), results'[k] = "success", mode # "paper"
        PROVE  move'[k] = IF Immaterial(plan[k])' THEN "none" ELSE "done"
    <3>1. CASE k = Current
      <4>1. Immaterial(plan[k])' = Immaterial(step)
        BY <1>1, <2>1, <3>1 DEF step
      <4> QED
        BY <1>2, <2>2, <3>1, <4>1
    <3>2. CASE k # Current
      <4>1. k \in 1..Len(results) /\ k \in 1..Len(plan) /\ results[k] = "success"
        BY <1>1, <1>2, <1>6, <2>2, <3>2
      <4>2. move[k] = IF Immaterial(plan[k]) THEN "none" ELSE "done"
        BY <2>2, <4>1 DEF VenueInv, Reported, SuccessMeansDone
      <4> QED
        BY <2>1, <3>2, <4>1, <4>2
    <3> QED
      BY <3>1, <3>2
  <2> QED
    BY <2>2 DEF SuccessMeansDone
<1> QED
  BY <1>2, <1>3, <1>4, <1>7, <1>8, <1>9 DEF Reported

\* A step that sets nothing going, and whose await is no receipt, ends with the report it is given.
LEMMA QuietFinish ==
    ASSUME VenueInv, ~Ended, at # 0 => Script(step.op)[at] # "receipt",
           NEW result \in Outcomes, NEW out \in Nat \cup {None}, Finish(result, out),
           UNCHANGED <<config, move, coming, funds, below>>, lost' = lost, troubles' \in 0..MaxTroubles,
           result = "success" => mode = "paper" \/ Immaterial(step)
    PROVE  VenueInv'
<1>1. Current \in 1..Len(plan) /\ Len(plan) \in Nat
  BY CurrentStep DEF VenueInv
<1>2. move[Current] = "none"
  BY <1>1 DEF VenueInv, AtStep, Unbegun
<1>3. plan' \in Seq(Steps) /\ AtStep' /\ Unbegun' /\ Reported'
  BY <1>2, FinishReports
<1>4. results' \in Seq(Outcomes) /\ Len(results') = Current /\ at' = 0 /\ Len(plan') = Len(plan)
  BY FinishedStep DEF VenueInv
<1>5. Typed'
  BY <1>1, <1>3, <1>4 DEF VenueInv, Typed, TypeOK
<1> QED
  BY <1>3, <1>5 DEF VenueInv

\* What a simulation estimates is an amount.
LEMMA SimulatedIsAmount == ASSUME NEW s \in Steps PROVE Simulated(s) \in Nat
<1>1. s.amountIn \in Nat /\ s.expected \in Nat \cup {None}
  BY DEF Steps
<1>2. \A perMille \in Nat : Share(s.amountIn, perMille) \in Nat
  BY <1>1 DEF Share
<1> QED
  BY <1>1, <1>2 DEF Simulated

LEMMA UndispatchedKeeps ==
    ASSUME VenueInv, SkipStep \/ Simulate \/ Refuse
    PROVE  VenueInv'
<1>1. ~Ended /\ at = 0 /\ Unmoved
  BY DEF SkipStep, Simulate, Refuse
<1>2. step \in Steps
  BY <1>1, CurrentStep DEF VenueInv
<1>3. troubles \in 0..MaxTroubles
  BY DEF VenueInv, Typed, TypeOK
<1>4. CASE SkipStep
  BY <1>1, <1>3, <1>4, QuietFinish DEF SkipStep, Unmoved, Outcomes
<1>5. CASE Simulate
  <2>1. Simulated(step) \in Nat \cup {None}
    BY <1>2, SimulatedIsAmount
  <2> QED
    BY <1>1, <1>3, <1>5, <2>1, QuietFinish DEF Simulate, Unmoved, Outcomes
<1>6. CASE Refuse
  BY <1>1, <1>3, <1>6, QuietFinish DEF Refuse, Unmoved, Outcomes
<1> QED
  BY <1>4, <1>5, <1>6

\* The place in the script changes and nothing else.
LEMMA Advance ==
    ASSUME VenueInv, ~Ended, UNCHANGED <<config, plan, results, coming, funds, lost, below, troubles>>,
           at' \in 1..Len(Script(step.op)),
           \A k \in 1..Len(plan) : k # Current => move'[k] = move[k],
           move' \in [1..Len(plan) -> {"none", "pending", "reverted", "done"}],
           Script(step.op)[at'] # "receipt" => move'[Current] = "none"
    PROVE  VenueInv'
<1>1. /\ Current \in 1..Len(plan) /\ Len(plan) \in Nat /\ Current = Len(results) + 1
      /\ Len(results) \in Nat /\ step.op \in Ops
  BY CurrentStep DEF VenueInv
<1>2. at' \in 0..4 /\ at' # 0
  BY <1>1, ScriptFacts
<1>3. Typed'
  BY <1>2 DEF VenueInv, Typed, TypeOK
<1>4. step' = step /\ Current' = Current /\ Ended' = Ended
  BY DEF step, Current, Ended, Failed
<1>5. AtStep'
  BY <1>2, <1>4 DEF AtStep
<1>6. Unbegun'
  BY <1>1, <1>2, <1>4 DEF VenueInv, Unbegun
<1>7. \A k \in 1..Len(results) : k \in 1..Len(plan) /\ move'[k] = move[k]
  BY <1>1
<1>8. Reported'
  <2>1. FailureIsLast'
    BY DEF VenueInv, Reported, FailureIsLast
  <2>2. OnlyLostAnswersSpendSilently'
    BY <1>7 DEF VenueInv, Reported, OnlyLostAnswersSpendSilently
  <2>3. SuccessMeansDone'
    BY <1>7 DEF VenueInv, Reported, SuccessMeansDone, Immaterial
  <2> QED
    BY <2>1, <2>2, <2>3 DEF Reported
<1> QED
  BY <1>3, <1>5, <1>6, <1>8 DEF VenueInv

\* Where a script is, while it is carried out.
LEMMA Awaiting ==
    ASSUME VenueInv, NEW await, At(await)
    PROVE  /\ ~Ended /\ at # 0 /\ at \in 1..Len(Script(step.op)) /\ Script(step.op)[at] = await
           /\ step \in Steps /\ step.op \in Ops /\ Current \in 1..Len(plan)
           /\ await # "receipt" => move[Current] = "none"
<1>1. ~Ended /\ at # 0 /\ Script(step.op)[at] = await
  BY DEF At
<1> QED
  BY <1>1, CurrentStep DEF VenueInv, AtStep

LEMMA DispatchKeeps == ASSUME VenueInv, Dispatch PROVE VenueInv'
<1>1. ~Ended /\ at = 0 /\ at' = 1 /\ UNCHANGED <<plan, results>> /\ Unmoved
  BY DEF Dispatch
<1>2. step.op \in Ops /\ Current \in 1..Len(plan)
  BY <1>1, CurrentStep DEF VenueInv
<1>3. 1 \in 1..Len(Script(step.op)) /\ move[Current] = "none"
  BY <1>1, <1>2, ScriptFacts DEF VenueInv, Unbegun
<1>4. move \in [1..Len(plan) -> {"none", "pending", "reverted", "done"}]
  BY DEF VenueInv, Typed, TypeOK
<1> QED
  BY <1>1, <1>3, <1>4, Advance DEF Unmoved

LEMMA AnswerKeeps == ASSUME VenueInv, Answer PROVE VenueInv'
<1>1. PICK await \in Questions : At(await)
  BY DEF Answer, Questions
<1>2. /\ ~Ended /\ at # 0 /\ at \in 1..Len(Script(step.op)) /\ Script(step.op)[at] \in Questions
      /\ step \in Steps /\ step.op \in Ops /\ Current \in 1..Len(plan) /\ move[Current] = "none"
  BY <1>1, Awaiting DEF Questions
<1>3. Script(step.op)[at] # "receipt" /\ Len(Script(step.op)) \in Nat
  BY <1>2, ScriptFacts DEF Questions
<1>4. CASE at < Len(Script(step.op))
  <2>1. at' = at + 1 /\ UNCHANGED <<plan, results>> /\ Unmoved
    BY <1>4 DEF Answer
  <2>2. at + 1 \in 1..Len(Script(step.op)) /\ Script(step.op)[at + 1] # "receipt"
    BY <1>2, <1>3, <1>4, ScriptFacts
  <2>3. move \in [1..Len(plan) -> {"none", "pending", "reverted", "done"}]
    BY DEF VenueInv, Typed, TypeOK
  <2> QED
    BY <1>2, <2>1, <2>2, <2>3, Advance DEF Unmoved
<1>5. CASE ~(at < Len(Script(step.op)))
  <2>1. Finish("success", step.amountIn) /\ Unmoved
    BY <1>5 DEF Answer
  <2>2. at = Len(Script(step.op))
    BY <1>2, <1>3, <1>5
  <2>3. step.op = "deposit"
    BY <1>2, <2>2, ScriptFacts
  <2>4. Immaterial(step) /\ step.amountIn \in Nat \cup {None}
    BY <1>2, <2>3 DEF Immaterial, Steps
  <2>5. troubles \in 0..MaxTroubles
    BY DEF VenueInv, Typed, TypeOK
  <2> QED
    BY <1>2, <1>3, <2>1, <2>4, <2>5, QuietFinish DEF Unmoved, Outcomes
<1> QED
  BY <1>4, <1>5

LEMMA TroubleCounts == ASSUME VenueInv, InTrouble PROVE troubles' \in 0..MaxTroubles
BY VenueAssumption DEF InTrouble, VenueInv, Typed, TypeOK

LEMMA ThrowKeeps == ASSUME VenueInv, Throw PROVE VenueInv'
<1>1. ~Ended /\ Script(step.op)[at] # "receipt" /\ Finish("failed", None)
  BY DEF Throw, At
<1>2. troubles' \in 0..MaxTroubles
  BY TroubleCounts DEF Throw
<1> QED
  BY <1>1, <1>2, QuietFinish DEF Throw, Outcomes

-----------------------------------------------------------------------------
(* What a step sets going *)

Moves == {"none", "pending", "reverted", "done"}

\* A step that has set something going ends with the report it is given.
LEMMA MovingFinish ==
    ASSUME VenueInv, ~Ended, NEW result \in Outcomes, NEW out \in Nat \cup {None}, Finish(result, out),
           UNCHANGED config, move' \in [1..Len(plan) -> Moves],
           \A k \in 1..Len(plan) : k # Current => move'[k] = move[k],
           coming' \in [1..Len(plan) -> Nat], funds' \in [Assets -> Nat], below' \in BOOLEAN,
           troubles' \in 0..MaxTroubles, lost' \in {lost, lost \cup {Current}},
           result = "failed" /\ move'[Current] \in {"pending", "done"} => Current \in lost',
           mode # "paper" /\ result = "success" =>
               move'[Current] = IF Immaterial(step) THEN "none" ELSE "done"
    PROVE  VenueInv'
<1>1. Current \in 1..Len(plan) /\ Len(plan) \in Nat
  BY CurrentStep DEF VenueInv
<1>2. plan' \in Seq(Steps) /\ AtStep' /\ Unbegun' /\ Reported'
  BY FinishReports
<1>3. results' \in Seq(Outcomes) /\ Len(results') = Current /\ at' = 0 /\ Len(plan') = Len(plan)
  BY FinishedStep DEF VenueInv
<1>4. lost' \subseteq 1..Len(plan)
  BY <1>1 DEF VenueInv, Typed, TypeOK
<1>5. Typed'
  BY <1>1, <1>2, <1>3, <1>4 DEF VenueInv, Typed, TypeOK, Moves
<1> QED
  BY <1>2, <1>5 DEF VenueInv

\* The types of what does not change.
LEMMA Parts ==
    ASSUME VenueInv
    PROVE  /\ move \in [1..Len(plan) -> Moves] /\ coming \in [1..Len(plan) -> Nat]
           /\ funds \in [Assets -> Nat] /\ below \in BOOLEAN /\ troubles \in 0..MaxTroubles
BY DEF VenueInv, Typed, TypeOK, Moves

LEMMA SendKeeps == ASSUME VenueInv, Send \/ SendUnanswered PROVE VenueInv'
<1>1. At("send") /\ Sent
  BY DEF Send, SendUnanswered
<1>2. /\ ~Ended /\ at # 0 /\ at \in 1..Len(Script(step.op)) /\ Script(step.op)[at] = "send"
      /\ step.op \in Ops /\ Current \in 1..Len(plan)
  BY <1>1, Awaiting
<1>3. /\ move' \in [1..Len(plan) -> Moves] /\ move'[Current] = "pending"
      /\ \A k \in 1..Len(plan) : k # Current => move'[k] = move[k]
  BY <1>1, <1>2, Parts DEF Sent, Moves
<1>4. CASE Send
  <2>1. at' = at + 1 /\ UNCHANGED <<config, plan, results, coming, funds, lost, below, troubles>>
    BY <1>4 DEF Send
  <2>2. at + 1 \in 1..Len(Script(step.op)) /\ Script(step.op)[at + 1] = "receipt"
    BY <1>2, ScriptFacts
  <2> QED
    BY <1>2, <1>3, <2>1, <2>2, Advance DEF Moves
<1>5. CASE SendUnanswered
  <2>1. Finish("failed", None) /\ lost' = lost \cup {Current} /\ UNCHANGED <<config, coming, funds, below>>
    BY <1>5 DEF SendUnanswered
  <2>2. troubles' \in 0..MaxTroubles
    BY <1>5, TroubleCounts DEF SendUnanswered
  <2> QED
    BY <1>2, <1>3, <2>1, <2>2, Parts, MovingFinish DEF Outcomes
<1> QED
  BY <1>4, <1>5

LEMMA ReceiptKeeps == ASSUME VenueInv, Receipt \/ ReceiptTimesOut PROVE VenueInv'
<1>1. At("receipt") /\ UNCHANGED <<config, move, coming, funds, below>>
  BY DEF Receipt, ReceiptTimesOut, Unmoved
<1>2. /\ ~Ended /\ at \in 1..Len(Script(step.op)) /\ Script(step.op)[at] = "receipt"
      /\ step.op \in Ops /\ Current \in 1..Len(plan)
  BY <1>1, Awaiting
<1>3. step.op \notin {"deposit", "tradeCEX"} /\ ~Immaterial(step)
  BY <1>2, ScriptFacts DEF Immaterial
<1>4. CASE Receipt
  <2>1. /\ move[Current] \in {"done", "reverted"} /\ lost' = lost /\ troubles' = troubles
        /\ Finish(IF move[Current] = "done" THEN "success" ELSE "failed", None)
    BY <1>4 DEF Receipt, Unmoved
  <2>2. CASE move[Current] = "done"
    BY <1>1, <1>2, <1>3, <2>1, <2>2, Parts, MovingFinish DEF Outcomes
  <2>3. CASE move[Current] = "reverted"
    BY <1>1, <1>2, <1>3, <2>1, <2>3, Parts, MovingFinish DEF Outcomes
  <2> QED
    BY <2>1, <2>2, <2>3
<1>5. CASE ReceiptTimesOut
  <2>1. Finish("failed", None) /\ lost' = lost \cup {Current}
    BY <1>5 DEF ReceiptTimesOut
  <2>2. troubles' \in 0..MaxTroubles
    BY <1>5, TroubleCounts DEF ReceiptTimesOut
  <2> QED
    BY <1>1, <1>2, <2>1, <2>2, Parts, MovingFinish DEF Outcomes
<1> QED
  BY <1>4, <1>5

-----------------------------------------------------------------------------
(* What the venues do *)

LEMMA Updated ==
    ASSUME NEW f \in [Assets -> Nat], NEW a, NEW n, a \in Assets => n \in Nat
    PROVE  [f EXCEPT ![a] = n] \in [Assets -> Nat]
OBVIOUS

\* A payment overdraws no wallet.
LEMMA PayKeepsTypes ==
    ASSUME VenueInv, NEW k \in 1..Len(plan), NEW spent \in Nat, NEW got \in Nat,
           NEW later \in BOOLEAN, Pay(k, spent, got, later)
    PROVE  /\ funds' \in [Assets -> Nat] /\ coming' \in [1..Len(plan) -> Nat]
           /\ move' = [move EXCEPT ![k] = "done"] /\ move' \in [1..Len(plan) -> Moves]
<1> DEFINE source == Source(plan[k])
           target == plan[k].to
           paid == [funds EXCEPT ![source] = @ - spent]
<1>1. /\ spent <= funds[source]
      /\ funds' = IF later THEN paid ELSE [paid EXCEPT ![target] = @ + got]
      /\ coming' = [coming EXCEPT ![k] = IF later THEN got ELSE 0]
      /\ move' = [move EXCEPT ![k] = "done"]
  BY DEF Pay
<1>2. /\ move \in [1..Len(plan) -> Moves] /\ coming \in [1..Len(plan) -> Nat]
      /\ funds \in [Assets -> Nat]
  BY Parts
<1> HIDE DEF source, target
<1>3. paid \in [Assets -> Nat]
  <2>1. source \in Assets => funds[source] - spent \in Nat
    BY <1>1, <1>2
  <2> QED
    BY <1>2, <2>1, Updated
<1> HIDE DEF paid
<1>4. [paid EXCEPT ![target] = @ + got] \in [Assets -> Nat]
  <2>1. target \in Assets => paid[target] + got \in Nat
    BY <1>3
  <2> QED
    BY <1>3, <2>1, Updated
<1>5. funds' \in [Assets -> Nat]
  BY <1>1, <1>3, <1>4
<1>6. coming' \in [1..Len(plan) -> Nat]
  BY <1>1, <1>2
<1>7. move' \in [1..Len(plan) -> Moves]
  BY <1>1, <1>2 DEF Moves
<1> QED
  BY <1>1, <1>5, <1>6, <1>7

\* A pending transaction is mined or reverts: its step waits for the receipt, or no longer does.
LEMMA MinedKeeps ==
    ASSUME VenueInv, NEW k \in 1..Len(plan), move[k] = "pending",
           NEW m \in {"done", "reverted"}, move' = [move EXCEPT ![k] = m],
           UNCHANGED <<config, plan, results, at, lost, below, troubles>>,
           coming' \in [1..Len(plan) -> Nat], funds' \in [Assets -> Nat]
    PROVE  VenueInv'
<1>1. /\ move' \in [1..Len(plan) -> Moves] /\ move'[k] = m
      /\ \A j \in 1..Len(plan) : j # k => move'[j] = move[j]
  BY Parts DEF Moves
<1>2. Typed'
  BY <1>1 DEF VenueInv, Typed, TypeOK, Moves
<1>3. step' = step /\ Current' = Current /\ Ended' = Ended
  BY DEF step, Current, Ended, Failed
<1>4. AtStep'
  <2>1. ASSUME at # 0
        PROVE  Current \in 1..Len(plan)
    BY <2>1, CurrentStep DEF VenueInv, AtStep
  <2> QED
    BY <1>1, <1>3, <2>1 DEF VenueInv, AtStep
<1>5. Unbegun'
  BY <1>1, <1>3 DEF VenueInv, Unbegun
<1>6. \A j \in 1..Len(results) : j \in 1..Len(plan)
  BY DEF VenueInv, Typed, TypeOK
<1>7. FailureIsLast' /\ OnlyLostAnswersSpendSilently'
  BY <1>1, <1>6 DEF VenueInv, Reported, FailureIsLast, OnlyLostAnswersSpendSilently
<1>8. SuccessMeansDone'
  BY <1>1, <1>6 DEF VenueInv, Reported, SuccessMeansDone, Immaterial
<1> QED
  BY <1>2, <1>4, <1>5, <1>7, <1>8 DEF VenueInv, Reported

\* What a conversion takes is an amount, of what was to be converted no more.
LEMMA TruncatedIsPart ==
    ASSUME NEW amount \in Nat
    PROVE  Truncated(amount) \in Nat /\ Truncated(amount) <= amount
<1>1. \A n \in Nat, d \in Nat \ {0} : (n \div d) * d \in Nat /\ (n \div d) * d <= n
  <2> SUFFICES ASSUME NEW n \in Nat, NEW d \in Nat \ {0}
               PROVE  (n \div d) * d \in Nat /\ (n \div d) * d <= n
    OBVIOUS
  <2>1. n \div d \in Nat /\ n % d \in Nat /\ n = d * (n \div d) + (n % d)
    OBVIOUS
  <2> DEFINE q == n \div d
             rest == n % d
  <2>2. q \in Nat /\ rest \in Nat /\ n = d * q + rest
    BY <2>1
  <2> HIDE DEF q, rest
  <2>3. q * d \in Nat /\ q * d <= n
    BY <2>2
  <2> QED
    BY <2>3 DEF q
<1> QED
  BY <1>1, VenueAssumption DEF Truncated

\* What is converted, and what the bridge pays out, is an amount.
LEMMA ConvertedAreAmounts == ASSUME NEW s \in Steps PROVE Converted(s) \subseteq Nat
<1>1. Estimate(s) \in Int
  BY DEF Estimate, Steps, None
<1> QED
  BY <1>1, VenueAssumption DEF Converted

LEMMA BridgeFeeIsPart ==
    ASSUME NEW amount \in Nat
    PROVE  LessFee(amount) \in Nat
<1>1. UnwrapFeeBps \in Nat /\ UnwrapFeeBps <= 10000
  BY VenueAssumption
<1>2. amount * UnwrapFeeBps \in Nat /\ amount * UnwrapFeeBps <= amount * 10000
  BY <1>1
<1> DEFINE x == amount * UnwrapFeeBps
<1> HIDE DEF x
<1>3. x \in Nat /\ x <= amount * 10000
  BY <1>2 DEF x
<1>4. x \div 10000 \in Nat /\ x \div 10000 <= amount
  BY <1>3
<1> QED
  BY <1>4 DEF x, LessFee

LEMMA MineKeeps == ASSUME VenueInv, NEW k \in 1..Len(plan), Mine(k) PROVE VenueInv'
<1>1. move[k] = "pending" /\ UNCHANGED <<config, plan, results, at, lost, below, troubles>>
  BY DEF Mine
<1>2. plan[k] \in Steps /\ plan[k].amountIn \in Nat
  <2>1. plan \in Seq(Steps)
    BY DEF VenueInv, Typed
  <2>2. plan[k] \in Steps
    BY <2>1
  <2> QED
    BY <2>2 DEF Steps
<1>3. PICK spent \in Nat, got \in Nat, later \in BOOLEAN : Pay(k, spent, got, later)
  <2>1. CASE plan[k].op = "swapEVM"
    <3>1. PICK out \in Converted(plan[k]) : Pay(k, plan[k].amountIn, out, FALSE)
      BY <2>1 DEF Mine, MineSwap
    <3> QED
      BY <1>2, <3>1, ConvertedAreAmounts
  <2>2. CASE plan[k].op = "unwrap"
    <3>1. MineBurn(k)
      BY <2>2 DEF Mine
    <3>2. Pay(k, plan[k].amountIn, LessFee(plan[k].amountIn), TRUE)
      BY <3>1 DEF MineBurn
    <3> QED
      BY <1>2, <3>2, BridgeFeeIsPart
  <2>3. CASE plan[k].op \notin {"swapEVM", "unwrap"}
    <3>1. Pay(k, 0, 0, FALSE)
      BY <2>3 DEF Mine
    <3> QED
      BY <3>1
  <2> QED
    BY <2>1, <2>2, <2>3
<1> QED
  BY <1>1, <1>3, PayKeepsTypes, MinedKeeps

LEMMA RevertKeeps == ASSUME VenueInv, NEW k \in 1..Len(plan), Revert(k) PROVE VenueInv'
<1>1. /\ move[k] = "pending" /\ move' = [move EXCEPT ![k] = "reverted"]
      /\ UNCHANGED <<config, plan, results, at, coming, funds, lost, below, troubles>>
  BY DEF Revert
<1> QED
  BY <1>1, Parts, MinedKeeps

LEMMA ArriveKeeps == ASSUME VenueInv, NEW k \in 1..Len(plan), Arrive(k) PROVE VenueInv'
<1>1. /\ funds' = [funds EXCEPT ![plan[k].to] = @ + coming[k]] /\ coming' = [coming EXCEPT ![k] = 0]
      /\ UNCHANGED <<config, plan, results, at, move, lost, below, troubles>>
  BY DEF Arrive
<1>2. funds' \in [Assets -> Nat] /\ coming' \in [1..Len(plan) -> Nat]
  <2> DEFINE target == plan[k].to
  <2>1. target \in Assets => funds[target] + coming[k] \in Nat
    BY Parts
  <2>2. [funds EXCEPT ![target] = funds[target] + coming[k]] \in [Assets -> Nat]
    BY <2>1, Parts, Updated
  <2> QED
    BY <1>1, <2>2, Parts
<1>3. Typed'
  BY <1>1, <1>2 DEF VenueInv, Typed, TypeOK
<1>4. AtStep' /\ Unbegun' /\ Reported'
  BY <1>1 DEF VenueInv, AtStep, Unbegun, Reported, FailureIsLast, OnlyLostAnswersSpendSilently,
              SuccessMeansDone, Immaterial, step, Current, Ended, Failed
<1> QED
  BY <1>3, <1>4 DEF VenueInv

\* A call pays, but for the orders that move nothing.
LEMMA CallPays ==
    ASSUME VenueInv, At("call"), CallTakesEffect
    PROVE  /\ funds' \in [Assets -> Nat] /\ coming' \in [1..Len(plan) -> Nat] /\ below' \in BOOLEAN
           /\ move' \in [1..Len(plan) -> Moves]
           /\ \A k \in 1..Len(plan) : k # Current => move'[k] = move[k]
           /\ move'[Current] = IF Immaterial(step) THEN "none" ELSE "done"
<1>1. /\ at \in 1..Len(Script(step.op)) /\ Script(step.op)[at] = "call" /\ move[Current] = "none"
      /\ step \in Steps /\ step.op \in Ops /\ Current \in 1..Len(plan)
  BY Awaiting
<1>2. step.op \in Calls /\ step.amountIn \in Nat
  BY <1>1, ScriptFacts DEF Steps
<1>3. ASSUME NEW spent \in Nat, NEW got \in Nat, NEW later \in BOOLEAN,
             Pay(Current, spent, got, later), below' \in BOOLEAN, ~Immaterial(step)
      PROVE  /\ funds' \in [Assets -> Nat] /\ coming' \in [1..Len(plan) -> Nat] /\ below' \in BOOLEAN
             /\ move' \in [1..Len(plan) -> Moves]
             /\ \A k \in 1..Len(plan) : k # Current => move'[k] = move[k]
             /\ move'[Current] = IF Immaterial(step) THEN "none" ELSE "done"
  <2>1. /\ funds' \in [Assets -> Nat] /\ coming' \in [1..Len(plan) -> Nat]
        /\ move' = [move EXCEPT ![Current] = "done"] /\ move' \in [1..Len(plan) -> Moves]
    BY <1>1, <1>3, PayKeepsTypes
  <2>2. move \in [1..Len(plan) -> Moves]
    BY Parts
  <2> QED
    BY <1>1, <1>3, <2>1, <2>2
<1>4. below \in BOOLEAN
  BY Parts
<1>5. CASE step.op \in {"nativeMint", "nativeRedeem"}
  <2>1. PICK out \in Converted(step) :
            Pay(Current, Truncated(step.amountIn), out, FALSE) /\ below' = (below \/ out < Estimate(step))
    BY <1>5 DEF CallTakesEffect, Convert
  <2>2. out \in Nat /\ below' \in BOOLEAN /\ ~Immaterial(step)
    BY <1>1, <1>5, <2>1, ConvertedAreAmounts DEF Immaterial
  <2>3. Truncated(step.amountIn) \in Nat
    BY <1>2, TruncatedIsPart
  <2> QED
    BY <1>3, <2>1, <2>2, <2>3
<1>6. CASE step.op \in {"wrap", "withdraw"}
  <2>1. Pay(Current, step.amountIn, step.amountIn, TRUE) /\ below' = below /\ ~Immaterial(step)
    BY <1>6 DEF CallTakesEffect, SendToBridge, Withdraw, Immaterial
  <2> QED
    BY <1>2, <1>3, <1>4, <2>1
<1>7. CASE step.op = "tradeCEX" /\ wallets
  <2>1. UNCHANGED <<funds, coming, move, below>> /\ Immaterial(step)
    BY <1>7 DEF CallTakesEffect, TradeByWallets, Immaterial
  <2> QED
    BY <1>1, <2>1, Parts
<1>8. CASE step.op = "tradeCEX" /\ ~wallets
  <2> DEFINE spent == Due(step)
             got == IF Buys(step) THEN step.amountIn ELSE step.amountIn * ExchangePrice
  <2>1. Pay(Current, spent, got, FALSE) /\ below' = below /\ ~Immaterial(step)
    BY <1>8 DEF CallTakesEffect, TradeOnExchange, Immaterial
  <2>2. step.amountIn * ExchangePrice \in Nat
    BY <1>2, VenueAssumption
  <2>3. spent \in Nat /\ got \in Nat
    BY <1>2, <2>2 DEF Due
  <2> QED
    BY <1>3, <1>4, <2>1, <2>3
<1> QED
  BY <1>2, <1>5, <1>6, <1>7, <1>8 DEF Calls

LEMMA CallKeeps == ASSUME VenueInv, Call \/ CallUnanswered PROVE VenueInv'
<1>1. At("call") /\ CallTakesEffect /\ UNCHANGED config
  BY DEF Call, CallUnanswered
<1>2. /\ funds' \in [Assets -> Nat] /\ coming' \in [1..Len(plan) -> Nat] /\ below' \in BOOLEAN
      /\ move' \in [1..Len(plan) -> Moves]
      /\ \A k \in 1..Len(plan) : k # Current => move'[k] = move[k]
      /\ move'[Current] = IF Immaterial(step) THEN "none" ELSE "done"
  BY <1>1, CallPays
<1>3. ~Ended /\ step \in Steps
  BY <1>1, Awaiting
<1>4. CASE Call
  <2>1. Finish("success", AmountOut(step)) /\ lost' = lost /\ troubles' = troubles
    BY <1>4 DEF Call
  <2>2. AmountOut(step) \in Nat \cup {None}
    BY <1>3 DEF AmountOut, Steps
  <2> QED
    BY <1>1, <1>2, <1>3, <2>1, <2>2, Parts, MovingFinish DEF Outcomes
<1>5. CASE CallUnanswered
  <2>1. Finish("failed", None) /\ lost' = lost \cup {Current}
    BY <1>5 DEF CallUnanswered
  <2>2. troubles' \in 0..MaxTroubles
    BY <1>5, TroubleCounts DEF CallUnanswered
  <2> QED
    BY <1>1, <1>2, <1>3, <2>1, <2>2, MovingFinish DEF Outcomes
<1> QED
  BY <1>4, <1>5

LEMMA CallRefusedKeeps == ASSUME VenueInv, CallRefused PROVE VenueInv'
<1>1. At("call") /\ Finish("failed", None) /\ Unmoved
  BY DEF CallRefused
<1>2. ~Ended /\ Script(step.op)[at] = "call"
  BY <1>1, Awaiting
<1> QED
  BY <1>1, <1>2, Parts, QuietFinish DEF Unmoved, Outcomes

-----------------------------------------------------------------------------
(* The theorems *)

LEMMA StepHolds == VenueInv /\ [Next]_vars => VenueInv'
<1> SUFFICES ASSUME VenueInv, [Next]_vars PROVE VenueInv'
  OBVIOUS
<1>1. CASE SkipStep \/ Simulate \/ Refuse
  BY <1>1, UndispatchedKeeps
<1>2. CASE Dispatch \/ Answer
  BY <1>2, DispatchKeeps, AnswerKeeps
<1>3. CASE Send \/ SendUnanswered
  BY <1>3, SendKeeps
<1>4. CASE Receipt \/ ReceiptTimesOut
  BY <1>4, ReceiptKeeps
<1>5. CASE Call \/ CallUnanswered
  BY <1>5, CallKeeps
<1>6. CASE CallRefused \/ Throw
  BY <1>6, CallRefusedKeeps, ThrowKeeps
<1>7. CASE Venues
  <2>1. PICK k \in 1..MaxSteps : Mine(k) \/ Revert(k) \/ Arrive(k)
    BY <1>7 DEF Venues
  <2>2. Len(plan) \in Nat
    BY DEF VenueInv, Typed
  <2>3. k \in 1..Len(plan)
    <3>1. k <= Len(plan)
      BY <2>1 DEF Mine, Revert, Arrive
    <3> QED
      BY <2>2, <3>1 DEF MaxSteps
  <2> QED
    BY <2>1, <2>3, MineKeeps, RevertKeeps, ArriveKeeps
<1>8. CASE UNCHANGED vars
  BY <1>8 DEF vars, VenueInv, Typed, TypeOK, AtStep, Unbegun, Reported, FailureIsLast,
              OnlyLostAnswersSpendSilently, SuccessMeansDone, Immaterial, step, Current, Ended, Failed
<1> QED
  BY <1>1, <1>2, <1>3, <1>4, <1>5, <1>6, <1>7, <1>8 DEF Next, Progress, Trouble

LEMMA Invariance == Spec => []VenueInv
BY InitHolds, StepHolds, PTL DEF Spec

\* Every variable keeps its type, and no wallet is overdrawn (engine.execution.ts, executePlan, and
\* the executors under src/services).
THEOREM TypeCorrect == Spec => []TypeOK
<1>1. VenueInv => TypeOK
  BY DEF VenueInv, Typed
<1> QED
  BY <1>1, Invariance, PTL

\* A step reported failed has spent nothing, and nothing of it is under way, unless its answer was
\* lost; and it is the last (execution.dispatch.ts; services/evm/executor.ts, waitForReceipt).
THEOREM FailuresSpendNothing == Spec => []OnlyLostAnswersSpendSilently
<1>1. VenueInv => OnlyLostAnswersSpendSilently
  BY DEF VenueInv, Reported
<1> QED
  BY <1>1, Invariance, PTL

\* A step reported successful has been paid for before the next one starts (engine.execution.ts,
\* executePlan), but for deposits, and trades on the development network.
THEOREM SuccessesArePaid == Spec => []SuccessMeansDone
<1>1. VenueInv => SuccessMeansDone
  BY DEF VenueInv, Reported
<1> QED
  BY <1>1, Invariance, PTL

-----------------------------------------------------------------------------
(***************************************************************************)
(* The ledger.  What a place holds is what it held before the plan, with   *)
(* what every step that is done has taken from it and brought to it, less  *)
(* what is still on its way.                                               *)
(***************************************************************************)
Native == {"nativeMint", "nativeRedeem"}
Transactions == {"swapEVM", "unwrap", "lpMint", "lpBurn", "lpCollect"}

\* Only transactions are sent, and a conversion is not made that the wallet does not know.
Dispatched ==
    /\ \A k \in 1..Len(plan) :
        /\ move[k] = "pending" => plan[k].op \in Transactions
        /\ move[k] = "done" => Convertible(plan[k])
    /\ at # 0 => Convertible(step)

\* What the k-th step has changed at a place.
Change(k, a) ==
    IF k <= Len(plan) /\ move[k] = "done"
    THEN (IF a = plan[k].to THEN Brings(plan[k]) - coming[k] ELSE 0)
            - (IF a = Source(plan[k]) THEN Spends(plan[k]) ELSE 0)
    ELSE 0

Changes(a) == Change(1, a) + Change(2, a) + Change(3, a) + Change(4, a)

Accounted ==
    /\ \A k \in 1..Len(plan) : move[k] # "done" => coming[k] = 0
    /\ \A a \in Assets :
        /\ IsTransfer(plan) => funds[a] = Initially[a] + Changes(a)
        /\ ~below => funds[a] >= Initially[a] + Changes(a)

\* The plans that are followed: their amounts stay as they were planned.
Followed(p) == IsTransfer(p) \/ IsRoundTrip(p)

LedgerInv ==
    /\ VenueInv /\ Dispatched
    /\ mode # "paper" /\ Followed(plan) => plan \in Plans /\ Accounted

-----------------------------------------------------------------------------
(* Steps and plans *)

LEMMA StepAmounts ==
    ASSUME NEW s \in Steps
    PROVE  Spends(s) \in Nat /\ Brings(s) \in Int /\ s.amountIn \in Nat /\ s.to \in Assets /\ s.op \in Ops
<1>1. s.amountIn \in Nat /\ s.expected \in Nat \cup {None} /\ s.to \in Assets /\ s.op \in Ops
  BY DEF Steps
<1>2. LessFee(s.amountIn) \in Nat
  BY <1>1, BridgeFeeIsPart
<1>3. Spends(s) \in Nat
  BY <1>1 DEF Spends
<1>4. Estimate(s) \in Int /\ (IF s.expected = None THEN 0 ELSE s.expected) \in Int
  BY <1>1 DEF Estimate, None
<1> QED
  BY <1>1, <1>2, <1>3, <1>4 DEF Brings

\* Whether a plan is followed is told by its operations and places, not by its amounts.
LEMMA SamePlaces ==
    ASSUME NEW p \in Seq(Steps), NEW q \in Seq(Steps), Len(q) = Len(p), Len(p) # 0,
           \A k \in 1..Len(p) : q[k].op = p[k].op /\ q[k].from = p[k].from /\ q[k].to = p[k].to
    PROVE  (IsTransfer(q) <=> IsTransfer(p)) /\ (IsRoundTrip(q) <=> IsRoundTrip(p))
<1>1. Len(p) \in Nat /\ 1 \in 1..Len(p) /\ Len(p) \in 1..Len(p)
  OBVIOUS
<1>2. IsTransfer(q) <=> IsTransfer(p)
  BY DEF IsTransfer
<1>3. \A k \in 1..Len(p) - 1 : k \in 1..Len(p) /\ k + 1 \in 1..Len(p)
  BY <1>1
<1>4. IsRoundTrip(q) <=> IsRoundTrip(p)
  BY <1>1, <1>3 DEF IsRoundTrip
<1> QED
  BY <1>2, <1>4

\* The amounts of such a plan are not corrected by what its steps gave.
LEMMA PlanStays ==
    ASSUME VenueInv, ~Ended, mode # "paper" /\ Followed(plan) => plan \in Plans,
           NEW result \in Outcomes, NEW out \in Nat \cup {None}, Finish(result, out),
           mode # "paper" => out = None \/ (out = step.amountIn /\ step.op \in {"deposit", "tradeCEX", "withdraw"})
    PROVE  mode # "paper" /\ Followed(plan') => plan' = plan /\ Followed(plan)
<1> SUFFICES ASSUME mode # "paper", Followed(plan') PROVE plan' = plan /\ Followed(plan)
  OBVIOUS
<1>1. /\ Current \in 1..Len(plan) /\ Len(plan) \in Nat /\ plan \in Seq(Steps)
      /\ step = plan[Current]
  BY CurrentStep DEF VenueInv, Typed, step
<1>2. /\ plan' \in Seq(Steps) /\ Len(plan') = Len(plan)
      /\ \A k \in 1..Len(plan) :
            plan'[k].op = plan[k].op /\ plan'[k].from = plan[k].from /\ plan'[k].to = plan[k].to
  BY FinishedStep DEF VenueInv
<1>3. Followed(plan)
  BY <1>1, <1>2, SamePlaces DEF Followed
<1>4. plan \in Plans
  BY <1>3
<1>5. CASE out = None
  BY <1>3, <1>5 DEF Finish, None
<1>6. CASE out = step.amountIn /\ step.op \in {"deposit", "tradeCEX", "withdraw"}
  <2>1. plan' = plan \/ (Current < Len(plan) /\ plan' = [plan EXCEPT ![Current + 1].amountIn = out])
    BY DEF Finish
  <2>2. CASE Current < Len(plan) /\ plan' = [plan EXCEPT ![Current + 1].amountIn = out]
    <3>1. ~IsRoundTrip(plan)
      BY <1>1, <1>4, <1>6, PlansAssumption
    <3>2. IsTransfer(plan)
      BY <1>3, <3>1 DEF Followed
    <3>3. Len(plan) = 2 /\ Current = 1 /\ plan[2].amountIn = plan[1].amountIn
      BY <1>1, <1>4, <2>2, <3>2, PlansAssumption
    <3>4. plan[2] \in Steps /\ 2 \in 1..Len(plan) /\ out = plan[2].amountIn
      <4>1. plan[1] = step
        BY <1>1, <3>3, Zenon
      <4>2. 2 \in 1..Len(plan) /\ plan[2] \in Steps
        <5>1. 2 \in 1..Len(plan)
          BY <3>3
        <5>2. \A i \in 1..Len(plan) : plan[i] \in Steps
          BY <1>1
        <5> QED
          BY <5>1, <5>2
      <4> QED
        BY <1>6, <3>3, <4>1, <4>2
    <3>5. [plan[2] EXCEPT !.amountIn = out] = plan[2]
      BY <3>4 DEF Steps
    <3>6. plan' = [plan EXCEPT ![2] = plan[2]]
      <4>1. Current + 1 = 2
        BY <3>3
      <4>2. plan' = [plan EXCEPT ![2].amountIn = out]
        BY <2>2, <4>1
      <4> QED
        BY <3>5, <4>2
    <3> QED
      BY <1>1, <1>3, <3>4, <3>6
  <2> QED
    BY <1>3, <2>1, <2>2
<1> QED
  BY <1>5, <1>6

-----------------------------------------------------------------------------
(* What changes in the ledger *)

LEMMA ChangesAreNumbers ==
    ASSUME VenueInv
    PROVE  \A k \in 1..4, a \in Assets : Change(k, a) \in Int
<1> SUFFICES ASSUME NEW k \in 1..4, NEW a \in Assets PROVE Change(k, a) \in Int
  OBVIOUS
<1>1. CASE k <= Len(plan) /\ move[k] = "done"
  <2>1. k \in 1..Len(plan) /\ plan[k] \in Steps /\ coming[k] \in Nat
    <3>1. plan \in Seq(Steps) /\ Len(plan) \in Nat /\ coming \in [1..Len(plan) -> Nat]
      BY DEF VenueInv, Typed, TypeOK
    <3> QED
      BY <1>1, <3>1
  <2>2. Spends(plan[k]) \in Nat /\ Brings(plan[k]) \in Int
    BY <2>1, StepAmounts
  <2> QED
    BY <2>1, <2>2 DEF Change
<1>2. CASE ~(k <= Len(plan) /\ move[k] = "done")
  BY <1>2 DEF Change
<1> QED
  BY <1>1, <1>2

\* When one step changes what it has changed, so do all together.
LEMMA OneChanges ==
    ASSUME VenueInv, NEW a \in Assets, NEW k \in 1..4, Change(k, a)' \in Int,
           \A j \in 1..4 : j # k => Change(j, a)' = Change(j, a)
    PROVE  /\ Changes(a) \in Int /\ Changes(a)' \in Int
           /\ Changes(a)' - Changes(a) = Change(k, a)' - Change(k, a)
<1>1. \A j \in 1..4 : Change(j, a) \in Int
  BY ChangesAreNumbers
<1>2. \A j \in 1..4 : Change(j, a)' \in Int
  BY <1>1
<1>3. 1 \in 1..4 /\ 2 \in 1..4 /\ 3 \in 1..4 /\ 4 \in 1..4
  OBVIOUS
<1>4. k = 1 \/ k = 2 \/ k = 3 \/ k = 4
  OBVIOUS
<1> QED
  BY <1>1, <1>2, <1>3, <1>4 DEF Changes

-----------------------------------------------------------------------------
(* What leaves the ledger as it is *)

LEMMA QuietLedger ==
    ASSUME LedgerInv, UNCHANGED <<mode, coming, funds, below>>,
           mode # "paper" /\ Followed(plan') => plan' = plan /\ Followed(plan),
           \A k \in 1..Len(plan) : move'[k] = "done" <=> move[k] = "done"
    PROVE  mode' # "paper" /\ Followed(plan') => plan' \in Plans /\ Accounted'
<1> SUFFICES ASSUME mode # "paper", Followed(plan') PROVE plan' \in Plans /\ Accounted'
  OBVIOUS
<1>1. plan' = plan /\ plan \in Plans /\ Accounted
  BY DEF LedgerInv
<1>2. Len(plan) \in 1..4
  BY <1>1, PlansAssumption DEF MaxSteps
<1>3. ASSUME NEW k \in 1..4, NEW a \in Assets
      PROVE  Change(k, a)' = Change(k, a)
  <2>1. k <= Len(plan) => k \in 1..Len(plan)
    BY <1>2
  <2>2. k <= Len(plan) => (move'[k] = "done" <=> move[k] = "done")
    BY <2>1
  <2> QED
    BY <1>1, <2>2, Zenon DEF Change
<1>4. \A a \in Assets : Changes(a)' = Changes(a)
  <2>1. 1 \in 1..4 /\ 2 \in 1..4 /\ 3 \in 1..4 /\ 4 \in 1..4
    OBVIOUS
  <2> QED
    BY <1>3, <2>1 DEF Changes
<1> QED
  BY <1>1, <1>4 DEF Accounted, IsTransfer

LEMMA DispatchedStays ==
    ASSUME LedgerInv, Len(plan') = Len(plan),
           \A k \in 1..Len(plan) :
               plan'[k].op = plan[k].op /\ plan'[k].from = plan[k].from /\ plan'[k].to = plan[k].to,
           \A k \in 1..Len(plan) :
               /\ move'[k] = "pending" => move[k] = "pending" \/ plan[k].op \in Transactions
               /\ move'[k] = "done" => move[k] \in {"pending", "done"} \/ Convertible(plan[k]),
           at' # 0 => Convertible(step)'
    PROVE  Dispatched'
<1>1. \A k \in 1..Len(plan) : Convertible(plan'[k]) <=> Convertible(plan[k])
  BY DEF Convertible, Conversions
<1>2. \A k \in 1..Len(plan) : plan[k].op \in Transactions => Convertible(plan[k])
  BY DEF Convertible, Transactions
<1>3. \A k \in 1..Len(plan) :
        /\ move'[k] = "pending" => plan'[k].op \in Transactions
        /\ move'[k] = "done" => Convertible(plan'[k])
  BY <1>1, <1>2 DEF LedgerInv, Dispatched
<1>4. \A k \in 1..Len(plan) : Convertible(plan[k])' <=> Convertible(plan'[k])
  BY DEF Convertible, Conversions, Mints, Redemptions
<1> QED
  BY <1>3, <1>4 DEF Dispatched

\* A report of a step, of which nothing has been paid meanwhile.
LEMMA ReportKeeps ==
    ASSUME LedgerInv, VenueInv', ~Ended, NEW result \in Outcomes, NEW out \in Nat \cup {None},
           Finish(result, out), UNCHANGED <<config, coming, funds, below>>,
           mode # "paper" => out = None \/ (out = step.amountIn /\ step.op = "deposit"),
           \A k \in 1..Len(plan) :
               /\ move'[k] = "pending" => move[k] = "pending" \/ plan[k].op \in Transactions
               /\ move'[k] = "done" <=> move[k] = "done"
    PROVE  LedgerInv'
<1>1. VenueInv /\ (mode # "paper" /\ Followed(plan) => plan \in Plans)
  BY DEF LedgerInv
<1>2. /\ at' = 0 /\ Len(plan') = Len(plan)
      /\ \A k \in 1..Len(plan) :
            plan'[k].op = plan[k].op /\ plan'[k].from = plan[k].from /\ plan'[k].to = plan[k].to
  BY <1>1, FinishedStep DEF VenueInv
<1>3. Dispatched'
  BY <1>2, DispatchedStays
<1>4. mode # "paper" /\ Followed(plan') => plan' = plan /\ Followed(plan)
  BY <1>1, PlanStays
<1>5. mode' # "paper" /\ Followed(plan') => plan' \in Plans /\ Accounted'
  BY <1>4, QuietLedger
<1>6. Followed(plan)' <=> Followed(plan')
  BY DEF Followed, IsTransfer, IsRoundTrip
<1> QED
  BY <1>3, <1>5, <1>6 DEF LedgerInv

\* A step in the script.
LEMMA AdvanceKeeps ==
    ASSUME LedgerInv, VenueInv', UNCHANGED <<config, plan, results, coming, funds, below>>,
           \A k \in 1..Len(plan) :
               /\ move'[k] = "pending" => move[k] = "pending" \/ plan[k].op \in Transactions
               /\ move'[k] = "done" <=> move[k] = "done",
           at' # 0 => at # 0 \/ Convertible(step)
    PROVE  LedgerInv'
<1>1. Convertible(step)' <=> Convertible(step)
  BY DEF Convertible, Conversions, step, Current, Mints, Redemptions
<1>2. Dispatched'
  BY <1>1, DispatchedStays DEF LedgerInv, Dispatched
<1>3. mode' # "paper" /\ Followed(plan') => plan' \in Plans /\ Accounted'
  BY QuietLedger
<1>4. Followed(plan)' <=> Followed(plan')
  BY DEF Followed, IsTransfer, IsRoundTrip
<1> QED
  BY <1>2, <1>3, <1>4 DEF LedgerInv

-----------------------------------------------------------------------------
(* Payments and arrivals *)

LEMMA Primed ==
    ASSUME NEW k
    PROVE  /\ Source(plan[k])' = Source(plan'[k]) /\ Spends(plan[k])' = Spends(plan'[k])
           /\ Brings(plan[k])' = Brings(plan'[k])
<1>1. Source(plan[k])' = Source(plan'[k])
  BY DEF Source, Conversions, Mints, Redemptions
<1>2. Spends(plan[k])' = Spends(plan'[k])
  BY DEF Spends
<1>3. Brings(plan[k])' = Brings(plan'[k])
  BY DEF Brings, Spends, Estimate, LessFee
<1> QED
  BY <1>1, <1>2, <1>3

\* What the k-th step will have changed, when the plan stays.
LEMMA NextChange ==
    ASSUME NEW k, NEW a, plan' = plan
    PROVE  Change(k, a)' = IF k <= Len(plan) /\ move'[k] = "done"
                           THEN (IF a = plan[k].to THEN Brings(plan[k]) - coming'[k] ELSE 0)
                                   - (IF a = Source(plan[k]) THEN Spends(plan[k]) ELSE 0)
                           ELSE 0
<1>1. /\ Source(plan[k])' = Source(plan[k]) /\ Spends(plan[k])' = Spends(plan[k])
      /\ Brings(plan[k])' = Brings(plan[k])
  BY Primed
<1> QED
  BY <1>1, Zenon DEF Change

LEMMA Written ==
    ASSUME NEW f \in [Assets -> Nat], NEW b, NEW n, NEW a \in Assets
    PROVE  [f EXCEPT ![b] = n][a] = IF a = b THEN n ELSE f[a]
OBVIOUS

\* A step that is paid is entered once, with what it brings or what is on its way.
LEMMA PayIsEntered ==
    ASSUME VenueInv, Accounted, Len(plan) \in 1..4, NEW k \in 1..Len(plan), move[k] # "done",
           NEW spent \in Nat, spent <= Spends(plan[k]), IsTransfer(plan) => spent = Spends(plan[k]),
           NEW got \in Nat, NEW later \in BOOLEAN, Pay(k, spent, got, later), plan' = plan,
           IsTransfer(plan) \/ later => got = Brings(plan[k]),
           ~below' => ~below /\ got >= Brings(plan[k])
    PROVE  Accounted'
<1> DEFINE s == plan[k]
           source == Source(s)
           spends == Spends(s)
           brings == Brings(s)
<1>1. s \in Steps /\ spends \in Nat /\ brings \in Int /\ s.to \in Assets
  <2>1. s \in Steps
    BY DEF VenueInv, Typed
  <2> QED
    BY <2>1, StepAmounts
<1>2. /\ move \in [1..Len(plan) -> Moves] /\ coming \in [1..Len(plan) -> Nat]
      /\ funds \in [Assets -> Nat]
  BY Parts
<1>3. /\ funds' = IF later THEN [funds EXCEPT ![source] = @ - spent]
                  ELSE [[funds EXCEPT ![source] = @ - spent] EXCEPT ![s.to] = @ + got]
      /\ coming' = [coming EXCEPT ![k] = IF later THEN got ELSE 0]
      /\ move' = [move EXCEPT ![k] = "done"]
  BY DEF Pay
<1>4. /\ move'[k] = "done" /\ coming'[k] = (IF later THEN got ELSE 0)
      /\ \A j \in 1..Len(plan) : j # k => move'[j] = move[j] /\ coming'[j] = coming[j]
  BY <1>2, <1>3
<1>5. \A j \in 1..Len(plan') : move'[j] # "done" => coming'[j] = 0
  BY <1>4 DEF Accounted
<1>6. ASSUME NEW a \in Assets
      PROVE  /\ IsTransfer(plan) => funds'[a] = Initially[a] + Changes(a)'
             /\ ~below' => funds'[a] >= Initially[a] + Changes(a)'
  <2> DEFINE took == IF a = source THEN spent ELSE 0
             owed == IF a = source THEN spends ELSE 0
             put == IF a = s.to THEN got ELSE 0
             due == IF a = s.to THEN brings ELSE 0
  <2>1. funds'[a] = funds[a] - took + (IF later THEN 0 ELSE put)
    <3> DEFINE paid == [funds EXCEPT ![source] = @ - spent]
    <3> HIDE DEF source
    <3>1. paid[a] = funds[a] - took /\ funds[a] \in Nat
      BY <1>1, <1>2, Written
    <3>2. paid \in [Assets -> Nat]
      <4>1. source \in Assets => funds[source] - spent \in Nat
        BY <1>1, <1>2 DEF Pay, source
      <4> QED
        BY <1>2, <4>1, Updated
    <3>3. [paid EXCEPT ![s.to] = @ + got][a] = paid[a] + put
      <4> HIDE DEF paid, s
      <4>1. [paid EXCEPT ![s.to] = paid[s.to] + got][a] = IF a = s.to THEN paid[s.to] + got ELSE paid[a]
        BY <3>2, Written
      <4>2. paid[a] \in Nat
        BY <3>2
      <4> QED
        BY <4>1, <4>2
    <3> HIDE DEF paid, took, put
    <3>4. took \in Nat /\ put \in Nat
      BY DEF took, put
    <3>5. CASE later
      <4>1. funds' = paid
        BY <1>3, <3>5 DEF paid
      <4> QED
        BY <3>1, <3>4, <3>5, <4>1
    <3>6. CASE ~later
      <4>1. funds' = [paid EXCEPT ![s.to] = @ + got]
        BY <1>3, <3>6 DEF paid
      <4> QED
        BY <3>3, <3>1, <3>4, <3>6, <4>1
    <3> QED
      BY <3>5, <3>6
  <2>2. k \in 1..4 /\ k <= Len(plan)
    OBVIOUS
  <2>3. \A j \in 1..4 : j # k => Change(j, a)' = Change(j, a)
    <3>1. \A j \in 1..4 : j <= Len(plan) => j \in 1..Len(plan)
      OBVIOUS
    <3> QED
      BY <1>4, <3>1, NextChange DEF Change
  <2>4. Change(k, a) = 0
    BY DEF Change
  <2>5. Change(k, a)' = (IF later THEN 0 ELSE due) - owed
    <3>1. Change(k, a)' = (IF a = s.to THEN brings - coming'[k] ELSE 0) - owed
      BY <1>4, <2>2, NextChange
    <3>2. later => got = brings
      OBVIOUS
    <3> HIDE DEF brings, owed
    <3> QED
      BY <1>1, <1>4, <3>1, <3>2
  <2>6. /\ took \in Nat /\ put \in Nat /\ due \in Int /\ owed \in Nat
        /\ took <= owed /\ (IsTransfer(plan) => took = owed)
    BY <1>1
  <2> HIDE DEF took, put, due, owed
  <2>7. /\ Changes(a) \in Int /\ Changes(a)' \in Int
        /\ Changes(a)' - Changes(a) = Change(k, a)' - Change(k, a)
    BY <2>2, <2>3, <2>5, <2>6, OneChanges
  <2>8. /\ IsTransfer(plan) => put = due
        /\ ~below' => ~below /\ put >= due
    BY DEF put, due
  <2>9. funds[a] \in Nat /\ Initially[a] \in Nat
    BY <1>2, VenueAssumption
  <2>10. /\ IsTransfer(plan) => funds[a] = Initially[a] + Changes(a)
         /\ ~below => funds[a] >= Initially[a] + Changes(a)
    BY DEF Accounted
  <2>11. Changes(a)' = Changes(a) + (IF later THEN 0 ELSE due) - owed
    BY <2>4, <2>5, <2>6, <2>7
  <2> DEFINE now == funds'[a]
             changed == Changes(a)'
             before == funds[a]
             first == Initially[a]
             changes == Changes(a)
             arrived == IF later THEN 0 ELSE put
             entered == IF later THEN 0 ELSE due
  <2>12. /\ now = before - took + arrived
         /\ changed = changes + entered - owed
    BY <2>1, <2>11
  <2>13. before \in Int /\ first \in Int /\ changes \in Int /\ took \in Int /\ owed \in Int /\ arrived \in Int /\ entered \in Int
    BY <2>6, <2>7, <2>9
  <2>14. /\ IsTransfer(plan) => before = first + changes /\ arrived = entered /\ took = owed
         /\ ~below' => before >= first + changes /\ arrived >= entered /\ took <= owed
    <3>1. IsTransfer(plan) => arrived = entered
      BY <2>8
    <3>2. ~below' => arrived >= entered
      BY <2>6, <2>8
    <3> QED
      BY <2>6, <2>8, <2>10, <3>1, <3>2
  <2> HIDE DEF now, changed, before, first, changes, arrived, entered
  <2>15. ASSUME IsTransfer(plan) PROVE now = first + changed
    BY <2>12, <2>13, <2>14, <2>15
  <2>16. ASSUME ~below' PROVE now >= first + changed
    BY <2>12, <2>13, <2>14, <2>16
  <2> QED
    BY <2>15, <2>16 DEF now, changed, first
<1> QED
  BY <1>5, <1>6 DEF Accounted, IsTransfer

\* What arrives was on its way, and is entered as brought.
LEMMA ArrivalIsEntered ==
    ASSUME VenueInv, Accounted, Len(plan) \in 1..4, NEW k \in 1..Len(plan), Arrive(k)
    PROVE  Accounted'
<1> DEFINE s == plan[k]
<1>0. k \in 1..4 /\ k <= Len(plan)
  <2>1. \A n \in 1..4, j \in Int : j \in 1..n => j \in 1..4 /\ j <= n
    OBVIOUS
  <2>2. Len(plan) \in 1..4 /\ k \in 1..Len(plan) /\ k \in Int
    OBVIOUS
  <2> QED
    BY ONLY <2>1, <2>2, Zenon
<1>1. /\ s \in Steps /\ Brings(s) \in Int /\ s.to \in Assets /\ Spends(s) \in Nat
  <2>1. s \in Steps
    BY DEF VenueInv, Typed
  <2> QED
    BY <2>1, StepAmounts
<1>2. /\ coming \in [1..Len(plan) -> Nat] /\ funds \in [Assets -> Nat]
  BY Parts
<1>3. /\ funds' = [funds EXCEPT ![s.to] = @ + coming[k]] /\ coming' = [coming EXCEPT ![k] = 0]
      /\ UNCHANGED <<plan, move, below>> /\ coming[k] > 0
  BY DEF Arrive
<1>4. /\ coming'[k] = 0 /\ coming[k] \in Nat /\ move[k] = "done"
      /\ \A j \in 1..Len(plan) : j # k => coming'[j] = coming[j]
  BY <1>2, <1>3 DEF Accounted
<1>5. \A j \in 1..Len(plan') : move'[j] # "done" => coming'[j] = 0
  BY <1>3, <1>4 DEF Accounted
<1>6. ASSUME NEW a \in Assets
      PROVE  /\ IsTransfer(plan) => funds'[a] = Initially[a] + Changes(a)'
             /\ ~below' => funds'[a] >= Initially[a] + Changes(a)'
  <2> DEFINE put == IF a = s.to THEN coming[k] ELSE 0
             took == IF a = Source(s) THEN Spends(s) ELSE 0
  <2>1. funds'[a] = funds[a] + put
    BY <1>1, <1>2, <1>3
  <2>2. k \in 1..4 /\ k <= Len(plan)
    BY <1>0
  <2>3. \A j \in 1..4 : j # k => Change(j, a)' = Change(j, a)
    <3>1. \A j \in 1..4 : j <= Len(plan) => j \in 1..Len(plan)
      OBVIOUS
    <3> QED
      BY <1>3, <1>4, <3>1, NextChange DEF Change
  <2>4. Change(k, a) = (IF a = s.to THEN Brings(s) - coming[k] ELSE 0) - took
    BY <1>4, <2>2 DEF Change
  <2>5. Change(k, a)' = (IF a = s.to THEN Brings(s) - 0 ELSE 0) - took
    BY <1>3, <1>4, <2>2, NextChange
  <2>6. took \in Nat /\ put \in Nat
    BY <1>1, <1>4
  <2>7. Change(k, a)' \in Int /\ Change(k, a)' - Change(k, a) = put
    <3> HIDE DEF took
    <3> QED
      BY <1>1, <1>4, <2>4, <2>5, <2>6
  <2> HIDE DEF took, put
  <2>8. /\ Changes(a) \in Int /\ Changes(a)' \in Int
        /\ Changes(a)' - Changes(a) = Change(k, a)' - Change(k, a)
    BY <2>2, <2>3, <2>7, OneChanges
  <2>9. funds[a] \in Nat /\ Initially[a] \in Nat
    BY <1>2, VenueAssumption
  <2>10. /\ IsTransfer(plan) => funds[a] = Initially[a] + Changes(a)
         /\ ~below => funds[a] >= Initially[a] + Changes(a)
    BY DEF Accounted
  <2>11. Changes(a)' = Changes(a) + put
    BY <2>6, <2>7, <2>8
  <2>12. ASSUME IsTransfer(plan) PROVE funds'[a] = Initially[a] + Changes(a)'
    <3>1. funds[a] = Initially[a] + Changes(a)
      BY <2>10, <2>12
    <3> QED
      BY <2>1, <2>6, <2>8, <2>9, <2>11, <3>1
  <2>13. ASSUME ~below' PROVE funds'[a] >= Initially[a] + Changes(a)'
    <3>1. below' = below
      BY <1>3
    <3>2. funds[a] >= Initially[a] + Changes(a)
      BY <2>10, <2>13, <3>1
    <3> QED
      BY <2>1, <2>6, <2>8, <2>9, <2>11, <3>2
  <2> QED
    BY <2>12, <2>13
<1> QED
  BY <1>3, <1>5, <1>6 DEF Accounted, IsTransfer

-----------------------------------------------------------------------------
(* Every step keeps the ledger *)

LEMMA FollowedPrimed == Followed(plan)' <=> Followed(plan')
BY DEF Followed, IsTransfer, IsRoundTrip

LEMMA StepStays ==
    ASSUME Dispatched, UNCHANGED <<plan, results, at>>
    PROVE  at' # 0 => Convertible(step)'
<1>1. Convertible(step)' <=> Convertible(step)
  BY DEF Convertible, Conversions, step, Current, Mints, Redemptions
<1> QED
  BY <1>1 DEF Dispatched

\* The plan that is followed is one of the plans, of at most four steps.
LEMMA FollowedPlan ==
    ASSUME LedgerInv, mode # "paper", Followed(plan)
    PROVE  plan \in Plans /\ Accounted /\ Len(plan) \in 1..4 /\ VenueInv
BY PlansAssumption DEF LedgerInv, MaxSteps

LEMMA MineKeepsLedger == ASSUME LedgerInv, NEW k \in 1..Len(plan), Mine(k) PROVE LedgerInv'
<1>1. VenueInv /\ VenueInv' /\ Dispatched
  BY MineKeeps DEF LedgerInv
<1>2. /\ move[k] = "pending" /\ UNCHANGED <<config, plan, results, at, lost, below, troubles>>
      /\ plan[k].op \in Transactions
  BY <1>1 DEF Mine, Dispatched
<1>3. plan[k] \in Steps /\ plan[k].amountIn \in Nat
  <2>1. plan[k] \in Steps
    BY <1>1 DEF VenueInv, Typed
  <2> QED
    BY <2>1, StepAmounts
<1>4. PICK got \in Nat, later \in BOOLEAN :
        /\ Pay(k, Spends(plan[k]), got, later) /\ got >= Brings(plan[k])
        /\ IsTransfer(plan) \/ later => got = Brings(plan[k])
  <2>1. CASE plan[k].op = "swapEVM"
    <3>1. PICK out \in Converted(plan[k]) :
              out >= AmountOutMin(plan[k]) /\ Pay(k, plan[k].amountIn, out, FALSE)
      BY <2>1 DEF Mine, MineSwap
    <3>2. Brings(plan[k]) = AmountOutMin(plan[k]) /\ Spends(plan[k]) = plan[k].amountIn
      BY <2>1 DEF Brings, Spends, AmountOutMin
    <3>3. ~IsTransfer(plan) /\ out \in Nat
      BY <1>3, <2>1, ConvertedAreAmounts DEF IsTransfer
    <3> QED
      BY <3>1, <3>2, <3>3
  <2>2. CASE plan[k].op = "unwrap"
    <3>1. MineBurn(k)
      BY <2>2 DEF Mine
    <3>2. Pay(k, plan[k].amountIn, LessFee(plan[k].amountIn), TRUE)
      BY <3>1 DEF MineBurn
    <3>3. Brings(plan[k]) = LessFee(plan[k].amountIn) /\ Spends(plan[k]) = plan[k].amountIn
      BY <2>2 DEF Brings, Spends
    <3>4. Brings(plan[k]) \in Nat
      BY <1>3, <3>3, BridgeFeeIsPart
    <3>5. Pay(k, Spends(plan[k]), Brings(plan[k]), TRUE)
      BY <3>2, <3>3, Zenon
    <3>6. Brings(plan[k]) >= Brings(plan[k])
      BY <3>4
    <3> QED
      BY <3>4, <3>5, <3>6, Zenon
  <2>3. CASE plan[k].op \notin {"swapEVM", "unwrap"}
    <3>1. Pay(k, 0, 0, FALSE)
      BY <2>3 DEF Mine
    <3>2. plan[k].op \in {"lpMint", "lpBurn", "lpCollect"}
      BY <1>2, <2>3 DEF Transactions
    <3>3. Brings(plan[k]) = 0 /\ Spends(plan[k]) = 0
      BY <3>2 DEF Brings, Spends
    <3>4. Pay(k, Spends(plan[k]), 0, FALSE)
      BY <3>1, <3>3, Zenon
    <3>5. 0 \in Nat /\ 0 >= Brings(plan[k])
      BY <3>3
    <3> QED
      BY <3>3, <3>4, <3>5, Zenon
  <2> QED
    BY <2>1, <2>2, <2>3
<1>5. \A j \in 1..Len(plan) : move'[j] = IF j = k THEN "done" ELSE move[j]
  BY <1>1, <1>4, Parts DEF Pay
<1>6. Dispatched'
  BY <1>1, <1>2, <1>5, StepStays, DispatchedStays
<1>7. mode' # "paper" /\ Followed(plan') => plan' \in Plans /\ Accounted'
  <2> SUFFICES ASSUME mode' # "paper", Followed(plan') PROVE plan' \in Plans /\ Accounted'
    OBVIOUS
  <2>1. plan' = plan /\ plan \in Plans /\ Accounted /\ Len(plan) \in 1..4
    BY <1>2, FollowedPlan
  <2>2. ~below' => ~below /\ got >= Brings(plan[k])
    BY <1>2, <1>4
  <2>3. move[k] # "done"
    BY <1>2
  <2>4. Spends(plan[k]) \in Nat /\ Spends(plan[k]) <= Spends(plan[k])
    BY <1>3, StepAmounts
  <2> QED
    BY <1>1, <1>4, <2>1, <2>2, <2>3, <2>4, PayIsEntered
<1> QED
  BY <1>1, <1>6, <1>7, FollowedPrimed DEF LedgerInv

LEMMA RevertKeepsLedger == ASSUME LedgerInv, NEW k \in 1..Len(plan), Revert(k) PROVE LedgerInv'
<1>1. VenueInv /\ VenueInv'
  BY RevertKeeps DEF LedgerInv
<1>2. /\ move[k] = "pending" /\ move' = [move EXCEPT ![k] = "reverted"]
      /\ UNCHANGED <<config, plan, results, at, coming, funds, lost, below, troubles>>
  BY DEF Revert
<1>3. \A j \in 1..Len(plan) : move'[j] = IF j = k THEN "reverted" ELSE move[j]
  BY <1>1, <1>2, Parts
<1> QED
  BY <1>1, <1>2, <1>3, AdvanceKeeps

LEMMA ArriveKeepsLedger == ASSUME LedgerInv, NEW k \in 1..Len(plan), Arrive(k) PROVE LedgerInv'
<1>1. VenueInv /\ VenueInv' /\ Dispatched
  BY ArriveKeeps DEF LedgerInv
<1>2. UNCHANGED <<config, plan, results, at, move, lost, below, troubles>>
  BY DEF Arrive
<1>3. Dispatched'
  BY <1>1, <1>2, StepStays, DispatchedStays
<1>4. mode' # "paper" /\ Followed(plan') => plan' \in Plans /\ Accounted'
  <2> SUFFICES ASSUME mode' # "paper", Followed(plan') PROVE plan' \in Plans /\ Accounted'
    OBVIOUS
  <2>1. plan' = plan /\ plan \in Plans /\ Accounted /\ Len(plan) \in 1..4
    BY <1>2, FollowedPlan
  <2> QED
    BY <1>1, <2>1, ArrivalIsEntered
<1> QED
  BY <1>1, <1>3, <1>4, FollowedPrimed DEF LedgerInv

LEMMA SendsAreTransactions ==
    ASSUME NEW op \in Ops, NEW i \in 1..Len(Script(op)), Script(op)[i] = "send"
    PROVE  op \in Transactions
<1>1. CASE op = "withdraw"
  BY <1>1, WithdrawScript
<1>2. CASE op \in {"wrap", "nativeMint", "nativeRedeem"}
  BY <1>2, OtherScripts
<1>3. CASE op = "tradeCEX"
  BY <1>3, OtherScripts
<1>4. CASE op = "deposit"
  BY <1>4, OtherScripts
<1> QED
  BY <1>1, <1>2, <1>3, <1>4 DEF Ops, Transactions

\* Before the script, nothing has been paid.
LEMMA UndispatchedKeepLedger ==
    ASSUME LedgerInv, SkipStep \/ Simulate \/ Refuse \/ Dispatch
    PROVE  LedgerInv'
<1>1. VenueInv /\ ~Ended /\ at = 0 /\ Unmoved
  BY DEF LedgerInv, SkipStep, Simulate, Refuse, Dispatch
<1>2. step \in Steps
  BY <1>1, CurrentStep DEF VenueInv
<1>3. CASE SkipStep
  <2>1. VenueInv'
    BY <1>1, <1>3, UndispatchedKeeps
  <2> QED
    BY <1>1, <1>3, <2>1, ReportKeeps DEF SkipStep, Unmoved, Outcomes
<1>4. CASE Simulate
  <2>1. VenueInv' /\ Simulated(step) \in Nat \cup {None}
    BY <1>1, <1>2, <1>4, UndispatchedKeeps, SimulatedIsAmount
  <2> QED
    BY <1>1, <1>4, <2>1, ReportKeeps DEF Simulate, Unmoved, Outcomes
<1>5. CASE Refuse
  <2>1. VenueInv'
    BY <1>1, <1>5, UndispatchedKeeps
  <2> QED
    BY <1>1, <1>5, <2>1, ReportKeeps DEF Refuse, Unmoved, Outcomes
<1>6. CASE Dispatch
  <2>1. VenueInv'
    BY <1>1, <1>6, DispatchKeeps
  <2>2. Dispatchable(step) /\ UNCHANGED <<plan, results>>
    BY <1>6 DEF Dispatch
  <2>3. Convertible(step)
    BY <2>2 DEF Dispatchable, Mintable, Redeemable, Convertible
  <2> QED
    BY <1>1, <2>1, <2>2, <2>3, AdvanceKeeps DEF Unmoved
<1> QED
  BY <1>3, <1>4, <1>5, <1>6

\* Nor does an await that is no payment pay.
LEMMA AwaitsKeepLedger ==
    ASSUME LedgerInv, Answer \/ Throw \/ Receipt \/ ReceiptTimesOut \/ CallRefused
    PROVE  LedgerInv'
<1>1. VenueInv
  BY DEF LedgerInv
<1>2. CASE Answer
  <2>1. VenueInv'
    BY <1>1, <1>2, AnswerKeeps
  <2>2. PICK await \in Questions : At(await)
    BY <1>2 DEF Answer, Questions
  <2>3. /\ ~Ended /\ at # 0 /\ at \in 1..Len(Script(step.op)) /\ Script(step.op)[at] \in Questions
        /\ step \in Steps /\ step.op \in Ops
    BY <1>1, <2>2, Awaiting
  <2>4. CASE at < Len(Script(step.op))
    BY <1>2, <2>1, <2>3, <2>4, AdvanceKeeps DEF Answer, Unmoved
  <2>5. CASE ~(at < Len(Script(step.op)))
    <3>1. Finish("success", step.amountIn) /\ Unmoved
      BY <1>2, <2>5 DEF Answer
    <3>2. Len(Script(step.op)) \in Nat
      BY <2>3, ScriptFacts
    <3>3. at = Len(Script(step.op))
      BY <2>3, <2>5, <3>2
    <3>4. step.op = "deposit" /\ step.amountIn \in Nat \cup {None}
      BY <2>3, <3>3, ScriptFacts, StepAmounts
    <3> QED
      BY <2>1, <2>3, <3>1, <3>4, ReportKeeps DEF Unmoved, Outcomes
  <2> QED
    BY <2>4, <2>5
<1>3. CASE Throw
  <2>1. VenueInv' /\ ~Ended /\ Finish("failed", None) /\ UNCHANGED <<config, move, coming, funds, lost, below>>
    BY <1>1, <1>3, ThrowKeeps DEF Throw
  <2> QED
    BY <2>1, ReportKeeps DEF Outcomes
<1>4. CASE Receipt \/ ReceiptTimesOut
  <2>1. VenueInv' /\ ~Ended /\ UNCHANGED <<config, move, coming, funds, below>>
    BY <1>1, <1>4, ReceiptKeeps DEF Receipt, ReceiptTimesOut, Unmoved, At
  <2>2. PICK result \in Outcomes : Finish(result, None)
    BY <1>4 DEF Receipt, ReceiptTimesOut, Outcomes
  <2> QED
    BY <2>1, <2>2, ReportKeeps
<1>5. CASE CallRefused
  <2>1. VenueInv' /\ ~Ended /\ Finish("failed", None) /\ Unmoved
    BY <1>1, <1>5, CallRefusedKeeps DEF CallRefused, At
  <2> QED
    BY <2>1, ReportKeeps DEF Unmoved, Outcomes
<1> QED
  BY <1>2, <1>3, <1>4, <1>5

LEMMA SendKeepsLedger == ASSUME LedgerInv, Send \/ SendUnanswered PROVE LedgerInv'
<1>1. VenueInv /\ VenueInv' /\ At("send") /\ Sent
  BY SendKeeps DEF LedgerInv, Send, SendUnanswered
<1>2. /\ ~Ended /\ at # 0 /\ at \in 1..Len(Script(step.op)) /\ Script(step.op)[at] = "send"
      /\ step.op \in Ops /\ Current \in 1..Len(plan) /\ move[Current] = "none"
  BY <1>1, Awaiting
<1>3. plan[Current].op \in Transactions
  BY <1>2, SendsAreTransactions DEF step
<1>4. \A k \in 1..Len(plan) : move'[k] = IF k = Current THEN "pending" ELSE move[k]
  BY <1>1, <1>2, Parts DEF Sent
<1>5. \A k \in 1..Len(plan) :
        /\ move'[k] = "pending" => move[k] = "pending" \/ plan[k].op \in Transactions
        /\ move'[k] = "done" <=> move[k] = "done"
  BY <1>2, <1>3, <1>4
<1>6. CASE Send
  BY <1>1, <1>2, <1>5, <1>6, AdvanceKeeps DEF Send
<1>7. CASE SendUnanswered
  BY <1>1, <1>2, <1>5, <1>7, ReportKeeps DEF SendUnanswered, Outcomes
<1> QED
  BY <1>6, <1>7

\* A call is made once, and pays what the step spends.
LEMMA CallKeepsLedger == ASSUME LedgerInv, Call \/ CallUnanswered PROVE LedgerInv'
<1>1. VenueInv /\ VenueInv' /\ Dispatched /\ At("call") /\ CallTakesEffect /\ UNCHANGED config
  BY CallKeeps DEF LedgerInv, Call, CallUnanswered
<1>2. /\ ~Ended /\ at # 0 /\ at \in 1..Len(Script(step.op)) /\ Script(step.op)[at] = "call"
      /\ step \in Steps /\ step.op \in Ops /\ Current \in 1..Len(plan) /\ move[Current] = "none"
  BY <1>1, Awaiting
<1>3. step.op \in Calls /\ step.amountIn \in Nat /\ step = plan[Current]
  BY <1>2, ScriptFacts, StepAmounts DEF step
<1>4. \A k \in 1..Len(plan) : move'[k] = IF k = Current THEN move'[Current] ELSE move[k]
  BY <1>1, CallPays
<1>5. move'[Current] \in {"none", "done"}
  BY <1>1, CallPays
<1>6. PICK result \in Outcomes, out \in {None, AmountOut(step)} : Finish(result, out)
  BY DEF Call, CallUnanswered, Outcomes
<1>7. out \in Nat \cup {None} /\ (out = None \/ (out = step.amountIn /\ step.op \in {"tradeCEX", "withdraw"}))
  BY <1>3, <1>6 DEF AmountOut
<1>8. /\ at' = 0 /\ Len(plan') = Len(plan)
      /\ \A k \in 1..Len(plan) :
            plan'[k].op = plan[k].op /\ plan'[k].from = plan[k].from /\ plan'[k].to = plan[k].to
  BY <1>1, <1>2, <1>6, <1>7, FinishedStep DEF VenueInv
<1>9. Dispatched'
  <2>1. Convertible(plan[Current])
    BY <1>1, <1>2, <1>3 DEF Dispatched
  <2> QED
    BY <1>4, <1>5, <1>8, <2>1, DispatchedStays
<1>10. mode' # "paper" /\ Followed(plan') => plan' \in Plans /\ Accounted'
  <2> SUFFICES ASSUME mode' # "paper", Followed(plan') PROVE plan' \in Plans /\ Accounted'
    OBVIOUS
  <2>1. plan' = plan /\ Followed(plan) /\ mode # "paper"
    <3>1. mode # "paper" /\ Followed(plan) => plan \in Plans
      BY FollowedPlan
    <3>2. mode # "paper"
      BY <1>1
    <3> QED
      BY <1>1, <1>2, <1>6, <1>7, <3>1, <3>2, PlanStays
  <2>2. plan \in Plans /\ Accounted /\ Len(plan) \in 1..4
    BY <2>1, FollowedPlan
  <2>3. CASE step.op \in {"nativeMint", "nativeRedeem"}
    <3>1. PICK got \in Converted(step) :
              Pay(Current, Truncated(step.amountIn), got, FALSE) /\ below' = (below \/ got < Estimate(step))
      BY <1>1, <2>3 DEF CallTakesEffect, Convert
    <3>2. Spends(step) = step.amountIn /\ Brings(step) = Estimate(step) /\ ~IsTransfer(plan)
      BY <1>2, <1>3, <2>3 DEF Spends, Brings, IsTransfer
    <3>3. got \in Nat /\ Estimate(step) \in Int
      BY <1>2, <3>1, <3>2, ConvertedAreAmounts, StepAmounts
    <3>4. ~below' => ~below /\ got >= Brings(step)
      <4>1. ~below' => ~below /\ ~(got < Brings(step))
        BY <3>1, <3>2, Zenon
      <4>2. ~(got < Brings(step)) => got >= Brings(step)
        BY <3>2, <3>3
      <4> QED
        BY <4>1, <4>2
    <3>5. Truncated(step.amountIn) \in Nat /\ Truncated(step.amountIn) <= Spends(step)
      BY <1>3, <3>2, TruncatedIsPart
    <3> QED
      BY <1>1, <1>2, <1>3, <2>1, <2>2, <3>1, <3>2, <3>3, <3>4, <3>5, PayIsEntered
  <2>4. CASE step.op \in {"wrap", "withdraw"}
    <3>1. Pay(Current, step.amountIn, step.amountIn, TRUE) /\ below' = below
      BY <1>1, <2>4 DEF CallTakesEffect, SendToBridge, Withdraw
    <3>2. Spends(step) = step.amountIn /\ Brings(step) = step.amountIn
      BY <2>4 DEF Spends, Brings
    <3>3. ~below' => ~below /\ step.amountIn >= Brings(step)
      BY <1>3, <3>1, <3>2
    <3> QED
      <4>1. step.amountIn <= Spends(step) /\ step.amountIn \in Nat
        BY <1>3, <3>2
      <4> QED
        BY <1>1, <1>2, <1>3, <2>1, <2>2, <3>1, <3>2, <3>3, <4>1, PayIsEntered
  <2>5. step.op # "tradeCEX"
    BY <1>2, <1>3, <2>1, <2>2, PlansAssumption DEF Followed, IsTransfer
  <2> QED
    BY <1>3, <2>1, <2>2, <2>3, <2>4, <2>5 DEF Calls
<1> QED
  BY <1>1, <1>9, <1>10, FollowedPrimed DEF LedgerInv

LEMMA LedgerInit == Init => LedgerInv
<1> SUFFICES ASSUME Init PROVE LedgerInv
  OBVIOUS
<1>1. VenueInv
  BY InitHolds
<1>2. \A k \in 1..Len(plan) : move[k] = "none" /\ coming[k] = 0
  BY DEF Init
<1>3. Dispatched
  BY <1>2 DEF Dispatched, Init
<1>4. plan \in Plans /\ funds = Initially
  BY DEF Init
<1>5. Len(plan) \in 1..4
  BY <1>4, PlansAssumption DEF MaxSteps
<1>6. \A k \in 1..4, a \in Assets : Change(k, a) = 0
  <2>1. \A k \in 1..4 : k <= Len(plan) => k \in 1..Len(plan)
    BY <1>5
  <2>2. \A k \in 1..4 : ~(k <= Len(plan) /\ move[k] = "done")
    BY <1>2, <2>1
  <2> QED
    BY <2>2 DEF Change
<1>7. \A a \in Assets : Initially[a] + Changes(a) = funds[a] /\ funds[a] \in Nat
  <2>1. 1 \in 1..4 /\ 2 \in 1..4 /\ 3 \in 1..4 /\ 4 \in 1..4
    OBVIOUS
  <2>2. \A a \in Assets : Changes(a) = 0
    BY <1>6, <2>1 DEF Changes
  <2>3. \A a \in Assets : funds[a] \in Nat
    BY <1>1, Parts
  <2> QED
    BY <1>4, <2>2, <2>3
<1>8. Accounted
  <2>1. \A a \in Assets : funds[a] >= Initially[a] + Changes(a)
    BY <1>7
  <2> QED
    BY <1>2, <1>7, <2>1 DEF Accounted
<1> QED
  BY <1>1, <1>3, <1>4, <1>8 DEF LedgerInv

LEMMA LedgerStep == LedgerInv /\ [Next]_vars => LedgerInv'
<1> SUFFICES ASSUME LedgerInv, [Next]_vars PROVE LedgerInv'
  OBVIOUS
<1>1. CASE SkipStep \/ Simulate \/ Refuse \/ Dispatch
  BY <1>1, UndispatchedKeepLedger
<1>2. CASE Answer \/ Throw \/ Receipt \/ ReceiptTimesOut \/ CallRefused
  BY <1>2, AwaitsKeepLedger
<1>3. CASE Send \/ SendUnanswered
  BY <1>3, SendKeepsLedger
<1>4. CASE Call \/ CallUnanswered
  BY <1>4, CallKeepsLedger
<1>5. CASE Venues
  <2>1. PICK k \in 1..MaxSteps : Mine(k) \/ Revert(k) \/ Arrive(k)
    BY <1>5 DEF Venues
  <2>2. Len(plan) \in Nat
    BY DEF LedgerInv, VenueInv, Typed
  <2>3. k \in 1..Len(plan)
    <3>1. k <= Len(plan)
      BY <2>1 DEF Mine, Revert, Arrive
    <3> QED
      BY <2>2, <3>1 DEF MaxSteps
  <2> QED
    BY <2>1, <2>3, MineKeepsLedger, RevertKeepsLedger, ArriveKeepsLedger
<1>6. CASE UNCHANGED vars
  <2>1. VenueInv'
    BY <1>6, StepHolds DEF LedgerInv
  <2> QED
    BY <1>6, <2>1, AdvanceKeeps DEF vars
<1> QED
  BY <1>1, <1>2, <1>3, <1>4, <1>5, <1>6 DEF Next, Progress, Trouble

LEMMA LedgerHolds == Spec => []LedgerInv
BY LedgerInit, LedgerStep, PTL DEF Spec

-----------------------------------------------------------------------------
(* What the ledger says of a plan that has succeeded and settled *)

\* Each of its steps has been paid, and all it brings has arrived.
LEMMA AllIsDone ==
    ASSUME LedgerInv, mode # "paper", Succeeded, Settled, Followed(plan)
    PROVE  /\ plan \in Plans /\ Accounted /\ Len(plan) \in 1..4
           /\ \A k \in 1..Len(plan) :
                /\ move[k] = "done" /\ coming[k] = 0 /\ Convertible(plan[k])
                /\ plan[k] \in Steps /\ Spends(plan[k]) \in Nat /\ Brings(plan[k]) \in Int
<1>1. plan \in Plans /\ Accounted /\ Len(plan) \in 1..4 /\ VenueInv
  BY FollowedPlan
<1>2. \A k \in 1..Len(plan) : plan[k].op \notin {"deposit", "tradeCEX"}
  BY <1>1, PlansAssumption DEF Followed, IsTransfer
<1>3. \A k \in 1..Len(plan) : move[k] = "done" /\ coming[k] = 0
  BY <1>1, <1>2 DEF Succeeded, Settled, VenueInv, Reported, SuccessMeansDone, Immaterial
<1>4. \A k \in 1..Len(plan) : plan[k] \in Steps
  BY <1>1 DEF VenueInv, Typed
<1> QED
  BY <1>1, <1>3, <1>4, StepAmounts DEF LedgerInv, Dispatched

\* What it has changed at a place.
LEMMA DoneChange ==
    ASSUME LedgerInv, mode # "paper", Succeeded, Settled, Followed(plan), NEW k \in 1..Len(plan), NEW a
    PROVE  Change(k, a) = (IF a = plan[k].to THEN Brings(plan[k]) ELSE 0)
                            - (IF a = Source(plan[k]) THEN Spends(plan[k]) ELSE 0)
<1>1. /\ move[k] = "done" /\ coming[k] = 0 /\ Brings(plan[k]) \in Int /\ Spends(plan[k]) \in Nat
      /\ k <= Len(plan)
  BY AllIsDone
<1>2. Change(k, a) = (IF a = plan[k].to THEN Brings(plan[k]) - 0 ELSE 0)
                        - (IF a = Source(plan[k]) THEN Spends(plan[k]) ELSE 0)
  BY <1>1 DEF Change
<1> QED
  BY <1>1, <1>2

LEMMA NoChange == ASSUME NEW k \in 1..4, NEW a, Len(plan) \in 1..4, k > Len(plan) PROVE Change(k, a) = 0
BY DEF Change

LEMMA TransfersMove == LedgerInv => RebalancingMovesItsAmount
<1> SUFFICES ASSUME LedgerInv, mode # "paper", Succeeded, Settled, IsTransfer(plan)
             PROVE  LET amount == plan[1].amountIn
                        left == IF plan[1].op = "unwrap" THEN LessFee(amount) ELSE amount
                    IN  \A a \in Assets :
                            funds[a] = Initially[a] + (IF a = plan[Len(plan)].to THEN left ELSE 0)
                                                    - (IF a = plan[1].from THEN amount ELSE 0)
  BY DEF RebalancingMovesItsAmount
<1> DEFINE n == Len(plan)
           amount == plan[1].amountIn
           left == IF plan[1].op = "unwrap" THEN LessFee(amount) ELSE amount
           first == plan[1].from
           last == plan[n].to
<1>1. /\ Followed(plan) /\ plan \in Plans /\ Accounted /\ n \in 1..4 /\ 1 \in 1..n /\ n \in 1..n
      /\ \A k \in 1..n : plan[k] \in Steps
  BY AllIsDone DEF Followed
<1>2. \A k \in 1..n :
        /\ Source(plan[k]) = plan[k].from /\ Spends(plan[k]) = plan[k].amountIn
        /\ Brings(plan[k]) = IF plan[k].op = "unwrap" THEN LessFee(plan[k].amountIn) ELSE plan[k].amountIn
        /\ plan[k].from \in Assets /\ plan[k].to \in Assets /\ plan[k].amountIn \in Nat
  BY <1>1 DEF IsTransfer, Source, Spends, Brings, Steps
<1>3. amount \in Nat /\ left \in Nat /\ first \in Assets /\ last \in Assets
  <2>1. amount \in Nat /\ first \in Assets /\ last \in Assets
    BY <1>1, <1>2
  <2> QED
    BY <2>1, BridgeFeeIsPart
<1>4. \A a \in Assets : funds[a] = Initially[a] + Changes(a) /\ Initially[a] \in Nat
  BY <1>1, VenueAssumption DEF Accounted
<1>5. \A a \in Assets :
        Changes(a) = (IF a = last THEN left ELSE 0) - (IF a = first THEN amount ELSE 0)
  <2> SUFFICES ASSUME NEW a \in Assets
               PROVE  Changes(a) = (IF a = last THEN left ELSE 0) - (IF a = first THEN amount ELSE 0)
    OBVIOUS
  <2>1. CASE n = 1
    <3>1. Change(1, a) = (IF a = last THEN left ELSE 0) - (IF a = first THEN amount ELSE 0)
      BY <1>1, <1>2, <2>1, DoneChange
    <3>2. Change(2, a) = 0 /\ Change(3, a) = 0 /\ Change(4, a) = 0
      BY <2>1, NoChange
    <3> HIDE DEF last, left, first, amount
    <3> QED
      BY <1>3, <3>1, <3>2 DEF Changes
  <2>2. CASE n # 1
    <3>1. /\ n = 2 /\ 2 \in 1..n /\ plan[1].op # "unwrap" /\ plan[2].op # "unwrap"
          /\ plan[2].from = plan[1].to /\ plan[2].amountIn = amount
      BY <1>1, <2>2, PlansAssumption
    <3> DEFINE middle == plan[1].to
    <3>2. Change(1, a) = (IF a = middle THEN amount ELSE 0) - (IF a = first THEN amount ELSE 0)
      BY <1>1, <1>2, <3>1, DoneChange
    <3>3. Change(2, a) = (IF a = last THEN amount ELSE 0) - (IF a = middle THEN amount ELSE 0)
      BY <1>1, <1>2, <3>1, DoneChange
    <3>4. Change(3, a) = 0 /\ Change(4, a) = 0
      BY <3>1, NoChange
    <3>5. left = amount
      BY <3>1
    <3> HIDE DEF last, left, first, amount, middle
    <3> QED
      BY <1>3, <3>2, <3>3, <3>4, <3>5 DEF Changes
  <2> QED
    BY <2>1, <2>2
<1> HIDE DEF n, amount, left, first, last
<1>6. \A a \in Assets :
        funds[a] = Initially[a] + (IF a = last THEN left ELSE 0) - (IF a = first THEN amount ELSE 0)
  BY <1>3, <1>4, <1>5
<1> QED
  BY <1>6 DEF n, amount, left, first, last

LEMMA RoundTripsPay == LedgerInv => RoundTripsPayForThemselves
<1> SUFFICES ASSUME LedgerInv, mode # "paper", Succeeded, Settled, IsRoundTrip(plan), ~below,
                    NEW a \in Assets, a # plan[1].from
             PROVE  funds[a] >= Initially[a]
  BY DEF RoundTripsPayForThemselves
<1> DEFINE n == Len(plan)
           gain(k) == IF a = plan[k].to THEN Brings(plan[k]) ELSE 0
           loss(k) == IF a = plan[k].from THEN Spends(plan[k]) ELSE 0
<1>1. /\ Followed(plan) /\ plan \in Plans /\ Accounted /\ n \in 1..4
      /\ \A k \in 1..n :
            /\ Convertible(plan[k]) /\ plan[k] \in Steps
            /\ Spends(plan[k]) \in Nat /\ Brings(plan[k]) \in Int
  BY AllIsDone DEF Followed
<1>2. \A k \in 1..n : Source(plan[k]) = plan[k].from /\ (k < n => Spends(plan[k + 1]) <= Brings(plan[k]))
  BY <1>1, PlansAssumption
<1>3. \A k \in 1..n : Change(k, a) = gain(k) - loss(k)
  BY <1>1, <1>2, DoneChange
<1>4. \A k \in 1..n : gain(k) \in Int /\ loss(k) \in Int
  BY <1>1
<1>5. loss(1) = 0
  OBVIOUS
<1>6. gain(n) = 0
  BY DEF IsRoundTrip
<1>7. \A k \in 1..n : k < n => gain(k) >= loss(k + 1)
  <2> SUFFICES ASSUME NEW k \in 1..n, k < n PROVE gain(k) >= loss(k + 1)
    OBVIOUS
  <2>1. k \in 1..n - 1
    BY <1>1
  <2>2. plan[k].to = plan[k + 1].from
    BY <2>1 DEF IsRoundTrip
  <2>3. k + 1 \in 1..n
    BY <1>1
  <2>4. Spends(plan[k + 1]) <= Brings(plan[k])
    BY <1>2
  <2> QED
    BY <2>2, <2>4
<1>8. funds[a] >= Initially[a] + Changes(a) /\ Initially[a] \in Nat /\ funds[a] \in Nat
  BY <1>1, VenueAssumption, Parts DEF Accounted, LedgerInv
<1>9. \A k \in 1..4 : k > n => Change(k, a) = 0
  BY <1>1, NoChange
<1> HIDE DEF n, gain, loss
<1>10. Changes(a) \in Int /\ Changes(a) >= 0
  <2>0. 1 \in 1..4 /\ 2 \in 1..4 /\ 3 \in 1..4 /\ 4 \in 1..4
    OBVIOUS
  <2>1. CASE n = 1
    <3>1. 1 \in 1..n
      BY <2>1
    <3>2. Change(1, a) = 0
      BY <1>3, <1>5, <1>6, <2>1, <3>1
    <3>3. Change(2, a) = 0 /\ Change(3, a) = 0 /\ Change(4, a) = 0
      BY <1>9, <2>0, <2>1
    <3> QED
      BY <3>2, <3>3 DEF Changes
  <2>2. CASE n = 2
    <3>1. 1 \in 1..n /\ 2 \in 1..n /\ 1 < n
      BY <2>2
    <3>2. Change(1, a) = gain(1) - loss(1) /\ Change(2, a) = gain(2) - loss(2)
      BY <1>3, <3>1
    <3>3. Change(3, a) = 0 /\ Change(4, a) = 0
      BY <1>9, <2>0, <2>2
    <3>4. gain(1) >= loss(2) /\ loss(1) = 0 /\ gain(2) = 0
      BY <1>5, <1>6, <1>7, <2>2, <3>1
    <3> QED
      BY <1>4, <3>1, <3>2, <3>3, <3>4 DEF Changes
  <2>3. CASE n = 3
    <3>1. 1 \in 1..n /\ 2 \in 1..n /\ 3 \in 1..n /\ 1 < n /\ 2 < n
      BY <2>3
    <3>2. /\ Change(1, a) = gain(1) - loss(1) /\ Change(2, a) = gain(2) - loss(2)
          /\ Change(3, a) = gain(3) - loss(3)
      BY <1>3, <3>1
    <3>3. Change(4, a) = 0
      BY <1>9, <2>0, <2>3
    <3>4. gain(1) >= loss(2) /\ gain(2) >= loss(3) /\ loss(1) = 0 /\ gain(3) = 0
      BY <1>5, <1>6, <1>7, <2>3, <3>1
    <3> QED
      BY <1>4, <3>1, <3>2, <3>3, <3>4 DEF Changes
  <2>4. CASE n = 4
    <3>1. 1 \in 1..n /\ 2 \in 1..n /\ 3 \in 1..n /\ 4 \in 1..n /\ 1 < n /\ 2 < n /\ 3 < n
      BY <2>4
    <3>2. /\ Change(1, a) = gain(1) - loss(1) /\ Change(2, a) = gain(2) - loss(2)
          /\ Change(3, a) = gain(3) - loss(3) /\ Change(4, a) = gain(4) - loss(4)
      BY <1>3, <3>1
    <3>3. gain(1) >= loss(2) /\ gain(2) >= loss(3) /\ gain(3) >= loss(4) /\ loss(1) = 0 /\ gain(4) = 0
      BY <1>5, <1>6, <1>7, <2>4, <3>1
    <3> QED
      BY <1>4, <3>1, <3>2, <3>3 DEF Changes
  <2> QED
    BY <1>1, <2>1, <2>2, <2>3, <2>4
<1> QED
  BY <1>8, <1>10

\* A rebalancing that has succeeded and settled has moved its amount from the first place to the
\* last, less what the bridge keeps, and leaves nothing on the way (rebalancer.ts,
\* buildRebalanceSteps; engine.execution.ts, executePlan).
THEOREM RebalancingMoves == Spec => []RebalancingMovesItsAmount
BY LedgerHolds, TransfersMove, PTL

\* A round trip that has succeeded and settled, and whose conversions gave what was estimated, has
\* drawn on no inventory but that of the asset it started with (arbitrage.execution.ts;
\* engine.execution.ts, executePlan).
THEOREM RoundTripsPayBack == Spec => []RoundTripsPayForThemselves
BY LedgerHolds, RoundTripsPay, PTL
====
