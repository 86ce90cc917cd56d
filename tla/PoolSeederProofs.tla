--------------------------- MODULE PoolSeederProofs ---------------------------
(***************************************************************************)
(* What a call of seedAll may rely on when it has the bridge and the       *)
(* address to itself: its wraps are all claimed when it begins to seed,    *)
(* and it does not fail.  waitForClaims only counts claims, whosever they  *)
(* are; that the count is enough is what the invariant shows.              *)
(***************************************************************************)
EXTENDS PoolSeeder, FiniteSetTheorems, TLAPS

Stages == {"none", "sent", "claimable", "claimed", "expired"}
Points == {"idle", "account", "wrap", "poll", "claim", "seed"}
Runners == [pc : Points, id : 0..MaxRuns, assets : SUBSET Assets,
            claims : SUBSET Deposits, pools : SUBSET Pools, failed : BOOLEAN]

\* TypeOK with the names used here.
LEMMA TypeParts ==
    TypeOK <=> /\ stage \in [Deposits -> Stages]
               /\ funds \in [Assets -> Nat]
               /\ run \in [Seeders -> Runners]
               /\ runs \in 0..MaxRuns
               /\ outcome \in [Runs -> {"none", "failed", "thrown", "success"}]
               /\ alone \subseteq Runs
               /\ troubles \in 0..MaxTroubles
BY DEF TypeOK, Stages, Runners, Points

\* The record of a call, with the fields replaced that the actions replace.
LEMMA RunnerTypes ==
    ASSUME NEW r \in Runners
    PROVE  /\ \A pc \in Points : [r EXCEPT !.pc = pc] \in Runners
           /\ \A pc \in Points, A \in SUBSET Assets : [r EXCEPT !.pc = pc, !.assets = A] \in Runners
           /\ \A A \in SUBSET Assets : [r EXCEPT !.assets = A] \in Runners
           /\ \A A \in SUBSET Assets : [r EXCEPT !.assets = A, !.failed = TRUE] \in Runners
           /\ \A pc \in Points, C \in SUBSET Deposits : [r EXCEPT !.pc = pc, !.claims = C] \in Runners
           /\ \A C \in SUBSET Deposits : [r EXCEPT !.claims = C] \in Runners
           /\ \A C \in SUBSET Deposits : [r EXCEPT !.claims = C, !.failed = TRUE] \in Runners
           /\ \A P \in SUBSET Pools : [r EXCEPT !.pools = P] \in Runners
           /\ \A P \in SUBSET Pools : [r EXCEPT !.pools = P, !.failed = TRUE] \in Runners
           /\ \A pc \in Points, id \in 0..MaxRuns, P \in SUBSET Pools :
                [r EXCEPT !.pc = pc, !.id = id, !.pools = P] \in Runners
<1>1. \A pc \in Points : [r EXCEPT !.pc = pc] \in Runners
  BY DEF Runners
<1>2. \A pc \in Points, A \in SUBSET Assets : [r EXCEPT !.pc = pc, !.assets = A] \in Runners
  BY DEF Runners
<1>3. \A A \in SUBSET Assets : [r EXCEPT !.assets = A] \in Runners
  BY DEF Runners
<1>4. \A A \in SUBSET Assets : [r EXCEPT !.assets = A, !.failed = TRUE] \in Runners
  BY DEF Runners
<1>5. \A pc \in Points, C \in SUBSET Deposits : [r EXCEPT !.pc = pc, !.claims = C] \in Runners
  BY DEF Runners
<1>6. \A C \in SUBSET Deposits : [r EXCEPT !.claims = C] \in Runners
  BY DEF Runners
<1>7. \A C \in SUBSET Deposits : [r EXCEPT !.claims = C, !.failed = TRUE] \in Runners
  BY DEF Runners
<1>8. \A P \in SUBSET Pools : [r EXCEPT !.pools = P] \in Runners
  BY DEF Runners
<1>9. \A P \in SUBSET Pools : [r EXCEPT !.pools = P, !.failed = TRUE] \in Runners
  BY DEF Runners
<1>10. \A pc \in Points, id \in 0..MaxRuns, P \in SUBSET Pools :
                [r EXCEPT !.pc = pc, !.id = id, !.pools = P] \in Runners
  BY DEF Runners
<1> QED
  BY <1>1, <1>2, <1>3, <1>4, <1>5, <1>6, <1>7, <1>8, <1>9, <1>10

LEMMA NoRunType == NoRun \in Runners
BY SeederAssumption DEF Runners, NoRun, Points

\* What a deposit pays for is a number of pools.
LEMMA ShareType == ASSUME NEW a \in Assets PROVE Share(a) \in Nat
<1>1. IsFiniteSet({p \in Pools : a \in Needs[p]})
  BY SeederAssumption, FS_Subset
<1> QED
  BY <1>1, FS_CardinalityType DEF Share

\* The end of a call keeps the types.
LEMMA EndType ==
    ASSUME TypeOK, NEW s \in Seeders, NEW r \in {"failed", "thrown", "success"}, End(s, r)
    PROVE  /\ run' \in [Seeders -> Runners]
           /\ outcome' \in [Runs -> {"none", "failed", "thrown", "success"}]
BY TypeParts, NoRunType DEF End

LEMMA TypeInit == Init => TypeOK
BY SeederAssumption, NoRunType, TypeParts DEF Init, Runs, Stages

\* A step of a call keeps the types.
LEMMA TypeStep == ASSUME TypeOK, NEW s \in Seeders, Step(s) PROVE TypeOK'
<1> USE SeederAssumption
<1> SUFFICES /\ stage' \in [Deposits -> Stages] /\ funds' \in [Assets -> Nat]
             /\ run' \in [Seeders -> Runners] /\ UNCHANGED <<runs, alone, troubles>>
             /\ outcome' \in [Runs -> {"none", "failed", "thrown", "success"}]
  BY TypeParts DEF TypeOK, Stages, Runners, Points
<1>0. /\ run[s] \in Runners /\ run[s].assets \in SUBSET Assets
      /\ run[s].claims \in SUBSET Deposits /\ run[s].pools \in SUBSET Pools
  BY TypeParts DEF Runners
<1>1. CASE CreateAccount(s)
  <2>1. run' = [run EXCEPT ![s] = [run[s] EXCEPT !.pc = "wrap", !.assets = Assets]]
    BY <1>1, TypeParts DEF CreateAccount
  <2>2. [run[s] EXCEPT !.pc = "wrap", !.assets = Assets] \in Runners
    BY <1>0, RunnerTypes DEF Points, Claimable
  <2> QED
    BY <1>1, <2>1, <2>2, TypeParts DEF CreateAccount, Stages
<1>2. CASE AfterWraps(s)
  <2>1. [run[s] EXCEPT !.pc = "poll"] \in Runners
    BY <1>0, RunnerTypes DEF Points
  <2>2. run' \in [Seeders -> Runners]
    BY <1>2, <2>1, TypeParts, EndType DEF AfterWraps
  <2> QED
    BY <1>2, <2>2, TypeParts, EndType DEF AfterWraps
<1>3. CASE Poll(s)
  <2>1. run' = [run EXCEPT ![s] = [run[s] EXCEPT !.pc = "claim", !.claims = Claimable]]
    BY <1>3, TypeParts DEF Poll
  <2>2. [run[s] EXCEPT !.pc = "claim", !.claims = Claimable] \in Runners
    BY <1>0, RunnerTypes DEF Points, Claimable
  <2> QED
    BY <1>3, <2>1, <2>2, TypeParts DEF Poll, Stages
<1>4. CASE Timeout(s)
  BY <1>4, TypeParts, EndType DEF Timeout
<1>5. CASE AfterClaims(s)
  <2>1. [run[s] EXCEPT !.pc = "seed"] \in Runners
    BY <1>0, RunnerTypes DEF Points
  <2>2. run' \in [Seeders -> Runners]
    BY <1>5, <2>1, TypeParts, EndType DEF AfterClaims
  <2> QED
    BY <1>5, <2>2, TypeParts, EndType DEF AfterClaims
<1>6. CASE AfterPools(s)
  BY <1>6, TypeParts, EndType DEF AfterPools
<1>7. CASE \E a \in Assets : Transfer(s, a)
  <2> PICK a \in Assets : Transfer(s, a)
    BY <1>7
  <2>1. run' = [run EXCEPT ![s] = [run[s] EXCEPT !.assets = run[s].assets \ {a}]]
    BY TypeParts DEF Transfer
  <2>2. [run[s] EXCEPT !.assets = run[s].assets \ {a}] \in Runners
    BY <1>0, RunnerTypes DEF Points, Claimable
  <2> QED
    BY <2>1, <2>2, TypeParts DEF Transfer, Stages
<1>8. CASE \E d \in Deposits : Claim(s, d)
  <2> PICK d \in Deposits : Claim(s, d)
    BY <1>8
  <2>1. run' = [run EXCEPT ![s] = [run[s] EXCEPT !.claims = run[s].claims \ {d}]]
    BY TypeParts DEF Claim
  <2>2. [run[s] EXCEPT !.claims = run[s].claims \ {d}] \in Runners
    BY <1>0, RunnerTypes DEF Points, Claimable
  <2>3. funds' \in [Assets -> Nat] /\ stage' \in [Deposits -> Stages]
    <3>1. d[2] \in Assets /\ Share(d[2]) \in Nat
      BY ShareType DEF Deposits
    <3> QED
      BY <3>1, TypeParts DEF Claim, Claimed, Stages
  <2> QED
    BY <2>1, <2>2, <2>3, TypeParts DEF Claim, Stages
<1>9. CASE \E d \in Deposits : ClaimReverts(s, d)
  <2> PICK d \in Deposits : ClaimReverts(s, d)
    BY <1>9
  <2>1. run' = [run EXCEPT ![s] = [run[s] EXCEPT !.claims = run[s].claims \ {d}, !.failed = TRUE]]
    BY TypeParts DEF ClaimReverts
  <2>2. [run[s] EXCEPT !.claims = run[s].claims \ {d}, !.failed = TRUE] \in Runners
    BY <1>0, RunnerTypes DEF Points, Claimable
  <2> QED
    BY <2>1, <2>2, TypeParts DEF ClaimReverts, Stages
<1>10. CASE \E p \in Pools : Mint(s, p)
  <2> PICK p \in Pools : Mint(s, p)
    BY <1>10
  <2>1. run' = [run EXCEPT ![s] = [run[s] EXCEPT !.pools = run[s].pools \ {p}]]
    BY TypeParts DEF Mint
  <2>2. [run[s] EXCEPT !.pools = run[s].pools \ {p}] \in Runners
    BY <1>0, RunnerTypes DEF Points, Claimable
  <2>3. funds' \in [Assets -> Nat]
    BY TypeParts DEF Mint, Minted, Funded
  <2> QED
    BY <2>1, <2>2, <2>3, TypeParts DEF Mint, Stages
<1>11. CASE \E p \in Pools : MintReverts(s, p)
  <2> PICK p \in Pools : MintReverts(s, p)
    BY <1>11
  <2>1. run' = [run EXCEPT ![s] = [run[s] EXCEPT !.pools = run[s].pools \ {p}, !.failed = TRUE]]
    BY TypeParts DEF MintReverts
  <2>2. [run[s] EXCEPT !.pools = run[s].pools \ {p}, !.failed = TRUE] \in Runners
    BY <1>0, RunnerTypes DEF Points, Claimable
  <2> QED
    BY <2>1, <2>2, TypeParts DEF MintReverts, Stages
<1> QED
  BY <1>1, <1>2, <1>3, <1>4, <1>5, <1>6, <1>7, <1>8, <1>9, <1>10, <1>11 DEF Step

\* A call that fails keeps the types.
LEMMA TypeFault == ASSUME TypeOK, NEW s \in Seeders, Fault(s) PROVE TypeOK'
<1> USE SeederAssumption
<1>a. Fails(s) /\ UNCHANGED runs
  BY DEF Fault, AccountRefused, Die, TransferFails, ClaimFails, MintFails
<1>b. troubles' \in 0..MaxTroubles /\ alone' \subseteq Runs
  BY <1>a, TypeParts DEF Fails, Trouble
<1> SUFFICES /\ stage' \in [Deposits -> Stages] /\ funds' \in [Assets -> Nat]
             /\ run' \in [Seeders -> Runners]
             /\ outcome' \in [Runs -> {"none", "failed", "thrown", "success"}]
  BY <1>a, <1>b, TypeParts DEF TypeOK, Stages, Runners, Points
<1>0. /\ run[s] \in Runners /\ run[s].assets \in SUBSET Assets
      /\ run[s].claims \in SUBSET Deposits /\ run[s].pools \in SUBSET Pools
  BY TypeParts DEF Runners
<1>1. CASE AccountRefused(s)
  BY <1>1, TypeParts, EndType DEF AccountRefused
<1>2. CASE Die(s)
  BY <1>2, TypeParts, EndType DEF Die
<1>3. CASE \E a \in Assets : TransferFails(s, a)
  <2> PICK a \in Assets : TransferFails(s, a)
    BY <1>3
  <2>1. run' = [run EXCEPT ![s] = [run[s] EXCEPT !.assets = run[s].assets \ {a}, !.failed = TRUE]]
    BY TypeParts DEF TransferFails
  <2>2. [run[s] EXCEPT !.assets = run[s].assets \ {a}, !.failed = TRUE] \in Runners
    BY <1>0, RunnerTypes DEF Points, Claimable
  <2> QED
    BY <2>1, <2>2, TypeParts DEF TransferFails, Stages
<1>4. CASE \E d \in Deposits : ClaimFails(s, d)
  <2> PICK d \in Deposits : ClaimFails(s, d)
    BY <1>4
  <2>1. run' = [run EXCEPT ![s] = [run[s] EXCEPT !.claims = run[s].claims \ {d}, !.failed = TRUE]]
    BY TypeParts DEF ClaimFails
  <2>2. [run[s] EXCEPT !.claims = run[s].claims \ {d}, !.failed = TRUE] \in Runners
    BY <1>0, RunnerTypes DEF Points, Claimable
  <2>3. funds' \in [Assets -> Nat] /\ stage' \in [Deposits -> Stages]
    <3>1. d[2] \in Assets /\ Share(d[2]) \in Nat
      BY ShareType DEF Deposits
    <3> QED
      BY <3>1, TypeParts DEF ClaimFails, Claimed, Stages
  <2> QED
    BY <2>1, <2>2, <2>3, TypeParts DEF ClaimFails, Stages
<1>5. CASE \E p \in Pools : MintFails(s, p)
  <2> PICK p \in Pools : MintFails(s, p)
    BY <1>5
  <2>1. run' = [run EXCEPT ![s] = [run[s] EXCEPT !.pools = run[s].pools \ {p}, !.failed = TRUE]]
    BY TypeParts DEF MintFails
  <2>2. [run[s] EXCEPT !.pools = run[s].pools \ {p}, !.failed = TRUE] \in Runners
    BY <1>0, RunnerTypes DEF Points, Claimable
  <2>3. funds' \in [Assets -> Nat]
    BY TypeParts DEF MintFails, Minted, Funded
  <2> QED
    BY <2>1, <2>2, <2>3, TypeParts DEF MintFails, Stages
<1> QED
  BY <1>1, <1>2, <1>3, <1>4, <1>5 DEF Fault

\* A call begins.
LEMMA TypeStart ==
    ASSUME TypeOK, NEW s \in Seeders, NEW pools \in Selections, NEW skipWrap \in BOOLEAN,
           StartRun(s, pools, skipWrap)
    PROVE  TypeOK'
<1> DEFINE pc == IF skipWrap THEN "seed" ELSE "account"
           r == [NoRun EXCEPT !.pc = pc, !.id = runs + 1, !.pools = pools]
<1>1. r \in Runners
  <2>1. pc \in Points /\ runs + 1 \in 0..MaxRuns /\ pools \in SUBSET Pools
    BY SeederAssumption, TypeParts DEF StartRun, Points
  <2> QED
    BY <2>1, NoRunType, RunnerTypes
<1>2. run' \in [Seeders -> Runners]
  <2>1. run' = [run EXCEPT ![s] = r]
    BY DEF StartRun
  <2> HIDE DEF r
  <2> QED
    BY <1>1, <2>1, TypeParts
<1>3. runs' \in 0..MaxRuns /\ alone' \subseteq Runs
  BY SeederAssumption, TypeParts DEF StartRun, Runs
<1>4. UNCHANGED <<stage, funds, outcome, troubles>>
  BY DEF StartRun
<1> QED
  BY <1>2, <1>3, <1>4, TypeParts DEF TypeOK, Stages, Runners, Points

LEMMA TypeNext == TypeOK /\ [Next]_vars => TypeOK'
<1> SUFFICES ASSUME TypeOK, [Next]_vars PROVE TypeOK'
  OBVIOUS
<1> USE SeederAssumption
<1>1. CASE UNCHANGED vars
  BY <1>1 DEF TypeOK, vars
<1>2. CASE \E s \in Seeders : Step(s) \/ Fault(s)
  BY <1>2, TypeStep, TypeFault
<1>3. CASE \E s \in Seeders, pools \in Selections, skipWrap \in BOOLEAN : StartRun(s, pools, skipWrap)
  BY <1>3, TypeStart
<1>4. CASE \E d \in Deposits : Confirm(d)
  BY <1>4 DEF TypeOK, Confirm
<1>5. CASE \E d \in Deposits : Expire(d)
  BY <1>5 DEF TypeOK, Expire, Trouble
<1>6. CASE \E a \in EngineAssets : EngineWraps(a)
  <2> PICK a \in EngineAssets : EngineWraps(a)
    BY <1>6
  <2>1. stage' \in [Deposits -> Stages] /\ alone' \subseteq Runs
    BY TypeParts DEF EngineWraps, Stages
  <2> QED
    BY <2>1, TypeParts DEF EngineWraps, TypeOK, Stages, Runners, Points
<1>7. CASE \E a \in EngineAssets : EngineSpends(a)
  BY <1>7 DEF TypeOK, EngineSpends
<1> QED
  BY <1>1, <1>2, <1>3, <1>4, <1>5, <1>6, <1>7 DEF Next

\* Every variable keeps its type: no token is spent that is not there, by two calls of seedAll and
\* the engine at once (poolSeeder.ts, executeLpMint).
THEOREM TypeCorrect == Spec => []TypeOK
<1>1. Init => TypeOK
  BY TypeInit
<1>2. TypeOK /\ [Next]_vars => TypeOK'
  BY TypeNext
<1> QED
  BY <1>1, <1>2, PTL DEF Spec

-----------------------------------------------------------------------------
(* The invariant *)

Alone(s) == ~At(s, "idle") /\ run[s].id \in alone

\* Calls are numbered, and nothing is known of those that have not begun.
Numbered ==
    /\ \A s \in Seeders : ~At(s, "idle") => run[s].id \in 1..runs
    /\ \A s, t \in Seeders : ~At(s, "idle") /\ ~At(t, "idle") /\ s # t => run[s].id # run[t].id
    /\ alone \subseteq 1..runs
    /\ \A r \in Runs : r > runs => outcome[r] = "none"
    /\ \A d \in Deposits : d[1] > runs => stage[d] = "none"

\* A call that is alone runs alone, and what the bridge still owes is owed to it.
Solitary ==
    \A s \in Seeders : Alone(s) =>
        /\ \A t \in Seeders \ {s} : At(t, "idle")
        /\ \A d \in Deposits : d[1] # run[s].id => stage[d] \notin {"sent", "claimable"}

\* How much of the pools still to be seeded an asset is needed for.
Wanted(a, P) == Cardinality({p \in P : a \in Needs[p]})

\* What such a call has come to: its deposits and the funds they have brought.
Own(s, a) == stage[<<run[s].id, a>>]

Wraps(s) == \A a \in Assets : IF a \in run[s].assets THEN Own(s, a) = "none"
                              ELSE Own(s, a) \in {"sent", "claimable"}

Claims(s) ==
    /\ run[s].claims = {d \in Deposits : d[1] = run[s].id /\ stage[d] = "claimable"}
    /\ \A a \in Assets : Own(s, a) \in {"claimable", "claimed"}
    /\ \A a \in Assets : Own(s, a) = "claimed" => funds[a] >= Share(a)

Seeds(s) ==
    \A a \in Assets : Own(s, a) = "claimed" /\ funds[a] >= Wanted(a, run[s].pools)

Goes(s) ==
    /\ ~run[s].failed
    /\ At(s, "account") => \A a \in Assets : Own(s, a) = "none"
    /\ At(s, "wrap") => Wraps(s)
    /\ At(s, "poll") => \A a \in Assets : Own(s, a) \in {"sent", "claimable"}
    /\ At(s, "claim") => Claims(s)
    /\ At(s, "seed") => Seeds(s)

Progress == \A s \in Seeders : Alone(s) => Goes(s)

IInv == TypeOK /\ Numbered /\ Solitary /\ Progress /\ FailsOnlyByTrouble

LEMMA InvInit == Init => IInv
<1> SUFFICES ASSUME Init PROVE IInv
  OBVIOUS
<1>1. \A s \in Seeders : At(s, "idle")
  BY DEF Init, At, NoRun
<1> QED
  BY <1>1, TypeInit DEF Init, IInv, Numbered, Solitary, Progress, Alone, FailsOnlyByTrouble, Runs

\* What a step of a call leaves alone: the other calls, and all of the bridge but its own deposits
\* and the claimable ones, which it may claim.
LEMMA StepTouches ==
    ASSUME TypeOK, NEW s \in Seeders, Step(s) \/ Fault(s)
    PROVE  /\ ~At(s, "idle") /\ runs' = runs
           /\ \A t \in Seeders \ {s} : run'[t] = run[t]
           /\ At(s, "idle")' \/ run'[s].id = run[s].id
           /\ \A d \in Deposits : \/ stage'[d] = stage[d] \/ d[1] = run[s].id
                                  \/ stage[d] = "claimable" /\ stage'[d] = "claimed"
           /\ \A r \in Runs : outcome'[r] = outcome[r] \/ r = run[s].id
           /\ Step(s) => alone' = alone
           /\ Fault(s) => alone' = alone \ {run[s].id}
<1>0. run \in [Seeders -> Runners] /\ stage \in [Deposits -> Stages] /\ outcome \in [Runs -> {"none", "failed", "thrown", "success"}]
  BY TypeParts
<1>1. ~At(s, "idle") /\ runs' = runs
  BY DEF Step, Fault, At, CreateAccount, AfterWraps, Poll, Timeout, AfterClaims, AfterPools, Transfer,
         Claim, ClaimReverts, ClaimTurn, Mint, MintReverts, Turn, AccountRefused, Die, TransferFails,
         ClaimFails, MintFails
<1>2. \A t \in Seeders \ {s} : run'[t] = run[t]
  BY <1>0 DEF Step, Fault, End, CreateAccount, AfterWraps, Poll, Timeout, AfterClaims, AfterPools, Transfer,
         Claim, ClaimReverts, Mint, MintReverts, AccountRefused, Die, TransferFails, ClaimFails, MintFails
<1>3. At(s, "idle")' \/ run'[s].id = run[s].id
  <2>1. run[s] \in Runners
    BY <1>0
  <2>2. ASSUME NEW r, End(s, r) PROVE At(s, "idle")'
    BY <2>2, <1>0 DEF End, At, NoRun
  <2>3. CASE AccountRefused(s) \/ Die(s) \/ Timeout(s) \/ AfterPools(s)
    BY <2>2, <2>3 DEF AccountRefused, Die, Timeout, AfterPools
  <2>4. CASE CreateAccount(s) \/ Poll(s)
    BY <1>0, <2>1, <2>4 DEF CreateAccount, Poll, Runners
  <2>5. CASE AfterWraps(s) \/ AfterClaims(s)
    BY <1>0, <2>1, <2>2, <2>5 DEF AfterWraps, AfterClaims, Runners
  <2>6. CASE \E a \in Assets : Transfer(s, a) \/ TransferFails(s, a)
    BY <1>0, <2>1, <2>6 DEF Transfer, TransferFails, Runners
  <2>7. CASE \E d \in Deposits : Claim(s, d) \/ ClaimReverts(s, d) \/ ClaimFails(s, d)
    BY <1>0, <2>1, <2>7 DEF Claim, ClaimReverts, ClaimFails, Runners
  <2>8. CASE \E p \in Pools : Mint(s, p) \/ MintReverts(s, p) \/ MintFails(s, p)
    BY <1>0, <2>1, <2>8 DEF Mint, MintReverts, MintFails, Runners
  <2> QED
    BY <2>3, <2>4, <2>5, <2>6, <2>7, <2>8 DEF Step, Fault
<1>4. ASSUME NEW d \in Deposits
      PROVE  \/ stage'[d] = stage[d] \/ d[1] = run[s].id
             \/ stage[d] = "claimable" /\ stage'[d] = "claimed"
  <2>1. CASE \E a \in Assets : Transfer(s, a) \/ TransferFails(s, a)
    BY <1>0, <2>1 DEF Transfer, TransferFails
  <2>2. CASE \E e \in Deposits : Claim(s, e) \/ ClaimFails(s, e)
    BY <1>0, <2>2 DEF Claim, ClaimFails, Claimed
  <2>3. CASE UNCHANGED stage
    BY <2>3
  <2> QED
    BY <2>1, <2>2, <2>3 DEF Step, Fault, CreateAccount, AfterWraps, Poll, Timeout, AfterClaims, AfterPools,
       ClaimReverts, Mint, MintReverts, AccountRefused, Die, MintFails
<1>5. \A r \in Runs : outcome'[r] = outcome[r] \/ r = run[s].id
  BY <1>0 DEF Step, Fault, End, CreateAccount, AfterWraps, Poll, Timeout, AfterClaims, AfterPools, Transfer,
         Claim, ClaimReverts, Mint, MintReverts, AccountRefused, Die, TransferFails, ClaimFails, MintFails
<1>6. Step(s) => alone' = alone
  BY DEF Step, CreateAccount, AfterWraps, Poll, Timeout, AfterClaims, AfterPools, Transfer,
         Claim, ClaimReverts, Mint, MintReverts
<1>7. Fault(s) => alone' = alone \ {run[s].id}
  BY DEF Fault, Fails, AccountRefused, Die, TransferFails, ClaimFails, MintFails
<1> QED
  BY <1>1, <1>2, <1>3, <1>4, <1>5, <1>6, <1>7

\* A new call.
LEMMA StartTouches ==
    ASSUME TypeOK, NEW s \in Seeders, NEW pools \in Selections, NEW skipWrap \in BOOLEAN,
           StartRun(s, pools, skipWrap)
    PROVE  /\ At(s, "idle") /\ runs + 1 \in Runs /\ runs' = runs + 1
           /\ UNCHANGED <<stage, funds, outcome>>
           /\ \A t \in Seeders \ {s} : run'[t] = run[t]
           /\ run'[s].id = runs + 1 /\ run'[s].failed = FALSE /\ ~At(s, "idle")'
           /\ runs + 1 \in alone' => At(s, "account")' \/ runs + 1 \in alone
           /\ alone' \subseteq alone \cup {runs + 1}
           /\ runs + 1 \in alone' \ alone => ActiveRuns = {} /\ Outstanding = {}
           /\ ActiveRuns # {} => alone' = alone \ ActiveRuns
<1>0. run \in [Seeders -> Runners] /\ runs \in 0..MaxRuns
  BY TypeParts
<1>1. /\ At(s, "idle") /\ runs + 1 \in Runs /\ runs' = runs + 1
      /\ UNCHANGED <<stage, funds, outcome>>
  BY <1>0, SeederAssumption DEF StartRun, Runs
<1>2. \A t \in Seeders \ {s} : run'[t] = run[t]
  BY <1>0 DEF StartRun
<1>3. /\ run'[s].pc = IF skipWrap THEN "seed" ELSE "account"
      /\ run'[s].id = runs + 1 /\ run'[s].failed = FALSE
  BY <1>0 DEF StartRun, NoRun
<1>4. ~At(s, "idle")'
  BY <1>3 DEF At
<1>5. runs + 1 \in alone' => At(s, "account")' \/ runs + 1 \in alone
  BY <1>3 DEF StartRun, At
<1>6. /\ alone' \subseteq alone \cup {runs + 1}
      /\ runs + 1 \in alone' \ alone => ActiveRuns = {} /\ Outstanding = {}
      /\ ActiveRuns # {} => alone' = alone \ ActiveRuns
  BY DEF StartRun
<1> QED
  BY <1>1, <1>2, <1>3, <1>4, <1>5, <1>6

\* The bridge and the engine: they touch no call, and what is not the confirmation of a deposit
\* leaves no call alone that is under way.
Others == (\E d \in Deposits : Confirm(d) \/ Expire(d)) \/ (\E a \in EngineAssets : EngineWraps(a) \/ EngineSpends(a))

LEMMA OthersTouch ==
    ASSUME TypeOK, Others
    PROVE  /\ UNCHANGED <<run, runs, outcome>>
           /\ \A d \in Deposits : stage[d] = "none" => stage'[d] = "none" \/ d[1] = 0
           /\ \/ alone' = alone \ ActiveRuns
              \/ /\ UNCHANGED <<alone, funds>>
                 /\ \E d \in Deposits : stage[d] = "sent" /\ stage' = [stage EXCEPT ![d] = "claimable"]
<1>0. stage \in [Deposits -> Stages]
  BY TypeParts
<1>1. CASE \E d \in Deposits : Confirm(d)
  BY <1>0, <1>1 DEF Confirm
<1>2. CASE \E d \in Deposits : Expire(d)
  BY <1>0, <1>2 DEF Expire
<1>3. CASE \E a \in EngineAssets : EngineWraps(a)
  BY <1>0, <1>3 DEF EngineWraps
<1>4. CASE \E a \in EngineAssets : EngineSpends(a)
  BY <1>0, <1>4 DEF EngineSpends
<1> QED
  BY <1>1, <1>2, <1>3, <1>4 DEF Others

LEMMA NextIs ==
    Next <=> \/ \E s \in Seeders : Step(s) \/ Fault(s)
             \/ \E s \in Seeders, pools \in Selections, skipWrap \in BOOLEAN : StartRun(s, pools, skipWrap)
             \/ Others
BY DEF Next, Others

LEMMA NumberedNext == ASSUME TypeOK, TypeOK', Numbered, Next PROVE Numbered'
<1>0. run \in [Seeders -> Runners] /\ runs \in Nat /\ runs \in 0..MaxRuns /\ alone \subseteq 1..runs
  BY TypeParts, SeederAssumption DEF Numbered
<1>1. ASSUME NEW s \in Seeders, Step(s) \/ Fault(s) PROVE Numbered'
  <2>1. \A t \in Seeders : ~At(t, "idle")' => ~At(t, "idle") /\ run'[t].id = run[t].id
    BY <1>1, StepTouches DEF At
  <2>2. run[s].id \in 1..runs
    BY <1>1, StepTouches DEF Numbered
  <2>3. runs' = runs /\ alone' \subseteq alone
    BY <1>1, StepTouches
  <2>4. \A r \in Runs : r > runs' => outcome'[r] = "none"
    BY <1>0, <1>1, <2>2, <2>3, StepTouches DEF Numbered
  <2>5. \A d \in Deposits : d[1] > runs' => stage'[d] = "none"
    BY <1>0, <1>1, <2>2, <2>3, StepTouches DEF Numbered, Deposits
  <2> QED
    BY <1>0, <2>1, <2>3, <2>4, <2>5 DEF Numbered
<1>2. ASSUME NEW s \in Seeders, NEW pools \in Selections, NEW skipWrap \in BOOLEAN, StartRun(s, pools, skipWrap)
      PROVE  Numbered'
  <2>1. \A t \in Seeders \ {s} : run'[t] = run[t]
    BY <1>2, StartTouches
  <2>2. \A t \in Seeders \ {s} : ~At(t, "idle")' => run'[t].id \in 1..runs /\ ~At(t, "idle")
    BY <2>1 DEF At, Numbered
  <2>3. run'[s].id = runs + 1 /\ runs' = runs + 1
    BY <1>2, StartTouches
  <2>4. /\ \A t \in Seeders : ~At(t, "idle")' => run'[t].id \in 1..runs'
        /\ \A t, u \in Seeders : ~At(t, "idle")' /\ ~At(u, "idle")' /\ t # u => run'[t].id # run'[u].id
    BY <1>0, <2>1, <2>2, <2>3 DEF Numbered
  <2>5. alone' \subseteq 1..runs'
    <3>1. alone' \subseteq alone \cup {runs + 1}
      BY <1>2, StartTouches
    <3> QED
      BY <1>0, <2>3, <3>1
  <2>6. /\ \A r \in Runs : r > runs' => outcome'[r] = "none"
        /\ \A d \in Deposits : d[1] > runs' => stage'[d] = "none"
    <3>1. UNCHANGED <<stage, outcome>>
      BY <1>2, StartTouches
    <3>2. /\ \A r \in Runs : r > runs => outcome[r] = "none"
          /\ \A d \in Deposits : d[1] > runs => stage[d] = "none"
      BY DEF Numbered
    <3>3. \A n \in Nat : n > runs + 1 => n > runs
      BY <1>0
    <3>4. Runs \subseteq Nat /\ \A d \in Deposits : d[1] \in Nat
      BY SeederAssumption DEF Runs, Deposits
    <3> QED
      BY <2>3, <3>1, <3>2, <3>3, <3>4
  <2> QED
    BY <2>4, <2>5, <2>6 DEF Numbered
<1>3. CASE Others
  <2>1. UNCHANGED <<run, runs, outcome>> /\ alone' \subseteq alone
    BY <1>3, OthersTouch
  <2>2. \A d \in Deposits : d[1] > runs => stage'[d] = "none"
    BY <1>0, <1>3, OthersTouch DEF Numbered, Deposits
  <2> QED
    BY <2>1, <2>2 DEF Numbered, At
<1> QED
  BY <1>1, <1>2, <1>3, NextIs

LEMMA SolitaryNext == ASSUME TypeOK, Numbered, Numbered', Solitary, Next PROVE Solitary'
<1>1. ASSUME NEW s \in Seeders, Step(s) \/ Fault(s) PROVE Solitary'
  <2> SUFFICES ASSUME NEW t \in Seeders, Alone(t)'
               PROVE  /\ \A u \in Seeders \ {t} : At(u, "idle")'
                      /\ \A d \in Deposits : d[1] # run'[t].id => stage'[d] \notin {"sent", "claimable"}
    BY DEF Solitary
  <2>1. Alone(t) /\ run'[t].id = run[t].id
    BY <1>1, StepTouches DEF Alone, At
  <2>2. t = s
    BY <1>1, <2>1, StepTouches DEF Solitary
  <2> QED
    BY <1>1, <2>1, <2>2, StepTouches DEF Solitary, At
<1>2. ASSUME NEW s \in Seeders, NEW pools \in Selections, NEW skipWrap \in BOOLEAN, StartRun(s, pools, skipWrap)
      PROVE  Solitary'
  <2> SUFFICES ASSUME NEW t \in Seeders, Alone(t)'
               PROVE  /\ \A u \in Seeders \ {t} : At(u, "idle")'
                      /\ \A d \in Deposits : d[1] # run'[t].id => stage'[d] \notin {"sent", "claimable"}
    BY DEF Solitary
  <2>1. CASE t # s
    <3>1. ~At(t, "idle") /\ run'[t].id = run[t].id
      BY <1>2, <2>1, StartTouches DEF Alone, At
    <3>2. run[t].id \in ActiveRuns
      BY <3>1 DEF ActiveRuns
    <3>3. run[t].id \notin alone'
      BY <1>2, <3>2, StartTouches
    <3> QED
      BY <3>1, <3>3 DEF Alone
  <2>2. CASE t = s
    <3>1. runs + 1 \in alone' /\ runs + 1 \notin alone
      <4>1. run'[s].id = runs + 1
        BY <1>2, StartTouches
      <4>2. runs \in Nat /\ alone \subseteq 1..runs
        BY TypeParts, SeederAssumption DEF Numbered
      <4> QED
        BY <2>2, <4>1, <4>2 DEF Alone
    <3>2. ActiveRuns = {} /\ Outstanding = {}
      BY <1>2, <3>1, StartTouches
    <3>3. \A u \in Seeders : At(u, "idle")
      BY <3>2 DEF ActiveRuns
    <3>4. \A u \in Seeders \ {t} : At(u, "idle")'
      BY <1>2, <2>2, <3>3, StartTouches DEF At
    <3>5. \A d \in Deposits : stage'[d] \notin {"sent", "claimable"}
      BY <1>2, <3>2, StartTouches DEF Outstanding
    <3> QED
      BY <3>4, <3>5
  <2> QED
    BY <2>1, <2>2
<1>3. CASE Others
  <2> SUFFICES ASSUME NEW t \in Seeders, Alone(t)'
               PROVE  /\ \A u \in Seeders \ {t} : At(u, "idle")'
                      /\ \A d \in Deposits : d[1] # run'[t].id => stage'[d] \notin {"sent", "claimable"}
    BY DEF Solitary
  <2>1. run' = run /\ ~At(t, "idle") /\ run[t].id \in ActiveRuns
    BY <1>3, OthersTouch DEF Alone, At, ActiveRuns
  <2>2. run[t].id \in alone'
    BY <2>1 DEF Alone
  <2>3. PICK e \in Deposits : alone' = alone /\ stage[e] = "sent" /\ stage' = [stage EXCEPT ![e] = "claimable"]
    BY <1>3, <2>1, <2>2, OthersTouch
  <2>4. Alone(t)
    BY <2>1, <2>2, <2>3 DEF Alone
  <2>5. e[1] = run[t].id
    BY <2>3, <2>4 DEF Solitary
  <2> QED
    BY <2>1, <2>3, <2>4, <2>5, TypeParts DEF Solitary, At
<1> QED
  BY <1>1, <1>2, <1>3, NextIs

-----------------------------------------------------------------------------
(* Counting *)

\* As many claimable deposits as there are assets, all of one call: one of each asset.
LEMMA EnoughIsAll ==
    ASSUME NEW id \in 0..MaxRuns, \A d \in Claimable : d[1] = id,
           Cardinality(Claimable) >= Cardinality(Assets)
    PROVE  Claimable = {id} \X Assets
<1>1. IsFiniteSet({id}) /\ Cardinality({id}) = 1
  BY FS_Singleton
<1>2. IsFiniteSet({id} \X Assets) /\ Cardinality({id} \X Assets) = 1 * Cardinality(Assets)
  BY <1>1, SeederAssumption, FS_Product
<1>3. Claimable \in SUBSET ({id} \X Assets)
  BY DEF Claimable, Deposits
<1>4. /\ Cardinality(Claimable) <= Cardinality({id} \X Assets)
      /\ Cardinality({id} \X Assets) = Cardinality(Claimable) => {id} \X Assets = Claimable
  BY <1>2, <1>3, FS_Subset
<1>5. IsFiniteSet(Claimable) /\ Cardinality(Claimable) \in Nat /\ Cardinality(Assets) \in Nat
  BY <1>2, <1>3, SeederAssumption, FS_Subset, FS_CardinalityType
<1> QED
  BY <1>2, <1>4, <1>5

\* What is wanted of an asset is what a deposit pays for, at most, and falls with every pool.
LEMMA WantedType ==
    ASSUME NEW a \in Assets, NEW P \in SUBSET Pools
    PROVE  IsFiniteSet({p \in P : a \in Needs[p]}) /\ Wanted(a, P) \in Nat /\ Wanted(a, P) <= Share(a)
<1>1. IsFiniteSet({p \in Pools : a \in Needs[p]})
  BY SeederAssumption, FS_Subset
<1>2. {p \in P : a \in Needs[p]} \in SUBSET {p \in Pools : a \in Needs[p]}
  OBVIOUS
<1>3. IsFiniteSet({p \in P : a \in Needs[p]}) /\ Wanted(a, P) <= Share(a)
  BY <1>1, <1>2, FS_Subset DEF Wanted, Share
<1> QED
  BY <1>3, FS_CardinalityType DEF Wanted

LEMMA WantedFalls ==
    ASSUME NEW a \in Assets, NEW P \in SUBSET Pools, NEW p \in P
    PROVE  Wanted(a, P \ {p}) = IF a \in Needs[p] THEN Wanted(a, P) - 1 ELSE Wanted(a, P)
<1> DEFINE W == {q \in P : a \in Needs[q]}
<1>1. {q \in P \ {p} : a \in Needs[q]} = W \ {p}
  OBVIOUS
<1>2. IsFiniteSet(W)
  BY WantedType
<1>3. Cardinality(W \ {p}) = IF p \in W THEN Cardinality(W) - 1 ELSE Cardinality(W)
  BY <1>2, FS_RemoveElement
<1>4. p \in W <=> a \in Needs[p]
  OBVIOUS
<1> QED
  BY <1>1, <1>3, <1>4 DEF Wanted

\* A pool whose assets are funded as far as they are wanted can be seeded.
LEMMA WantedIsFunded ==
    ASSUME NEW P \in SUBSET Pools, NEW p \in P, funds \in [Assets -> Nat],
           \A a \in Assets : funds[a] >= Wanted(a, P)
    PROVE  Funded(p)
<1> SUFFICES ASSUME NEW a \in Needs[p] PROVE funds[a] > 0
  BY DEF Funded
<1>1. a \in Assets
  BY SeederAssumption
<1>2. Wanted(a, P \ {p}) = Wanted(a, P) - 1 /\ Wanted(a, P \ {p}) \in Nat /\ Wanted(a, P) \in Nat
  BY <1>1, WantedFalls, WantedType
<1>3. funds[a] \in Nat /\ funds[a] >= Wanted(a, P)
  BY <1>1
<1> QED
  BY <1>2, <1>3

-----------------------------------------------------------------------------
(* What a call that is alone comes to *)

LEMMA AloneStep ==
    ASSUME TypeOK, Solitary, NEW s \in Seeders, Step(s) \/ Fault(s), NEW t \in Seeders, Alone(t)'
    PROVE  t = s /\ Alone(s) /\ run'[s].id = run[s].id /\ ~Fault(s)
<1>1. Alone(t) /\ run'[t].id = run[t].id
  BY StepTouches DEF Alone, At
<1>2. t = s
  BY <1>1, StepTouches DEF Solitary
<1>3. ~Fault(s)
  BY <1>1, <1>2, StepTouches DEF Alone
<1> QED
  BY <1>1, <1>2, <1>3

\* A step that takes the call no further than its end.
LEMMA GoesOn ==
    ASSUME TypeOK, TypeOK', Solitary, NEW s \in Seeders, Step(s), Alone(s), Goes(s), ~At(s, "idle")'
    PROVE  Goes(s)'
<1>0. /\ run \in [Seeders -> Runners] /\ run[s] \in Runners /\ stage \in [Deposits -> Stages]
      /\ funds \in [Assets -> Nat]
      /\ \A a \in Assets : <<run[s].id, a>> \in Deposits
  BY TypeParts DEF Runners, Deposits
<1>1. CASE CreateAccount(s)
  <2>1. /\ run'[s].pc = "wrap" /\ run'[s].assets = Assets /\ run'[s].id = run[s].id
        /\ run'[s].failed = run[s].failed /\ stage' = stage
    BY <1>0, <1>1 DEF CreateAccount, Runners
  <2> QED
    BY <1>1, <2>1 DEF Goes, At, Own, Wraps, CreateAccount
<1>2. CASE AfterWraps(s)
  <2>1. ~run[s].failed
    BY DEF Goes
  <2>2. /\ run'[s].pc = "poll" /\ run'[s].id = run[s].id /\ run'[s].failed = run[s].failed /\ stage' = stage
        /\ run[s].assets = {} /\ At(s, "wrap")
    BY <1>0, <1>2, <2>1 DEF AfterWraps, Runners
  <2> QED
    BY <2>2 DEF Goes, At, Own, Wraps
<1>3. CASE Poll(s)
  <2>1. /\ run'[s].pc = "claim" /\ run'[s].claims = Claimable /\ run'[s].id = run[s].id
        /\ run'[s].failed = run[s].failed /\ UNCHANGED <<stage, funds>> /\ At(s, "poll")
    BY <1>0, <1>3 DEF Poll, Runners
  <2>2. \A d \in Claimable : d[1] = run[s].id
    BY DEF Solitary, Claimable
  <2>3. Claimable = {run[s].id} \X Assets
    BY <1>0, <1>3, <2>2, EnoughIsAll DEF Poll, ExpectedCount, Runners
  <2>4. \A a \in Assets : Own(s, a) = "claimable"
    BY <2>3 DEF Own, Claimable
  <2>5. Claimable = {d \in Deposits : d[1] = run[s].id /\ stage[d] = "claimable"}
    BY <2>2 DEF Claimable
  <2>6. Claims(s)'
    BY <2>1, <2>4, <2>5 DEF Claims, Own
  <2> QED
    BY <2>1, <2>6 DEF Goes, At
<1>4. CASE AfterClaims(s)
  <2>1. ~run[s].failed
    BY DEF Goes
  <2>2. /\ run'[s].pc = "seed" /\ run'[s].id = run[s].id /\ run'[s].failed = run[s].failed
        /\ run'[s].pools = run[s].pools
        /\ UNCHANGED <<stage, funds>> /\ run[s].claims = {} /\ At(s, "claim")
    BY <1>0, <1>4, <2>1 DEF AfterClaims, Runners
  <2>3. Claims(s)
    BY <2>2 DEF Goes
  <2>4. ASSUME NEW a \in Assets PROVE Own(s, a) = "claimed" /\ funds[a] >= Wanted(a, run[s].pools)
    <3>1. Own(s, a) # "claimable"
      BY <1>0, <2>2, <2>3 DEF Claims, Own
    <3>2. Own(s, a) = "claimed" /\ funds[a] >= Share(a)
      BY <2>3, <3>1 DEF Claims
    <3>3. Wanted(a, run[s].pools) \in Nat /\ Wanted(a, run[s].pools) <= Share(a) /\ Share(a) \in Nat /\ funds[a] \in Nat
      BY <1>0, WantedType, ShareType DEF Runners
    <3> QED
      BY <3>2, <3>3
  <2>5. Seeds(s)'
    BY <2>2, <2>4 DEF Seeds, Own
  <2> QED
    BY <2>2, <2>5 DEF Goes, At
<1>5. CASE Timeout(s) \/ AfterPools(s)
  BY <1>0, <1>5 DEF Timeout, AfterPools, End, NoRun, At
<1>6. ASSUME NEW a \in Assets, Transfer(s, a) PROVE Goes(s)'
  <2>1. /\ run'[s].pc = "wrap" /\ run'[s].assets = run[s].assets \ {a} /\ run'[s].id = run[s].id
        /\ run'[s].failed = run[s].failed /\ At(s, "wrap")
    BY <1>0, <1>6 DEF Transfer, Runners, At
  <2>2. stage' = [stage EXCEPT ![<<run[s].id, a>>] = "sent"]
    BY <1>6 DEF Transfer
  <2>3. \A b \in Assets : Own(s, b)' = IF b = a THEN "sent" ELSE Own(s, b)
    BY <1>0, <2>1, <2>2 DEF Own
  <2>4. Wraps(s)'
    BY <2>1, <2>3 DEF Goes, Wraps
  <2> QED
    BY <2>1, <2>4 DEF Goes, At
<1>7. ASSUME NEW d \in Deposits, Claim(s, d) PROVE Goes(s)'
  <2>1. /\ run'[s].pc = "claim" /\ run'[s].claims = run[s].claims \ {d} /\ run'[s].id = run[s].id
        /\ run'[s].failed = run[s].failed /\ At(s, "claim")
    BY <1>0, <1>7 DEF Claim, ClaimTurn, Runners, At
  <2>2. stage' = [stage EXCEPT ![d] = "claimed"] /\ funds' = [funds EXCEPT ![d[2]] = @ + Share(d[2])]
        /\ d \in run[s].claims
    BY <1>7 DEF Claim, Claimed, ClaimTurn
  <2>3. Claims(s)
    BY <2>1 DEF Goes
  <2>4. d[1] = run[s].id /\ d[2] \in Assets /\ d = <<run[s].id, d[2]>>
    BY <2>2, <2>3 DEF Claims, Deposits
  <2>5. \A b \in Assets : Own(s, b)' = IF b = d[2] THEN "claimed" ELSE Own(s, b)
    BY <1>0, <2>1, <2>2, <2>4 DEF Own
  <2>6. \A b \in Assets : funds'[b] = IF b = d[2] THEN funds[b] + Share(b) ELSE funds[b]
    BY <1>0, <2>2, <2>4
  <2>7. \A b \in Assets : Own(s, b)' = "claimed" => funds'[b] >= Share(b)
    <3> SUFFICES ASSUME NEW b \in Assets, Own(s, b)' = "claimed" PROVE funds'[b] >= Share(b)
      OBVIOUS
    <3>1. funds[b] \in Nat /\ Share(b) \in Nat
      BY <1>0, ShareType
    <3>2. b # d[2] => funds[b] >= Share(b)
      BY <2>3, <2>5 DEF Claims
    <3> QED
      BY <2>6, <3>1, <3>2
  <2>8. run'[s].claims = {e \in Deposits : e[1] = run'[s].id /\ stage'[e] = "claimable"}
    BY <1>0, <2>1, <2>2, <2>3 DEF Claims
  <2>9. Claims(s)'
    BY <2>3, <2>5, <2>7, <2>8 DEF Claims
  <2> QED
    BY <2>1, <2>9 DEF Goes, At
<1>8. ASSUME NEW d \in Deposits, ClaimReverts(s, d) PROVE FALSE
  BY <1>8 DEF ClaimReverts, ClaimTurn, Goes, Claims
<1>9. ASSUME NEW p \in Pools, Mint(s, p) PROVE Goes(s)'
  <2>1. /\ run'[s].pc = "seed" /\ run'[s].pools = run[s].pools \ {p} /\ run'[s].id = run[s].id
        /\ run'[s].failed = run[s].failed /\ At(s, "seed") /\ p \in run[s].pools /\ stage' = stage
    BY <1>0, <1>9 DEF Mint, Turn, Runners, At
  <2>2. Seeds(s)
    BY <2>1 DEF Goes
  <2>3. Funded(p) /\ funds' = [a \in Assets |-> IF a \in Needs[p] THEN funds[a] - 1 ELSE funds[a]]
    BY <1>9 DEF Mint, Minted
  <2>4. ASSUME NEW a \in Assets PROVE funds'[a] >= Wanted(a, run'[s].pools)
    <3>1. run[s].pools \in SUBSET Pools
      BY <1>0 DEF Runners
    <3>2. Wanted(a, run'[s].pools) = IF a \in Needs[p] THEN Wanted(a, run[s].pools) - 1 ELSE Wanted(a, run[s].pools)
      BY <2>1, <3>1, WantedFalls
    <3>3. funds[a] \in Nat /\ Wanted(a, run[s].pools) \in Nat /\ funds[a] >= Wanted(a, run[s].pools)
      BY <1>0, <2>2, <3>1, WantedType DEF Seeds
    <3>4. funds'[a] = IF a \in Needs[p] THEN funds[a] - 1 ELSE funds[a]
      BY <2>3
    <3> QED
      BY <3>2, <3>3, <3>4
  <2>5. Seeds(s)'
    BY <2>1, <2>2, <2>4 DEF Seeds, Own
  <2> QED
    BY <2>1, <2>5 DEF Goes, At
<1>10. ASSUME NEW p \in Pools, MintReverts(s, p) PROVE FALSE
  <2>1. At(s, "seed") /\ p \in run[s].pools /\ ~Funded(p) /\ Seeds(s) /\ run[s].pools \in SUBSET Pools
    BY <1>0, <1>10 DEF MintReverts, Turn, Goes, Runners
  <2> QED
    BY <1>0, <2>1, WantedIsFunded DEF Seeds
<1> QED
  BY <1>1, <1>2, <1>3, <1>4, <1>5, <1>6, <1>7, <1>8, <1>9, <1>10 DEF Step

\* A call that ends in failure is not alone.
LEMMA FailureIsNotAlone ==
    ASSUME TypeOK, NEW s \in Seeders, Step(s), Alone(s), Goes(s)
    PROVE  run[s].id \in Runs => outcome'[run[s].id] # "failed" \/ outcome'[run[s].id] = outcome[run[s].id]
<1>0. outcome \in [Runs -> {"none", "failed", "thrown", "success"}] /\ ~run[s].failed
  BY TypeParts DEF Goes
<1>1. CASE Timeout(s) \/ AfterPools(s)
  BY <1>0, <1>1 DEF Timeout, AfterPools, End
<1>2. CASE UNCHANGED outcome
  BY <1>2
<1> QED
  BY <1>0, <1>1, <1>2 DEF Step, CreateAccount, AfterWraps, Poll, AfterClaims, Transfer, Claim, ClaimReverts, Mint, MintReverts

LEMMA ProgressNext == ASSUME TypeOK, TypeOK', Numbered, Numbered', Solitary, Progress, Next PROVE Progress'
<1> SUFFICES ASSUME NEW t \in Seeders, Alone(t)' PROVE Goes(t)'
  BY DEF Progress
<1>1. ASSUME NEW s \in Seeders, Step(s) \/ Fault(s) PROVE Goes(t)'
  <2>1. t = s /\ Alone(s) /\ ~Fault(s)
    BY <1>1, AloneStep
  <2> QED
    BY <1>1, <2>1, GoesOn DEF Progress, Alone
<1>2. ASSUME NEW s \in Seeders, NEW pools \in Selections, NEW skipWrap \in BOOLEAN, StartRun(s, pools, skipWrap)
      PROVE  Goes(t)'
  <2>0. runs \in Nat /\ runs \in 0..MaxRuns /\ alone \subseteq 1..runs
    BY TypeParts, SeederAssumption DEF Numbered
  <2>1. CASE t # s
    <3>1. ~At(t, "idle") /\ run'[t].id = run[t].id
      BY <1>2, <2>1, StartTouches DEF Alone, At
    <3>2. run[t].id \in ActiveRuns
      BY <3>1 DEF ActiveRuns
    <3>3. run[t].id \notin alone'
      BY <1>2, <3>2, StartTouches
    <3> QED
      BY <3>1, <3>3 DEF Alone
  <2>2. CASE t = s
    <3>1. run'[s].id = runs + 1 /\ ~run'[s].failed /\ stage' = stage
      BY <1>2, StartTouches
    <3>2. runs + 1 \notin alone
      BY <2>0
    <3>3. run'[s].pc = "account"
      BY <1>2, <2>2, <3>1, <3>2, StartTouches DEF Alone, At
    <3>4. ASSUME NEW a \in Assets PROVE Own(s, a)' = "none"
      <4>1. <<runs + 1, a>> \in Deposits
        <5>1. runs + 1 \in Runs
          BY <1>2, StartTouches
        <5> QED
          BY <5>1, SeederAssumption DEF Deposits, Runs
      <4>2. <<runs + 1, a>>[1] > runs
        BY <2>0
      <4>3. stage[<<runs + 1, a>>] = "none"
        BY <4>1, <4>2 DEF Numbered
      <4> QED
        BY <3>1, <4>3 DEF Own
    <3> QED
      BY <2>2, <3>1, <3>3, <3>4 DEF Goes, At
  <2> QED
    BY <2>1, <2>2
<1>3. CASE Others
  <2>1. run' = run /\ ~At(t, "idle") /\ run[t].id \in ActiveRuns
    BY <1>3, OthersTouch DEF Alone, At, ActiveRuns
  <2>2. run[t].id \in alone'
    BY <2>1 DEF Alone
  <2>3. PICK e \in Deposits : /\ UNCHANGED <<alone, funds>> /\ stage[e] = "sent"
                              /\ stage' = [stage EXCEPT ![e] = "claimable"]
    BY <1>3, <2>1, <2>2, OthersTouch
  <2>4. Alone(t) /\ Goes(t)
    BY <2>1, <2>2, <2>3 DEF Alone, Progress
  <2>5. e = <<run[t].id, e[2]>> /\ e[2] \in Assets
    BY <2>3, <2>4 DEF Solitary, Deposits
  <2>6. \A a \in Assets : Own(t, a)' = IF a = e[2] THEN "claimable" ELSE Own(t, a)
    <3>1. stage \in [Deposits -> Stages] /\ \A a \in Assets : <<run[t].id, a>> \in Deposits
      BY TypeParts DEF Deposits, Runners
    <3> QED
      BY <2>1, <2>3, <2>5, <3>1 DEF Own
  <2>7. Own(t, e[2]) = "sent"
    BY <2>3, <2>5 DEF Own
  <2>8. At(t, "claim") \/ At(t, "seed") => FALSE
    BY <2>4, <2>5, <2>7 DEF Goes, Claims, Seeds
  <2> QED
    BY <2>1, <2>4, <2>5, <2>6, <2>7, <2>8 DEF Goes, At, Wraps
<1> QED
  BY <1>1, <1>2, <1>3, NextIs

LEMMA OutcomeNext ==
    ASSUME TypeOK, Numbered, Solitary, Progress, FailsOnlyByTrouble, Next
    PROVE  FailsOnlyByTrouble'
<1>0. runs \in Nat /\ alone \subseteq 1..runs /\ alone \subseteq Runs
  BY TypeParts, SeederAssumption DEF Numbered
<1>1. ASSUME NEW s \in Seeders, Step(s) \/ Fault(s) PROVE FailsOnlyByTrouble'
  <2> SUFFICES ASSUME NEW r \in alone' PROVE outcome'[r] # "failed"
    BY DEF FailsOnlyByTrouble
  <2>1. r \in alone /\ r \in Runs /\ outcome[r] # "failed"
    BY <1>0, <1>1, StepTouches DEF FailsOnlyByTrouble
  <2>2. CASE r # run[s].id
    BY <1>1, <2>1, <2>2, StepTouches
  <2>3. CASE r = run[s].id
    <3>1. Alone(s) /\ Step(s)
      BY <1>1, <2>1, <2>3, StepTouches DEF Alone
    <3> QED
      BY <2>1, <2>3, <3>1, FailureIsNotAlone DEF Progress
  <2> QED
    BY <2>2, <2>3
<1>2. ASSUME NEW s \in Seeders, NEW pools \in Selections, NEW skipWrap \in BOOLEAN, StartRun(s, pools, skipWrap)
      PROVE  FailsOnlyByTrouble'
  <2>1. alone' \subseteq alone \cup {runs + 1} /\ outcome' = outcome /\ runs + 1 \in Runs
    BY <1>2, StartTouches
  <2>2. outcome[runs + 1] = "none"
    BY <1>0, <2>1 DEF Numbered
  <2> QED
    BY <2>1, <2>2 DEF FailsOnlyByTrouble
<1>3. CASE Others
  BY <1>3, OthersTouch DEF FailsOnlyByTrouble
<1> QED
  BY <1>1, <1>2, <1>3, NextIs

LEMMA InvNext == IInv /\ [Next]_vars => IInv'
<1> SUFFICES ASSUME IInv, [Next]_vars PROVE IInv'
  OBVIOUS
<1>1. TypeOK /\ TypeOK' /\ Numbered /\ Solitary /\ Progress /\ FailsOnlyByTrouble
  BY TypeNext DEF IInv
<1>2. CASE Next
  <2>1. Numbered'
    BY <1>1, <1>2, NumberedNext
  <2> QED
    BY <1>1, <1>2, <2>1, SolitaryNext, ProgressNext, OutcomeNext DEF IInv
<1>3. CASE UNCHANGED vars
  BY <1>1, <1>3 DEF vars, IInv, Numbered, Solitary, Progress, Goes, Alone, At, Own, Wraps, Claims, Seeds, FailsOnlyByTrouble
<1> QED
  BY <1>2, <1>3

\* The inductive invariant: deposits are numbered, a call that is alone owns what it wrapped, and what
\* it has done so far leaves enough for what it has still to do (poolSeeder.ts, seedAll).
THEOREM Invariance == Spec => []IInv
BY InvInit, InvNext, PTL DEF Spec

\* A call that has bridge and address to itself begins to seed with every one of its own deposits
\* claimed, though the claims are only counted (poolSeeder.ts, waitForClaims, claimWrappedTokens).
THEOREM OwnWraps == Spec => []OwnWrapsAreClaimed
<1>1. IInv => OwnWrapsAreClaimed
  BY DEF IInv, Progress, Goes, Alone, At, Seeds, Own, OwnWrapsAreClaimed
<1> QED
  BY <1>1, Invariance, PTL

\* Such a call does not fail: no claim and no mint of it reverts, and what its wraps brought pays for
\* every pool (claimWithSignature, executeLpMint).
THEOREM SeedingSucceeds == Spec => []FailsOnlyByTrouble
<1>1. IInv => FailsOnlyByTrouble
  BY DEF IInv
<1> QED
  BY <1>1, Invariance, PTL
===============================================================================
