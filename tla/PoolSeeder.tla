------------------------------ MODULE PoolSeeder -------------------------------
(***************************************************************************)
(* Seeding of pools (src/services/evm/poolSeeder.ts): wrap every native    *)
(* asset through the bridge, wait for the claims, claim them on the EVM    *)
(* chain, mint the positions.  It is run by the engine's setup command and *)
(* by the dashboard, each in a process of its own, against one EVM address *)
(* and one bridge, which the engine's plans use as well.                   *)
(*                                                                         *)
(* A deposit is named by its run and its asset, the engine's by run 0; it  *)
(* is sent, becomes claimable when the bridge has seen it confirmed, and   *)
(* is claimed once.  What one deposit of an asset brings pays for one      *)
(* seeding of every pool that needs the asset: funds counts such seedings. *)
(* USDT is not wrapped, and the bands of a pool are one mint.              *)
(***************************************************************************)
EXTENDS Naturals, FiniteSets

CONSTANTS
    Assets,         \* keys of wrapAmounts
    Pools,          \* pools that have a plan
    Needs,          \* the assets of each pool
    Selections,     \* the sets of pools that are asked for
    EngineAssets,   \* the assets the engine's plans wrap meanwhile
    Seeders,        \* processes that may seed
    MaxRuns,        \* bound: calls of seedAll
    MaxTroubles     \* bound: calls that fail, processes that die, claims that expire

ASSUME SeederAssumption ==
    /\ IsFiniteSet(Assets) /\ Assets # {}
    /\ IsFiniteSet(Pools)
    /\ Needs \in [Pools -> SUBSET Assets]
    /\ Selections \subseteq SUBSET Pools
    /\ EngineAssets \subseteq Assets
    /\ MaxRuns \in Nat /\ MaxTroubles \in Nat

Runs     == 1..MaxRuns
Deposits == (0..MaxRuns) \X Assets
Share(a) == Cardinality({p \in Pools : a \in Needs[p]})

VARIABLES
    stage,      \* of each deposit, as the bridge and the token contract know it
    funds,      \* wrapped tokens of the EVM address
    run,        \* the call of seedAll each seeder is in
    runs,       \* the number of calls so far
    outcome,    \* how each call ended
    alone,      \* the calls that had bridge and address to themselves, and no trouble
    troubles

vars == <<stage, funds, run, runs, outcome, alone, troubles>>

NoRun == [pc |-> "idle", id |-> 0, assets |-> {}, claims |-> {}, pools |-> {},
          failed |-> FALSE]

\* Every variable keeps its type; tokens that are not there are not spent.
TypeOK ==
    /\ stage \in [Deposits -> {"none", "sent", "claimable", "claimed", "expired"}]
    /\ funds \in [Assets -> Nat]
    /\ run \in [Seeders -> [pc : {"idle", "account", "wrap", "poll", "claim", "seed"},
                            id : 0..MaxRuns, assets : SUBSET Assets,
                            claims : SUBSET Deposits, pools : SUBSET Pools,
                            failed : BOOLEAN]]
    /\ runs \in 0..MaxRuns
    /\ outcome \in [Runs -> {"none", "failed", "thrown", "success"}]
    /\ alone \subseteq Runs
    /\ troubles \in 0..MaxTroubles

Init ==
    /\ stage = [d \in Deposits |-> "none"]
    /\ funds = [a \in Assets |-> 0]
    /\ run = [s \in Seeders |-> NoRun]
    /\ runs = 0
    /\ outcome = [r \in Runs |-> "none"]
    /\ alone = {}
    /\ troubles = 0

At(s, pc) == run[s].pc = pc

\* The loops over assets, claims and pools have an order; which one is no matter.
First(S) == CHOOSE x \in S : TRUE

ActiveRuns == {run[s].id : s \in {t \in Seeders : ~At(t, "idle")}}

Outstanding == {d \in Deposits : stage[d] \in {"sent", "claimable"}}

Trouble == troubles < MaxTroubles /\ troubles' = troubles + 1

-------------------------------------------------------------------------------
(***************************************************************************)
(* seedAll, for the pools asked for; all assets are wrapped all the same.  *)
(***************************************************************************)
StartRun(s, pools, skipWrap) ==
    LET id == runs + 1 IN
    /\ At(s, "idle") /\ runs < MaxRuns
    /\ runs' = id
    /\ run' = [run EXCEPT ![s] = [NoRun EXCEPT !.pc = IF skipWrap THEN "seed" ELSE "account",
                                               !.id = id, !.pools = pools]]
    /\ alone' = IF skipWrap \/ ActiveRuns # {} \/ Outstanding # {}
                THEN alone \ ActiveRuns ELSE alone \cup {id}
    /\ UNCHANGED <<stage, funds, outcome, troubles>>

\* It returns, or throws.
End(s, result) ==
    /\ outcome' = [outcome EXCEPT ![run[s].id] = result]
    /\ run' = [run EXCEPT ![s] = NoRun]

\* One call of a loop failed; the loop goes on.
Fails(s) ==
    /\ Trouble
    /\ alone' = alone \ {run[s].id}

CreateAccount(s) ==
    /\ At(s, "account")
    /\ run' = [run EXCEPT ![s].pc = "wrap", ![s].assets = Assets]
    /\ UNCHANGED <<stage, funds, runs, outcome, alone, troubles>>

\* Without a subaddress every wrap has failed.
AccountRefused(s) ==
    /\ At(s, "account")
    /\ Fails(s)
    /\ End(s, "failed")
    /\ UNCHANGED <<stage, funds, runs>>

Transfer(s, a) ==
    /\ At(s, "wrap") /\ a \in run[s].assets /\ a = First(run[s].assets)
    /\ stage' = [stage EXCEPT ![<<run[s].id, a>>] = "sent"]
    /\ run' = [run EXCEPT ![s].assets = @ \ {a}]
    /\ UNCHANGED <<funds, runs, outcome, alone, troubles>>

\* The wallet refuses, or sends and its answer is lost.
TransferFails(s, a) ==
    /\ At(s, "wrap") /\ a \in run[s].assets /\ a = First(run[s].assets)
    /\ Fails(s)
    /\ stage' \in {stage, [stage EXCEPT ![<<run[s].id, a>>] = "sent"]}
    /\ run' = [run EXCEPT ![s].assets = @ \ {a}, ![s].failed = TRUE]
    /\ UNCHANGED <<funds, runs, outcome>>

AfterWraps(s) ==
    /\ At(s, "wrap") /\ run[s].assets = {}
    /\ IF run[s].failed
       THEN End(s, "failed")
       ELSE run' = [run EXCEPT ![s].pc = "poll"] /\ UNCHANGED outcome
    /\ UNCHANGED <<stage, funds, runs, alone, troubles>>

\* Variant: claims of any status are taken for claimable.
ClaimableOrPending == Outstanding

Claimable == {d \in Deposits : stage[d] = "claimable"}

\* Variant: one claim is not waited for.
AllButOne == Cardinality(Assets) - 1

ExpectedCount == Cardinality(Assets)

\* waitForClaims: whosever they are, enough of them are claimable.  A poll that
\* finds fewer, or throws, changes nothing.
Poll(s) ==
    /\ At(s, "poll") /\ Cardinality(Claimable) >= ExpectedCount
    /\ run' = [run EXCEPT ![s].pc = "claim", ![s].claims = Claimable]
    /\ UNCHANGED <<stage, funds, runs, outcome, alone, troubles>>

\* The deadline is minutes away, confirmation may take longer.
Timeout(s) ==
    /\ At(s, "poll")
    /\ End(s, "thrown")
    /\ UNCHANGED <<stage, funds, runs, alone, troubles>>

Claimed(d) ==
    /\ stage' = [stage EXCEPT ![d] = "claimed"]
    /\ funds' = [funds EXCEPT ![d[2]] = @ + Share(d[2])]

ClaimTurn(s, d) == At(s, "claim") /\ d \in run[s].claims /\ d = First(run[s].claims)

\* claimWithSignature, and its three ends: done, reverted, or no receipt.
Claim(s, d) ==
    /\ ClaimTurn(s, d) /\ stage[d] = "claimable"
    /\ Claimed(d)
    /\ run' = [run EXCEPT ![s].claims = @ \ {d}]
    /\ UNCHANGED <<runs, outcome, alone, troubles>>

ClaimReverts(s, d) ==
    /\ ClaimTurn(s, d) /\ stage[d] # "claimable"
    /\ run' = [run EXCEPT ![s].claims = @ \ {d}, ![s].failed = TRUE]
    /\ UNCHANGED <<stage, funds, runs, outcome, alone, troubles>>

ClaimFails(s, d) ==
    /\ ClaimTurn(s, d) /\ stage[d] = "claimable"
    /\ Fails(s)
    /\ Claimed(d) \/ UNCHANGED <<stage, funds>>
    /\ run' = [run EXCEPT ![s].claims = @ \ {d}, ![s].failed = TRUE]
    /\ UNCHANGED <<runs, outcome>>

AfterClaims(s) ==
    /\ At(s, "claim") /\ run[s].claims = {}
    /\ IF run[s].failed
       THEN End(s, "failed")
       ELSE run' = [run EXCEPT ![s].pc = "seed"] /\ UNCHANGED outcome
    /\ UNCHANGED <<stage, funds, runs, alone, troubles>>

Turn(s, p) == At(s, "seed") /\ p \in run[s].pools /\ p = First(run[s].pools)

\* seedPool: the positions of a pool, which are minted as long as the tokens last.
Funded(p) == \A a \in Needs[p] : funds[a] > 0

Minted(p) == funds' = [a \in Assets |-> IF a \in Needs[p] THEN funds[a] - 1 ELSE funds[a]]

\* Variant: the chain does not look at the balance.
MintUnfunded(s, p) ==
    /\ Turn(s, p)
    /\ Minted(p)
    /\ run' = [run EXCEPT ![s].pools = @ \ {p}]
    /\ UNCHANGED <<stage, runs, outcome, alone, troubles>>

Mint(s, p) ==
    /\ Turn(s, p) /\ Funded(p)
    /\ Minted(p)
    /\ run' = [run EXCEPT ![s].pools = @ \ {p}]
    /\ UNCHANGED <<stage, runs, outcome, alone, troubles>>

MintReverts(s, p) ==
    /\ Turn(s, p) /\ ~Funded(p)
    /\ run' = [run EXCEPT ![s].pools = @ \ {p}, ![s].failed = TRUE]
    /\ UNCHANGED <<stage, funds, runs, outcome, alone, troubles>>

MintFails(s, p) ==
    /\ Turn(s, p) /\ Funded(p)
    /\ Fails(s)
    /\ Minted(p) \/ UNCHANGED funds
    /\ run' = [run EXCEPT ![s].pools = @ \ {p}, ![s].failed = TRUE]
    /\ UNCHANGED <<stage, runs, outcome>>

AfterPools(s) ==
    /\ At(s, "seed") /\ run[s].pools = {}
    /\ End(s, IF run[s].failed THEN "failed" ELSE "success")
    /\ UNCHANGED <<stage, funds, runs, alone, troubles>>

\* The process dies.
Die(s) ==
    /\ ~At(s, "idle")
    /\ Fails(s)
    /\ End(s, "thrown")
    /\ UNCHANGED <<stage, funds, runs>>

-------------------------------------------------------------------------------
(***************************************************************************)
(* The bridge, and the engine, whose wrap steps end with the transfer and  *)
(* whose other steps spend the tokens of the same address.                 *)
(***************************************************************************)
Confirm(d) ==
    /\ stage[d] = "sent"
    /\ stage' = [stage EXCEPT ![d] = "claimable"]
    /\ UNCHANGED <<funds, run, runs, outcome, alone, troubles>>

Expire(d) ==
    /\ stage[d] = "claimable"
    /\ Trouble
    /\ stage' = [stage EXCEPT ![d] = "expired"]
    /\ alone' = alone \ ActiveRuns
    /\ UNCHANGED <<funds, run, runs, outcome>>

EngineWraps(a) ==
    /\ stage[<<0, a>>] = "none"
    /\ stage' = [stage EXCEPT ![<<0, a>>] = "sent"]
    /\ alone' = alone \ ActiveRuns
    /\ UNCHANGED <<funds, run, runs, outcome, troubles>>

EngineSpends(a) ==
    /\ funds[a] > 0
    /\ funds' = [funds EXCEPT ![a] = @ - 1]
    /\ alone' = alone \ ActiveRuns
    /\ UNCHANGED <<stage, run, runs, outcome, troubles>>

-------------------------------------------------------------------------------
Step(s) ==
    \/ CreateAccount(s) \/ AfterWraps(s) \/ Poll(s) \/ Timeout(s)
    \/ AfterClaims(s) \/ AfterPools(s)
    \/ \E a \in Assets : Transfer(s, a)
    \/ \E d \in Deposits : Claim(s, d) \/ ClaimReverts(s, d)
    \/ \E p \in Pools : Mint(s, p) \/ MintReverts(s, p)

Fault(s) ==
    \/ AccountRefused(s) \/ Die(s)
    \/ \E a \in Assets : TransferFails(s, a)
    \/ \E d \in Deposits : ClaimFails(s, d)
    \/ \E p \in Pools : MintFails(s, p)

Next ==
    \/ \E s \in Seeders : Step(s) \/ Fault(s)
    \/ \E s \in Seeders, pools \in Selections, skipWrap \in BOOLEAN :
          StartRun(s, pools, skipWrap)
    \/ \E d \in Deposits : Confirm(d) \/ Expire(d)
    \/ \E a \in EngineAssets : EngineWraps(a) \/ EngineSpends(a)

Spec == Init /\ [][Next]_vars

-------------------------------------------------------------------------------
(***************************************************************************)
(* Properties.                                                             *)
(***************************************************************************)
\* claimWrappedTokens only counts, yet a call that has bridge and address to
\* itself begins to seed with every one of its own deposits claimed.
OwnWrapsAreClaimed ==
    \A s \in Seeders :
        At(s, "seed") /\ run[s].id \in alone =>
            \A a \in Assets : stage[<<run[s].id, a>>] = "claimed"

\* Such a call seeds every pool, unless it gives up waiting: no claim and no mint
\* reverts (claimWithSignature, executeLpMint), what it claimed suffices.
FailsOnlyByTrouble == \A r \in alone : outcome[r] # "failed"
===============================================================================
