----------------------------- MODULE MCPoolSeeder ------------------------------
(***************************************************************************)
(* Two assets and two pools that share one of them.                        *)
(***************************************************************************)
EXTENDS PoolSeeder, TLC

Symmetry == Permutations(Seeders)

TwoAssets == {"ZEPH", "ZSD"}

PoolNeeds == "WZSD-USDT" :> {"ZSD"} @@ "WZEPH-WZSD" :> {"ZEPH", "ZSD"}

AllOrOne == {Pools, {"WZSD-USDT"}}
===============================================================================
