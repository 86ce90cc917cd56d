----------------------------- MODULE MCSwapIndexer -----------------------------
(***************************************************************************)
(* A small chain: a pool that is only donated to, so that chunks and       *)
(* batches move the cursor back and forth, and one with two swaps and a    *)
(* liquidity change.  The watcher may be started before, between or after  *)
(* its blocks.                                                             *)
(***************************************************************************)
EXTENDS SwapIndexer, TLC

\* The periodic syncs are alike.  A run that checks liveness does without.
Symmetry == Permutations(Syncs)

Event(kind, p, block) == [kind |-> kind, pool |-> p, block |-> block]

TwoPools ==
    <<Event("initialize", "A", 1), Event("initialize", "B", 1),
      Event("swap", "B", 2), Event("modify", "B", 2),
      Event("swap", "B", 3), Event("donate", "A", 3)>>
===============================================================================
