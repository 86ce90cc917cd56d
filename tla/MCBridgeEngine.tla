---------------------------- MODULE MCBridgeEngine ----------------------------
(***************************************************************************)
(* Small instances of BridgeEngine.                                        *)
(***************************************************************************)
EXTENDS BridgeEngine, TLC

Plan(key, priority, pnl, steps, eligible) ==
    [key |-> key, priority |-> priority, whole |-> TRUE, pnl |-> pnl,
     steps |-> steps, eligible |-> eligible]

Row(autoExecute, manualApproval, ms) ==
    [autoExecute |-> autoExecute, manualApproval |-> manualApproval, cooldown |-> ms]

(***************************************************************************)
(* The approval queue: a two-step plan at a loss, whose loss alone reaches *)
(* the daily limit, and an urgent plan without steps.                      *)
(***************************************************************************)
WholePlans == {Plan("k1", 1, -2, 2, TRUE), Plan("k2", 2, 1, 0, TRUE)}

FractionalPlan == [Plan("k2", 2, 1, 1, TRUE) EXCEPT !.whole = FALSE]

QueuePlans == WholePlans \cup {FractionalPlan}

QueueSettings == {Row(TRUE, TRUE, 0), Row(FALSE, TRUE, 0)}

(***************************************************************************)
(* Runs from the loop: two opportunities with one cooldown key, one at a   *)
(* loss and one at a profit, whose priority the queue cannot store, and    *)
(* one that its strategy would not execute and that, approved by an        *)
(* operator, is beyond the size limit (10 * 9).  The dashboard switches    *)
(* between execution and approval and changes the cooldown.                *)
(***************************************************************************)
AutoPlans == {Plan("k1", 0, -1, 2, TRUE),
              [Plan("k1", 0, 1, 1, TRUE) EXCEPT !.whole = FALSE],
              Plan("k2", 0, 9, 1, FALSE)}

AutoSettings == {Row(TRUE, FALSE, 1), Row(TRUE, FALSE, 2), Row(TRUE, TRUE, 1)}

===============================================================================
