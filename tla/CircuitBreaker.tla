---------------------------- MODULE CircuitBreaker ----------------------------
(***************************************************************************)
(* The in-memory circuit breaker of the execution engine                   *)
(* (src/domain/risk/circuitBreaker.ts) and the per-operation limits beside *)
(* it (src/domain/risk/limits.ts), as operators on a breaker record.       *)
(*                                                                         *)
(* Of CircuitBreakerState only the fields that steer the program are kept: *)
(* totalOperations, successfulOperations and the timestamps are reported   *)
(* and never read back.  reset() and resetDaily() are left out because no  *)
(* code calls them (BridgeEngine.resetCircuitBreaker has no caller either):*)
(* a breaker goes back to its initial state only with a new process.       *)
(***************************************************************************)
EXTENDS Integers

CONSTANTS
    RiskEnabled,              \* RISK_CONTROLS_ENABLED
    MaxConsecutiveFailures,   \* RiskLimits.maxConsecutiveFailures
    MaxDailyLossUsd,          \* RiskLimits.maxDailyLossUsd
    MaxOperationUsd           \* RiskLimits.maxOperationUsd

ASSUME RiskAssumption ==
    /\ RiskEnabled \in BOOLEAN
    /\ MaxConsecutiveFailures \in Nat \ {0}
    /\ MaxDailyLossUsd \in Nat \ {0}
    /\ MaxOperationUsd \in Nat

Breakers == [isOpen : BOOLEAN, lossUsd : Nat, failures : Nat]

InitialBreaker == [isOpen |-> FALSE, lossUsd |-> 0, failures |-> 0]

CanExecute(b) == RiskEnabled => ~b.isOpen

Tripped(b) ==
    \/ b.failures >= MaxConsecutiveFailures
    \/ b.lossUsd >= MaxDailyLossUsd

(***************************************************************************)
(* checkThresholds() opens the circuit and never closes it.                *)
(***************************************************************************)
CheckThresholds(b) ==
    IF RiskEnabled /\ Tripped(b) THEN [b EXCEPT !.isOpen = TRUE] ELSE b

\* Variant: the sign of the PnL is kept.
SignedLoss(pnl) == pnl

Loss(pnl) == IF pnl < 0 THEN -pnl ELSE 0

\* Variant: the loss is added and not compared.
RecordSuccessUnchecked(b, pnl) ==
    [b EXCEPT !.failures = 0, !.lossUsd = @ + Loss(pnl)]

(***************************************************************************)
(* A success clears the failure run; the thresholds are looked at again    *)
(* only when it made a loss.                                               *)
(***************************************************************************)
RecordSuccess(b, pnl) ==
    LET counted == [b EXCEPT !.failures = 0, !.lossUsd = @ + Loss(pnl)]
    IN  IF pnl < 0 THEN CheckThresholds(counted) ELSE counted

(***************************************************************************)
(* A failure is counted, whatever the failed plan lost on the way: its PnL *)
(* is not an argument.                                                     *)
(***************************************************************************)
RecordFailure(b) == CheckThresholds([b EXCEPT !.failures = @ + 1])

(***************************************************************************)
(* checkOperationAllowed: the size of an operation is estimated as ten     *)
(* times the absolute expected PnL; the exposure of its first asset is     *)
(* above the cap or not.                                                   *)
(***************************************************************************)
EstimatedSizeUsd(pnl) == 10 * (IF pnl < 0 THEN -pnl ELSE pnl)

OperationAllowed(pnl, overexposed) ==
    RiskEnabled => EstimatedSizeUsd(pnl) <= MaxOperationUsd /\ ~overexposed
===============================================================================
