-------------------------- MODULE OperationLifecycle --------------------------
(***************************************************************************)
(* What the manual-approval workflow promises about a queued operation,    *)
(* without the engine loop, the database or the dashboard: an operation is *)
(* submitted, an operator permits or withdraws it, and only a permitted    *)
(* operation is ever run, by one runner that runs one at a time and spends *)
(* the permit.  The runner may die; what it was running is then lost, for  *)
(* nobody runs it again or reports on it.                                  *)
(*                                                                         *)
(* A withdrawal may be honoured late, never by giving up on the promise    *)
(* above: a permit the runner has already picked up is withdrawn only if   *)
(* the runner gives it back (Abort).                                       *)
(***************************************************************************)
CONSTANT Ops

VARIABLE phase

Phases == {"unborn", "waiting", "permitted", "withdrawn",
           "running", "done", "failed", "lost"}

InPhase(p) == {o \in Ops : phase[o] = p}

Move(S, p) == phase' = [o \in Ops |-> IF o \in S THEN p ELSE phase[o]]

Init == phase = [o \in Ops |-> "unborn"]

Submit(o) == phase[o] = "unborn" /\ Move({o}, "waiting")

Permit(S) == S \subseteq InPhase("waiting") /\ Move(S, "permitted")

Withdraw(S) ==
    /\ S \subseteq InPhase("waiting") \cup InPhase("permitted")
    /\ Move(S, "withdrawn")

Resubmit(S) == S \subseteq InPhase("failed") /\ Move(S, "waiting")

Run(o) ==
    /\ phase[o] = "permitted"
    /\ InPhase("running") = {}
    /\ Move({o}, "running")

Settle(o) ==
    /\ phase[o] = "running"
    /\ \E verdict \in {"done", "failed"} : Move({o}, verdict)

(***************************************************************************)
(* The runner stops: the running operation is lost and the withdrawals it  *)
(* had overlooked, W, take effect.                                         *)
(***************************************************************************)
Abort(W) ==
    /\ W \subseteq InPhase("permitted")
    /\ phase' = [o \in Ops |->
                    CASE phase[o] = "running" -> "lost"
                      [] o \in W              -> "withdrawn"
                      [] OTHER                -> phase[o]]

Next ==
    \/ \E o \in Ops : Submit(o) \/ Run(o) \/ Settle(o)
    \/ \E S \in SUBSET Ops : Permit(S) \/ Withdraw(S) \/ Resubmit(S) \/ Abort(S)

Spec == Init /\ [][Next]_phase
===============================================================================
