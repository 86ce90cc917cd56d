----------------------------- MODULE BridgeEngine -----------------------------
(***************************************************************************)
(* The engine process (apps/engine/src) and the dashboard's queue and      *)
(* runner endpoints (apps/web/app/api/engine), which share two tables:     *)
(* OperationQueue and EngineSettings.                                      *)
(*                                                                         *)
(* The engine is one sequential process; pc names the await it is at, so   *)
(* that every database call and every venue call is a step of its own and  *)
(* the dashboard, the clock and a shutdown may come between any two.  The  *)
(* market, the strategies' findings and the outcome of a venue call are    *)
(* nondeterministic inputs.  A call to the database or a strategy may throw *)
(* and the process may be stopped at any point, MaxFaults times in all.    *)
(***************************************************************************)
EXTENDS CircuitBreaker, Sequences, FiniteSets

CONSTANTS
    Ops,            \* the OperationQueue rows that may ever be created
    NoOp,           \* no row: the plan is run straight from the loop
    Keys,           \* cooldown keys, `${asset}-${direction}`
    Plans,          \* the plans the strategies can build
    NoPlan,
    SettingsRows,   \* what the dashboard may write in EngineSettings
    NoRow,          \* EngineSettings is empty
    CliManual,      \* config.manualApproval: TRUE unless started with --auto
    CliCooldown,    \* config.cooldownMs, in ticks of the model's clock
    MaxOps,         \* config.maxOperationsPerCycle
    ExecutorReady,  \* createExecutionEngineFromOptions did not throw
    AgeCap,         \* bound: ages are not told apart from here on
    MaxFaults       \* bound: exceptions and restarts in a behaviour

ASSUME EngineAssumption ==
    /\ NoOp \notin Ops
    /\ NoPlan \notin Plans
    /\ Plans \subseteq [key : Keys, priority : Nat, whole : BOOLEAN, pnl : Int,
                        steps : Nat, eligible : BOOLEAN]
    /\ SettingsRows \subseteq [autoExecute : BOOLEAN, manualApproval : BOOLEAN,
                               cooldown : Nat]
    /\ NoRow \notin SettingsRows
    /\ CliManual \in BOOLEAN
    /\ CliCooldown \in Nat
    /\ MaxOps \in Nat \ {0}
    /\ ExecutorReady \in BOOLEAN
    /\ AgeCap \in Nat
    /\ MaxFaults \in Nat

VARIABLES
    \* tables
    status,     \* OperationQueue.status of each row, "absent" before creation
    planOf,     \* OperationQueue.plan
    lastResult, \* result of the row's latest ExecutionHistory record
    settings,   \* EngineSettings
    \* memory of the engine process
    pc,
    auto,       \* autoExecute, as read in this cycle
    manual,     \* manualApproval, as read in this cycle
    cooldown,   \* this.cooldownMs
    todo,       \* plans of the opportunities still to be handled in this cycle
    queued,     \* operationsQueued
    batch,      \* `approved`, the rows still to be processed in this cycle
    exec,       \* the executePlan call in progress
    age,        \* time since lastExecutionByKey[key], AgeCap if there is none
    breaker,
    \* what happened, for the properties and the bound
    approvals,  \* approvals given to each row
    attempts,   \* runs of each row that went past the risk checks
    sinceAuto,  \* time since a plan of the key was last run from the loop
    faults

tables == <<status, planOf, lastResult, settings>>
cycle  == <<auto, manual, cooldown, todo, queued, batch>>
memory == <<pc, cycle, exec, age, breaker>>
ghosts == <<approvals, attempts, sinceAuto, faults>>
vars   == <<tables, memory, ghosts>>

Statuses == {"absent", "pending", "approved", "executing", "completed",
             "failed", "rejected", "cancelled"}
Points   == {"sleep", "state", "evaluate", "opportunity", "begin", "step",
             "history", "fetch", "dequeue", "completed", "failed"}
Verdicts == {"none", "blocked", "success", "failed"}

IdleExec == [plan |-> NoPlan, op |-> NoOp, step |-> 0, verdict |-> "none"]

WithStatus(S) == {o \in Ops : status[o] \in S}

\* Every variable keeps its type: the tables, the memory of the engine, the records.
TypeOK ==
    /\ status \in [Ops -> Statuses]
    /\ planOf \in [Ops -> Plans \cup {NoPlan}]
    /\ lastResult \in [Ops -> Verdicts]
    /\ settings \in SettingsRows \cup {NoRow}
    /\ pc \in Points
    /\ auto \in BOOLEAN /\ manual \in BOOLEAN
    /\ cooldown \in Nat
    /\ todo \subseteq Plans
    /\ queued \in Nat
    /\ batch \in Seq(Ops)
    /\ exec \in [plan : Plans \cup {NoPlan}, op : Ops \cup {NoOp},
                 step : Nat, verdict : Verdicts]
    /\ age \in [Keys -> 0..AgeCap]
    /\ breaker \in Breakers
    /\ approvals \in [Ops -> Nat]
    /\ attempts \in [Ops -> Nat]
    /\ sinceAuto \in [Keys -> 0..AgeCap]
    /\ faults \in 0..MaxFaults

Init ==
    /\ status = [o \in Ops |-> "absent"]
    /\ planOf = [o \in Ops |-> NoPlan]
    /\ lastResult = [o \in Ops |-> "none"]
    /\ settings = NoRow
    /\ pc = "sleep"
    /\ auto = FALSE /\ manual = CliManual /\ cooldown = CliCooldown
    /\ todo = {} /\ queued = 0 /\ batch = <<>>
    /\ exec = IdleExec
    /\ age = [k \in Keys |-> AgeCap]
    /\ breaker = InitialBreaker
    /\ approvals = [o \in Ops |-> 0]
    /\ attempts = [o \in Ops |-> 0]
    /\ sinceAuto = [k \in Keys |-> AgeCap]
    /\ faults = 0

(***************************************************************************)
(* A database call that throws.                                            *)
(***************************************************************************)
Fault == faults < MaxFaults /\ faults' = faults + 1

(***************************************************************************)
(* The cycle ends: normally, or because an exception reached start(),      *)
(* which counts it and goes on with the next cycle.                        *)
(***************************************************************************)
EndCycle ==
    /\ pc' = "sleep"
    /\ todo' = {} /\ batch' = <<>> /\ exec' = IdleExec
    /\ UNCHANGED <<auto, manual, cooldown, queued>>

-------------------------------------------------------------------------------
(***************************************************************************)
(* One cycle: settings, state, strategies.                                 *)
(***************************************************************************)

\* A row overrides the CLI; without one the engine only evaluates.
LoadSettings ==
    /\ pc = "sleep"
    /\ pc' = "state"
    /\ queued' = 0
    /\ \/ /\ settings = NoRow
          /\ auto' = FALSE /\ manual' = CliManual
          /\ UNCHANGED <<cooldown, faults>>
       \/ /\ settings # NoRow
          /\ auto' = settings.autoExecute
          /\ manual' = settings.manualApproval
          /\ cooldown' = settings.cooldown
          /\ UNCHANGED faults
       \/ /\ Fault
          /\ auto' = FALSE /\ manual' = CliManual
          /\ UNCHANGED cooldown
    /\ UNCHANGED <<tables, todo, batch, exec, age, breaker,
                   approvals, attempts, sinceAuto>>

\* The state was built, it is fresh, and the inventory was loaded.  With
\* autoExecute off the strategies' findings are only logged.
StateUsable ==
    /\ pc = "state"
    /\ pc' = IF auto THEN "evaluate" ELSE "fetch"
    /\ UNCHANGED <<tables, cycle, exec, age, breaker, ghosts>>

\* No state, stale state, or no inventory: the cycle is skipped, and the
\* approved queue with it.
StateUnusable ==
    /\ pc = "state"
    /\ EndCycle
    /\ UNCHANGED <<tables, age, breaker, ghosts>>

\* Bound: with manual approval, no more findings than there are rows for.
Evaluate ==
    /\ pc = "evaluate"
    /\ \E found \in SUBSET Plans :
          /\ manual => Cardinality({p \in found : p.whole})
                          <= Cardinality(WithStatus({"absent"}))
          /\ todo' = found
    /\ pc' = "opportunity"
    /\ UNCHANGED <<tables, auto, manual, cooldown, queued, batch, exec, age,
                   breaker, ghosts>>

-------------------------------------------------------------------------------
(***************************************************************************)
(* One opportunity of the loop, in any order the strategies list them.     *)
(***************************************************************************)
CoolingDown(p) == age[p.key] < cooldown

\* shouldAutoExecute is given the engine's configuration, so that its first
\* test, common to the four strategies, is on the CLI flag.
ShouldAutoExecute(p) == ~CliManual /\ p.eligible

Handling(p) == pc = "opportunity" /\ p \in todo /\ queued < MaxOps

Skip(p) ==
    /\ todo' = todo \ {p}
    /\ UNCHANGED <<tables, pc, auto, manual, cooldown, queued, batch, exec, age,
                   breaker, ghosts>>

SkipCooling(p) == Handling(p) /\ CoolingDown(p) /\ Skip(p)

Decline(p) ==
    /\ Handling(p) /\ ~CoolingDown(p) /\ ~manual
    /\ ~ShouldAutoExecute(p)
    /\ Skip(p)

\* The priority of a plan is a whole number unless its expected PnL, added up to
\* 50, is a fraction; the column is an Int, and takes whole numbers only.
QueueForApproval(p) ==
    /\ Handling(p) /\ ~CoolingDown(p) /\ manual
    /\ p.whole
    /\ \E o \in WithStatus({"absent"}) :
          /\ status' = [status EXCEPT ![o] = "pending"]
          /\ planOf' = [planOf EXCEPT ![o] = p]
    /\ todo' = todo \ {p}
    /\ queued' = queued + 1
    /\ UNCHANGED <<lastResult, settings, pc, auto, manual, cooldown, batch, exec,
                   age, breaker, ghosts>>

QueueRefused(p) ==
    /\ Handling(p) /\ ~CoolingDown(p) /\ manual
    /\ ~p.whole
    /\ EndCycle
    /\ UNCHANGED <<tables, age, breaker, ghosts>>

\* A strategy's evaluate or buildPlan throws, or the insert into the queue: what
\* is left of the loop is given up, and the approved queue with it.
LoopThrows ==
    /\ pc \in {"evaluate", "opportunity"}
    /\ Fault
    /\ EndCycle
    /\ UNCHANGED <<tables, age, breaker, approvals, attempts, sinceAuto>>

AutoExecute(p) ==
    /\ Handling(p) /\ ~CoolingDown(p) /\ ~manual
    /\ ShouldAutoExecute(p)
    /\ todo' = todo \ {p}
    /\ exec' = [IdleExec EXCEPT !.plan = p]
    /\ pc' = "begin"
    /\ UNCHANGED <<tables, auto, manual, cooldown, queued, batch, age, breaker,
                   ghosts>>

\* Nothing left, or maxOperationsPerCycle reached.
LoopDone ==
    /\ pc = "opportunity"
    /\ todo = {} \/ queued >= MaxOps
    /\ todo' = {}
    /\ pc' = "fetch"
    /\ UNCHANGED <<tables, auto, manual, cooldown, queued, batch, exec, age,
                   breaker, ghosts>>

-------------------------------------------------------------------------------
(***************************************************************************)
(* executePlan, called from the loop (exec.op = NoOp) or for a row.        *)
(***************************************************************************)
Conclude(verdict) ==
    /\ exec' = [exec EXCEPT !.verdict = verdict]
    /\ pc' = "history"

\* The exposure of the first step's asset; a plan without steps has none.
Exposures == IF exec.plan.steps = 0 THEN {FALSE} ELSE BOOLEAN

\* Variant: the circuit breaker is not asked.
LimitsAllow(overexposed) == OperationAllowed(exec.plan.pnl, overexposed)

RiskAllows(overexposed) ==
    CanExecute(breaker) /\ OperationAllowed(exec.plan.pnl, overexposed)

BeginBlocked ==
    /\ pc = "begin"
    /\ \E overexposed \in Exposures : ~RiskAllows(overexposed)
    /\ Conclude("blocked")
    /\ UNCHANGED <<tables, cycle, age, breaker, ghosts>>

CountAttempt ==
    attempts' = IF exec.op = NoOp THEN attempts
                ELSE [attempts EXCEPT ![exec.op] = @ + 1]

BeginSteps ==
    /\ pc = "begin"
    /\ \E overexposed \in Exposures : RiskAllows(overexposed)
    /\ ExecutorReady /\ exec.plan.steps > 0
    /\ exec' = [exec EXCEPT !.step = 1]
    /\ pc' = "step"
    /\ CountAttempt
    /\ UNCHANGED <<tables, cycle, age, breaker, approvals, sinceAuto, faults>>

\* No steps, or no execution engine ("logging only"): counted as a success.
BeginNothingToRun ==
    /\ pc = "begin"
    /\ \E overexposed \in Exposures : RiskAllows(overexposed)
    /\ ~ExecutorReady \/ exec.plan.steps = 0
    /\ Conclude("success")
    /\ breaker' = RecordSuccess(breaker, exec.plan.pnl)
    /\ CountAttempt
    /\ UNCHANGED <<tables, cycle, age, approvals, sinceAuto, faults>>

StepSucceeds ==
    /\ pc = "step"
    /\ exec.step < exec.plan.steps
    /\ exec' = [exec EXCEPT !.step = @ + 1]
    /\ UNCHANGED <<tables, pc, cycle, age, breaker, ghosts>>

\* The PnL recorded is the expected one (calculatePnlFromSteps).
LastStepSucceeds ==
    /\ pc = "step"
    /\ exec.step = exec.plan.steps
    /\ Conclude("success")
    /\ breaker' = RecordSuccess(breaker, exec.plan.pnl)
    /\ UNCHANGED <<tables, cycle, age, ghosts>>

StepFails ==
    /\ pc = "step"
    /\ Conclude("failed")
    /\ breaker' = RecordFailure(breaker)
    /\ UNCHANGED <<tables, cycle, age, ghosts>>

\* executePlan returns null whatever the verdict is: the queue processor goes
\* on to mark the row completed; the loop starts the cooldown and counts.
\* Variant: the run is not remembered.
ForgetRun(k) == UNCHANGED age

StartCooldown(k) == age' = [age EXCEPT ![k] = 0]

AutoRunOver(k) == sinceAuto' = [sinceAuto EXCEPT ![k] = 0]

\* Variant: the queue processor goes on to the next row without a verdict.
WriteHistoryAndContinue ==
    /\ pc = "history" /\ exec.op # NoOp
    /\ lastResult' = [lastResult EXCEPT ![exec.op] = exec.verdict]
    /\ pc' = "dequeue" /\ exec' = IdleExec
    /\ UNCHANGED <<status, planOf, settings, cycle, age, breaker, ghosts>>

WriteHistoryOfRow ==
    /\ pc = "history" /\ exec.op # NoOp
    /\ lastResult' = [lastResult EXCEPT ![exec.op] = exec.verdict]
    /\ pc' = "completed"
    /\ UNCHANGED <<status, planOf, settings, cycle, exec, age, breaker, ghosts>>

WriteHistoryOfAutoRun ==
    /\ pc = "history" /\ exec.op = NoOp
    /\ StartCooldown(exec.plan.key)
    /\ AutoRunOver(exec.plan.key)
    /\ queued' = queued + 1
    /\ exec' = IdleExec
    /\ pc' = "opportunity"
    /\ UNCHANGED <<tables, auto, manual, cooldown, todo, batch, breaker,
                   approvals, attempts, faults>>

\* ExecutionHistory.create throws after the plan has run: the row is marked
\* failed; a run from the loop ends the cycle and starts no cooldown.
HistoryOfRowThrows ==
    /\ pc = "history" /\ exec.op # NoOp
    /\ Fault
    /\ pc' = "failed"
    /\ UNCHANGED <<tables, cycle, exec, age, breaker, approvals, attempts, sinceAuto>>

HistoryOfAutoRunThrows ==
    /\ pc = "history" /\ exec.op = NoOp
    /\ Fault
    /\ AutoRunOver(exec.plan.key)
    /\ EndCycle
    /\ UNCHANGED <<tables, age, breaker, approvals, attempts>>

-------------------------------------------------------------------------------
(***************************************************************************)
(* processApprovedQueue.                                                   *)
(***************************************************************************)
Priority(o) == planOf[o].priority

InBatch(o) == \E i \in DOMAIN batch : batch[i] = o

\* The MaxOps approved rows of highest priority, ties in any order.
IsTopOf(b, n, S) ==
    /\ n = MaxOps \/ \A o \in S : \E i \in 1..n : b[i] = o
    /\ \A i, j \in 1..n : i < j => b[i] # b[j] /\ Priority(b[i]) >= Priority(b[j])
    /\ \A o \in S : (\E i \in 1..n : b[i] = o)
                    \/ \A i \in 1..n : Priority(b[i]) >= Priority(o)

Fetch(S) ==
    /\ pc = "fetch"
    /\ \E n \in 0..MaxOps : \E b \in [1..n -> S] : IsTopOf(b, n, S) /\ batch' = b
    /\ pc' = "dequeue"
    /\ UNCHANGED <<tables, auto, manual, cooldown, todo, queued, exec, age,
                   breaker, ghosts>>

\* Variants: rows nobody approved are fetched too; the queue is left alone
\* while autoExecute is off.
FetchPendingToo == Fetch(WithStatus({"approved", "pending"}))

FetchWhenAuto == Fetch(IF auto THEN WithStatus({"approved"}) ELSE {})

FetchApproved == Fetch(WithStatus({"approved"}))

FetchThrows ==
    /\ pc = "fetch"
    /\ Fault
    /\ EndCycle
    /\ UNCHANGED <<tables, age, breaker, approvals, attempts, sinceAuto>>

\* The update is by id alone: whatever became of the row since the fetch.
MarkExecuting ==
    /\ pc = "dequeue" /\ batch # <<>>
    /\ status' = [status EXCEPT ![Head(batch)] = "executing"]
    /\ exec' = [IdleExec EXCEPT !.plan = planOf[Head(batch)], !.op = Head(batch)]
    /\ batch' = Tail(batch)
    /\ pc' = "begin"
    /\ UNCHANGED <<planOf, lastResult, settings, auto, manual, cooldown, todo,
                   queued, age, breaker, ghosts>>

MarkExecutingThrows ==
    /\ pc = "dequeue" /\ batch # <<>>
    /\ Fault
    /\ EndCycle
    /\ UNCHANGED <<tables, age, breaker, approvals, attempts, sinceAuto>>

\* The queue is done; the inventory is written to the dashboard's table, where
\* every exception is caught.
FinishCycle ==
    /\ pc = "dequeue" /\ batch = <<>>
    /\ EndCycle
    /\ UNCHANGED <<tables, age, breaker, ghosts>>

MarkRow(s) ==
    /\ status' = [status EXCEPT ![exec.op] = s]
    /\ exec' = IdleExec
    /\ pc' = "dequeue"
    /\ UNCHANGED <<planOf, lastResult, settings, cycle, age, breaker, ghosts>>

\* Variant: the catch block runs after the try block, whatever happened there.
MarkCompletedThenFailed ==
    /\ pc = "completed"
    /\ status' = [status EXCEPT ![exec.op] = "completed"]
    /\ pc' = "failed"
    /\ UNCHANGED <<planOf, lastResult, settings, cycle, exec, age, breaker, ghosts>>

MarkCompleted == pc = "completed" /\ MarkRow("completed")

\* The update is inside the try block: if it throws, the row is marked failed.
MarkCompletedThrows ==
    /\ pc = "completed"
    /\ Fault
    /\ pc' = "failed"
    /\ UNCHANGED <<tables, cycle, exec, age, breaker, approvals, attempts, sinceAuto>>

MarkFailed == pc = "failed" /\ MarkRow("failed")

MarkFailedThrows ==
    /\ pc = "failed"
    /\ Fault
    /\ EndCycle
    /\ UNCHANGED <<tables, age, breaker, approvals, attempts, sinceAuto>>

-------------------------------------------------------------------------------
(***************************************************************************)
(* SIGINT or SIGTERM: stop() and process.exit(0), at whatever await the    *)
(* engine is, or a crash; then a new process.  Its breaker is closed and   *)
(* its cooldown map is empty.                                              *)
(***************************************************************************)
Restart ==
    /\ Fault
    /\ pc' = "sleep"
    /\ auto' = FALSE /\ manual' = CliManual /\ cooldown' = CliCooldown
    /\ todo' = {} /\ queued' = 0 /\ batch' = <<>>
    /\ exec' = IdleExec
    /\ age' = [k \in Keys |-> AgeCap]
    /\ breaker' = InitialBreaker
    /\ sinceAuto' = IF exec.plan # NoPlan /\ exec.op = NoOp
                    THEN [sinceAuto EXCEPT ![exec.plan.key] = 0] ELSE sinceAuto
    /\ UNCHANGED <<tables, approvals, attempts>>

(***************************************************************************)
(* POST /api/engine/queue, each action one updateMany over a list of ids,  *)
(* and POST /api/engine/runner.                                            *)
(***************************************************************************)
UpdateMany(ids, from, to) ==
    status' = [o \in Ops |-> IF o \in ids /\ status[o] \in from THEN to
                             ELSE status[o]]

\* Variant: the approval does not look at the status it finds.
ApproveWithdrawnToo(ids) ==
    /\ UpdateMany(ids, {"pending", "rejected", "cancelled"}, "approved")
    /\ approvals' = [o \in Ops |-> IF o \in ids /\ status[o] = "pending"
                                   THEN approvals[o] + 1 ELSE approvals[o]]
    /\ UNCHANGED <<planOf, lastResult, settings, memory, attempts, sinceAuto, faults>>

Approve(ids) ==
    /\ UpdateMany(ids, {"pending"}, "approved")
    /\ approvals' = [o \in Ops |-> IF o \in ids /\ status[o] = "pending"
                                   THEN approvals[o] + 1 ELSE approvals[o]]
    /\ UNCHANGED <<planOf, lastResult, settings, memory, attempts, sinceAuto, faults>>

Reject(ids) ==
    /\ UpdateMany(ids, {"pending"}, "rejected")
    /\ UNCHANGED <<planOf, lastResult, settings, memory, ghosts>>

Cancel(ids) ==
    /\ UpdateMany(ids, {"pending", "approved"}, "cancelled")
    /\ UNCHANGED <<planOf, lastResult, settings, memory, ghosts>>

\* Variant: a retry goes back to the queue without review.
RetryWithoutReview(ids) ==
    /\ UpdateMany(ids, {"failed"}, "approved")
    /\ UNCHANGED <<planOf, lastResult, settings, memory, ghosts>>

Retry(ids) ==
    /\ UpdateMany(ids, {"failed"}, "pending")
    /\ UNCHANGED <<planOf, lastResult, settings, memory, ghosts>>

UpdateSettings ==
    /\ settings' \in SettingsRows
    /\ UNCHANGED <<status, planOf, lastResult, memory, ghosts>>

Dashboard ==
    \/ \E ids \in SUBSET Ops : Approve(ids) \/ Reject(ids) \/ Cancel(ids) \/ Retry(ids)
    \/ UpdateSettings

(***************************************************************************)
(* The clock both ages are measured with.                                  *)
(***************************************************************************)
Older(ages) == [k \in Keys |-> IF ages[k] < AgeCap THEN ages[k] + 1 ELSE AgeCap]

Tick ==
    /\ age' = Older(age)
    /\ sinceAuto' = Older(sinceAuto)
    /\ UNCHANGED <<tables, pc, cycle, exec, breaker, approvals, attempts, faults>>

-------------------------------------------------------------------------------
Loop ==
    \/ LoadSettings \/ StateUsable \/ StateUnusable
    \/ Evaluate \/ LoopDone \/ LoopThrows
    \/ \E p \in Plans :
          \/ SkipCooling(p) \/ Decline(p) \/ AutoExecute(p)
          \/ QueueForApproval(p) \/ QueueRefused(p)

ExecutePlan ==
    \/ BeginBlocked \/ BeginSteps \/ BeginNothingToRun
    \/ StepSucceeds \/ LastStepSucceeds \/ StepFails
    \/ WriteHistoryOfRow \/ WriteHistoryOfAutoRun
    \/ HistoryOfRowThrows \/ HistoryOfAutoRunThrows

ProcessApprovedQueue ==
    \/ FetchApproved \/ FetchThrows
    \/ MarkExecuting \/ MarkExecutingThrows \/ FinishCycle
    \/ MarkCompleted \/ MarkCompletedThrows \/ MarkFailed \/ MarkFailedThrows

Engine == Loop \/ ExecutePlan \/ ProcessApprovedQueue

Next == Engine \/ Restart \/ Dashboard \/ Tick

Spec == Init /\ [][Next]_vars

(***************************************************************************)
(* The process is never idle for ever: its sleep ends and its awaits       *)
(* return.  And the watchers, once and again, deliver data that is fresh   *)
(* when a cycle looks at it.                                               *)
(***************************************************************************)
Fairness == WF_vars(Engine) /\ SF_vars(StateUsable)

FairSpec == Spec /\ Fairness

-------------------------------------------------------------------------------
(***************************************************************************)
(* Properties.                                                             *)
(***************************************************************************)
IsRunning == pc = "step"

\* The breaker is open exactly when one of its thresholds is reached: a success
\* cannot clear the failures under an open breaker, no path counts without
\* comparing, and nothing opens it early (circuitBreaker.ts, recordSuccess and
\* recordFailure as executePlan calls them).
BreakerOpenExactlyWhenTripped == breaker.isOpen <=> RiskEnabled /\ Tripped(breaker)

\* No venue call is made behind an open breaker.  canExecute is asked once per
\* plan, before the first step, and never again while the steps run.
NoStepBehindOpenBreaker == IsRunning /\ RiskEnabled => ~breaker.isOpen

\* One approval buys at most one run of a row's plan, whatever the dashboard
\* does while a batch is being processed, wherever the engine dies, and
\* however often the row is retried.
OneAttemptPerApproval == \A o \in Ops : attempts[o] <= approvals[o]

\* A row is left in "executing" with no one executing it only by an exception or
\* by the death of the process.
NoOrphanWithoutFault ==
    faults = 0 => \A o \in WithStatus({"executing"}) : exec.op = o

\* A row says failed only after a database failure: executePlan reports a
\* failed step and a blocked plan by returning, not by throwing, so that
\* neither gets the row into the one status that can be retried.
FailedOnlyByFault == WithStatus({"failed"}) # {} => faults > 0

\* A row leaves "cancelled" only if the engine had already fetched it as
\* approved when the cancel came, and "rejected" or "completed" never.
CancelOverriddenOnlyInBatch ==
    [][\A o \in Ops :
          /\ status[o] \in {"rejected", "completed"} => status'[o] = status[o]
          /\ status[o] = "cancelled" /\ status'[o] # "cancelled" => InBatch(o)]_vars

\* Two runs of the same opportunity from the loop are at least cooldownMs
\* apart, as long as the process lives and its history is written.
StartsAutoRun == exec = IdleExec /\ exec'.plan # NoPlan /\ exec'.op = NoOp

AutoRunsAreSpaced ==
    [][StartsAutoRun /\ faults = 0 => sinceAuto[exec'.plan.key] >= cooldown]_vars

\* An approved row does not stay approved for ever: the engine takes it up, or
\* an operator cancels it.
ApprovedIsServed ==
    \A o \in Ops : status[o] = "approved" ~> status[o] # "approved"

(***************************************************************************)
(* The queue implements the lifecycle.  A row the engine has fetched keeps *)
(* its permit until it is taken up; a row in "executing" that no call of   *)
(* executePlan is for is lost.                                             *)
(***************************************************************************)
PhaseOfStatus ==
    [absent |-> "unborn", pending |-> "waiting", approved |-> "permitted",
     executing |-> "lost", completed |-> "done", failed |-> "failed",
     rejected |-> "withdrawn", cancelled |-> "withdrawn"]

Phase(o) ==
    CASE exec.op = o -> "running"
      [] exec.op # o /\ InBatch(o) -> "permitted"
      [] OTHER -> PhaseOfStatus[status[o]]

Lifecycle == INSTANCE OperationLifecycle WITH phase <- [o \in Ops |-> Phase(o)]

\* Every behaviour of the engine, the queue and the dashboard is one of
\* OperationLifecycle: only permitted operations run, one at a time, once per
\* permit, and the verdict of a run is recorded once.
ImplementsLifecycle == Lifecycle!Spec

(***************************************************************************)
(* What the documentation says and the code does not do.                   *)
(***************************************************************************)

\* docs/execution-and-risk.md: "set status to "executing", run the plan, set
\* status to "completed" or "failed"".
CompletedMeansSuccess ==
    \A o \in WithStatus({"completed"}) : lastResult[o] = "success"

\* docs/architecture.md: "DB values override CLI flags for autoExecute,
\* manualApproval, and cooldownMs": with autoExecute on and manualApproval off
\* in the table, a plan that meets its strategy's criteria is not dropped.
DatabaseOverridesFlag ==
    [][\A p \in todo : p.eligible /\ auto /\ ~manual /\ ~CoolingDown(p) /\ queued < MaxOps
          /\ pc = "opportunity" /\ pc' # "sleep" /\ p \notin todo'
          => exec'.plan = p]_vars

\* docs/execution-and-risk.md: cooldownMs is the "Minimum time between
\* same-opportunity executions".
CooldownCoversEveryRun ==
    [][exec = IdleExec /\ exec'.plan # NoPlan => age[exec'.plan.key] >= cooldown]_vars
===============================================================================
