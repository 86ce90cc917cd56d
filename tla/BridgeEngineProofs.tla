-------------------------- MODULE BridgeEngineProofs --------------------------
(***************************************************************************)
(* The safety properties of BridgeEngine, for every set of rows, plans and *)
(* settings, every limit and every number of faults.                       *)
(*                                                                         *)
(* They follow from one inductive invariant, Inv.  Its parts say what the  *)
(* program counter means for the executePlan call in progress, what may    *)
(* have become of the rows of a batch since they were fetched, and that a  *)
(* row that may still be run has an approval nobody has used.              *)
(***************************************************************************)
EXTENDS BridgeEngine, TLAPS

Between == {"sleep", "state", "evaluate", "opportunity", "fetch", "dequeue"}

ExecFollowsPc ==
    /\ pc \in Between => exec = IdleExec
    /\ pc \in {"begin", "step", "history"} => exec.plan \in Plans
    /\ pc \in {"completed", "failed"} => exec.op \in Ops

RowsArePlanned == \A o \in Ops : status[o] # "absent" => planOf[o] \in Plans

(***************************************************************************)
(* A fetched row stays approved unless it is cancelled, and the row being  *)
(* executed has left the batch for good.                                   *)
(***************************************************************************)
BatchWasApproved ==
    /\ \A i \in DOMAIN batch : status[batch[i]] \in {"approved", "cancelled"}
    /\ \A i, j \in DOMAIN batch : batch[i] = batch[j] => i = j
    /\ exec.op \in Ops => status[exec.op] = "executing"

Permitted(o) ==
    \/ status[o] = "approved"
    \/ InBatch(o)
    \/ pc = "begin" /\ exec.op = o

ApprovalsCover ==
    \A o \in Ops : /\ attempts[o] <= approvals[o]
                   /\ Permitted(o) => attempts[o] < approvals[o]

BreakerIsFaithful ==
    /\ BreakerOpenExactlyWhenTripped
    /\ NoStepBehindOpenBreaker

VerdictsAreEarned ==
    /\ NoOrphanWithoutFault
    /\ FailedOnlyByFault
    /\ pc = "failed" => faults > 0

\* The cooldown map remembers every run from the loop, until something goes wrong.
ClocksAgree == faults = 0 => age = sinceAuto

Inv ==
    /\ TypeOK
    /\ ExecFollowsPc
    /\ RowsArePlanned
    /\ BatchWasApproved
    /\ ApprovalsCover
    /\ BreakerIsFaithful
    /\ VerdictsAreEarned
    /\ ClocksAgree

USE DEF tables, cycle, memory, ghosts

-------------------------------------------------------------------------------
(***************************************************************************)
(* The circuit breaker.                                                    *)
(***************************************************************************)

Faithful(b) == b.isOpen <=> RiskEnabled /\ Tripped(b)

\* Comparing the counters with the thresholds touches nothing but the flag
\* (checkThresholds).
LEMMA CheckThresholdsKeepsBreaker ==
    ASSUME NEW b \in Breakers
    PROVE  CheckThresholds(b) \in Breakers
BY DEF CheckThresholds, Breakers

\* A success recorded by a breaker that let the plan run leaves it open exactly
\* when the loss it added reaches the daily limit (recordSuccess).
LEMMA RecordSuccessIsFaithful ==
    ASSUME NEW b \in Breakers, NEW pnl \in Int, CanExecute(b), Faithful(b)
    PROVE  RecordSuccess(b, pnl) \in Breakers /\ Faithful(RecordSuccess(b, pnl))
<1> DEFINE counted == [b EXCEPT !.failures = 0, !.lossUsd = @ + Loss(pnl)]
<1>1. Loss(pnl) \in Nat /\ (pnl >= 0 => Loss(pnl) = 0)
  BY DEF Loss
<1>2. counted \in Breakers
  <2>1. b.lossUsd + Loss(pnl) \in Nat
    BY <1>1 DEF Breakers
  <2> QED
    BY <2>1 DEF Breakers
<1>3. counted.failures = 0 /\ counted.lossUsd = b.lossUsd + Loss(pnl)
      /\ counted.isOpen = b.isOpen
  BY DEF Breakers
<1>4. CASE pnl < 0
  <2>1. RecordSuccess(b, pnl) = CheckThresholds(counted)
    BY <1>4 DEF RecordSuccess
  <2>2. RiskEnabled => ~counted.isOpen
    BY <1>3 DEF CanExecute
  <2>3. ~RiskEnabled => ~counted.isOpen
    BY <1>3 DEF Faithful
  <2> HIDE DEF counted
  <2>4. Faithful(CheckThresholds(counted))
    BY <1>2, <2>2, <2>3 DEF Faithful, CheckThresholds, Tripped, Breakers
  <2> QED
    BY <1>2, <2>1, <2>4, CheckThresholdsKeepsBreaker
<1>5. CASE pnl >= 0
  <2>1. RecordSuccess(b, pnl) = counted
    BY <1>5 DEF RecordSuccess
  <2>2. ~counted.isOpen
    BY <1>3 DEF CanExecute, Faithful
  <2>3. RiskEnabled => ~Tripped(counted)
    BY <1>1, <1>3, <1>5, RiskAssumption DEF CanExecute, Faithful, Tripped, Breakers
  <2> QED
    BY <1>2, <2>1, <2>2, <2>3 DEF Faithful
<1> QED
  BY <1>4, <1>5

\* Likewise for a failure (recordFailure), whatever the breaker was.
LEMMA RecordFailureIsFaithful ==
    ASSUME NEW b \in Breakers, Faithful(b)
    PROVE  RecordFailure(b) \in Breakers /\ Faithful(RecordFailure(b))
<1> DEFINE counted == [b EXCEPT !.failures = @ + 1]
<1>1. counted \in Breakers /\ counted.isOpen = b.isOpen
      /\ counted.failures = b.failures + 1 /\ counted.lossUsd = b.lossUsd
  BY DEF Breakers
<1>2. counted.isOpen => RiskEnabled /\ Tripped(counted)
  BY <1>1, RiskAssumption DEF Faithful, Tripped, Breakers
<1> HIDE DEF counted
<1>3. Faithful(CheckThresholds(counted))
  BY <1>1, <1>2 DEF Faithful, CheckThresholds, Tripped, Breakers
<1> QED
  BY <1>1, <1>3, CheckThresholdsKeepsBreaker DEF RecordFailure, counted

-------------------------------------------------------------------------------
(***************************************************************************)
(* Each part of Inv is preserved by every step of Next.                    *)
(***************************************************************************)

\* The first Head and the rest of a batch of rows are rows.
LEMMA BatchHead ==
    ASSUME batch \in Seq(Ops), batch # <<>>
    PROVE  /\ Head(batch) \in Ops /\ Tail(batch) \in Seq(Ops)
           /\ 1 \in DOMAIN batch /\ Head(batch) = batch[1]
           /\ \A i \in DOMAIN Tail(batch) :
                 i + 1 \in DOMAIN batch /\ Tail(batch)[i] = batch[i + 1] /\ i # 0
<1>1. Len(batch) \in Nat /\ Len(batch) # 0 /\ DOMAIN batch = 1..Len(batch)
  OBVIOUS
<1>2. Len(Tail(batch)) = Len(batch) - 1 /\ DOMAIN Tail(batch) = 1..Len(Tail(batch))
  BY <1>1
<1> QED
  BY <1>1, <1>2

\* A fetch yields a sequence of approved rows without repetition.
LEMMA FetchedBatch ==
    ASSUME FetchApproved
    PROVE  /\ batch' \in Seq(Ops)
           /\ \A i \in DOMAIN batch' : status[batch'[i]] = "approved"
           /\ \A i, j \in DOMAIN batch' : batch'[i] = batch'[j] => i = j
<1> DEFINE S == WithStatus({"approved"})
<1>0. PICK n \in 0..MaxOps : \E b \in [1..n -> S] : IsTopOf(b, n, S) /\ batch' = b
  BY DEF FetchApproved, Fetch
<1>1. PICK b \in [1..n -> S] : IsTopOf(b, n, S) /\ batch' = b
  BY <1>0
<1>2. S \subseteq Ops /\ \A o \in S : status[o] = "approved"
  BY DEF WithStatus
<1>3. n \in Nat
  BY EngineAssumption
<1>4. batch' \in Seq(Ops) /\ DOMAIN batch' = 1..n
  BY <1>1, <1>2, <1>3
<1>5. \A i, j \in 1..n : i < j => b[i] # b[j]
  BY <1>1 DEF IsTopOf
<1> HIDE DEF S
<1> QED
  BY <1>1, <1>2, <1>3, <1>4, <1>5

\* Setting an age back to 0, and letting the clock tick, give ages.
LEMMA ResetKeepsAges ==
    ASSUME NEW ages \in [Keys -> 0..AgeCap], NEW k
    PROVE  [ages EXCEPT ![k] = 0] \in [Keys -> 0..AgeCap]
<1>1. 0 \in 0..AgeCap
  BY EngineAssumption
<1> QED
  BY <1>1

LEMMA OlderKeepsAges ==
    ASSUME NEW ages \in [Keys -> 0..AgeCap]
    PROVE  Older(ages) \in [Keys -> 0..AgeCap]
BY EngineAssumption DEF Older

LEMMA LoopKeepsType ==
    ASSUME Inv, Loop
    PROVE  TypeOK'
<1> USE EngineAssumption DEF Inv, TypeOK
<1>1. CASE LoadSettings
  <2>1. cooldown' \in Nat /\ auto' \in BOOLEAN /\ manual' \in BOOLEAN
    <3>1. settings # NoRow => /\ settings.cooldown \in Nat
                              /\ settings.autoExecute \in BOOLEAN
                              /\ settings.manualApproval \in BOOLEAN
      OBVIOUS
    <3> QED
      BY <1>1, <3>1 DEF LoadSettings
  <2>2. faults' \in 0..MaxFaults
    BY <1>1 DEF LoadSettings, Fault
  <2> QED
    BY <1>1, <2>1, <2>2 DEF LoadSettings, Points
<1>2. CASE StateUsable
  BY <1>2 DEF StateUsable, Points
<1>3. CASE StateUnusable
  BY <1>3 DEF StateUnusable, EndCycle, IdleExec, Points, Verdicts
<1>4. CASE Evaluate
  BY <1>4 DEF Evaluate, Points
<1>5. CASE LoopDone
  BY <1>5 DEF LoopDone, Points
<1>6. CASE LoopThrows
  BY <1>6 DEF LoopThrows, Fault, EndCycle, IdleExec, Points, Verdicts
<1>7. ASSUME NEW p \in Plans, SkipCooling(p) \/ Decline(p) PROVE TypeOK'
  BY <1>7 DEF SkipCooling, Decline, Skip
<1>8. ASSUME NEW p \in Plans, QueueForApproval(p) PROVE TypeOK'
  <2>1. status' \in [Ops -> Statuses] /\ planOf' \in [Ops -> Plans \cup {NoPlan}]
    <3>1. PICK r \in Ops : /\ status' = [status EXCEPT ![r] = "pending"]
                           /\ planOf' = [planOf EXCEPT ![r] = p]
      BY <1>8 DEF QueueForApproval, WithStatus
    <3> QED
      BY <3>1 DEF Statuses
  <2>2. queued' \in Nat
    BY <1>8 DEF QueueForApproval
  <2> QED
    BY <1>8, <2>1, <2>2 DEF QueueForApproval
<1>9. ASSUME NEW p \in Plans, QueueRefused(p) PROVE TypeOK'
  <2>1. /\ pc' = "sleep" /\ todo' = {} /\ batch' = <<>> /\ exec' = IdleExec
        /\ UNCHANGED <<auto, manual, cooldown, queued, tables, age, breaker, ghosts>>
    BY <1>9 DEF QueueRefused, EndCycle
  <2>2. /\ exec' \in [plan : Plans \cup {NoPlan}, op : Ops \cup {NoOp}, step : Nat,
                      verdict : Verdicts]
        /\ pc' \in Points /\ todo' \subseteq Plans /\ batch' \in Seq(Ops)
    BY <2>1 DEF IdleExec, Points, Verdicts
  <2> QED
    BY <2>1, <2>2
<1>10. ASSUME NEW p \in Plans, AutoExecute(p) PROVE TypeOK'
  BY <1>10 DEF AutoExecute, IdleExec, Points, Verdicts
<1> QED
  BY <1>1, <1>2, <1>3, <1>4, <1>5, <1>6, <1>7, <1>8, <1>9, <1>10 DEF Loop

LEMMA ExecutePlanKeepsType ==
    ASSUME Inv, ExecutePlan
    PROVE  TypeOK'
<1> USE EngineAssumption DEF Inv, TypeOK
<1>1. CASE BeginBlocked
  BY <1>1 DEF BeginBlocked, Conclude, Points, Verdicts
<1>2. CASE BeginSteps
  <2>1. attempts' \in [Ops -> Nat]
    BY <1>2 DEF BeginSteps, CountAttempt
  <2> QED
    BY <1>2, <2>1 DEF BeginSteps, Points
<1>3. CASE BeginNothingToRun
  <2>1. attempts' \in [Ops -> Nat]
    BY <1>3 DEF BeginNothingToRun, CountAttempt
  <2>2. exec.plan.pnl \in Int
    BY <1>3 DEF BeginNothingToRun, ExecFollowsPc
  <2>3. CanExecute(breaker)
    BY <1>3 DEF BeginNothingToRun, RiskAllows
  <2>4. breaker' \in Breakers
    BY <1>3, <2>2, <2>3, RecordSuccessIsFaithful
       DEF BeginNothingToRun, BreakerIsFaithful, BreakerOpenExactlyWhenTripped, Faithful
  <2> QED
    BY <1>3, <2>1, <2>4 DEF BeginNothingToRun, Conclude, Points, Verdicts
<1>4. CASE StepSucceeds
  <2>1. exec.step + 1 \in Nat
    OBVIOUS
  <2>2. exec' \in [plan : Plans \cup {NoPlan}, op : Ops \cup {NoOp},
                   step : Nat, verdict : Verdicts]
    BY <1>4, <2>1 DEF StepSucceeds
  <2> QED
    BY <1>4, <2>2 DEF StepSucceeds
<1>5. CASE LastStepSucceeds
  <2>1. exec.plan.pnl \in Int
    BY <1>5 DEF LastStepSucceeds, ExecFollowsPc
  <2>2. CanExecute(breaker)
    BY <1>5 DEF LastStepSucceeds, BreakerIsFaithful, NoStepBehindOpenBreaker,
                IsRunning, CanExecute
  <2>3. breaker' \in Breakers
    BY <1>5, <2>1, <2>2, RecordSuccessIsFaithful
       DEF LastStepSucceeds, BreakerIsFaithful, BreakerOpenExactlyWhenTripped, Faithful
  <2> QED
    BY <1>5, <2>3 DEF LastStepSucceeds, Conclude, Points, Verdicts
<1>6. CASE StepFails
  <2>1. breaker' \in Breakers
    BY <1>6, RecordFailureIsFaithful
       DEF StepFails, BreakerIsFaithful, BreakerOpenExactlyWhenTripped, Faithful
  <2> QED
    BY <1>6, <2>1 DEF StepFails, Conclude, Points, Verdicts
<1>7. CASE WriteHistoryOfRow
  BY <1>7 DEF WriteHistoryOfRow, Points
<1>8. CASE WriteHistoryOfAutoRun
  <2>1. age' \in [Keys -> 0..AgeCap] /\ sinceAuto' \in [Keys -> 0..AgeCap]
    BY <1>8, ResetKeepsAges DEF WriteHistoryOfAutoRun, StartCooldown, AutoRunOver
  <2> QED
    BY <1>8, <2>1 DEF WriteHistoryOfAutoRun, IdleExec, Points, Verdicts
<1>9. CASE HistoryOfRowThrows
  <2>1. faults' \in 0..MaxFaults
    BY <1>9 DEF HistoryOfRowThrows, Fault
  <2> QED
    BY <1>9, <2>1 DEF HistoryOfRowThrows, Points
<1>10. CASE HistoryOfAutoRunThrows
  <2>1. sinceAuto' \in [Keys -> 0..AgeCap]
    BY <1>10, ResetKeepsAges DEF HistoryOfAutoRunThrows, AutoRunOver
  <2>2. faults' \in 0..MaxFaults
    BY <1>10 DEF HistoryOfAutoRunThrows, Fault
  <2> QED
    BY <1>10, <2>1, <2>2 DEF HistoryOfAutoRunThrows, EndCycle, IdleExec, Points, Verdicts
<1> QED
  BY <1>1, <1>2, <1>3, <1>4, <1>5, <1>6, <1>7, <1>8, <1>9, <1>10 DEF ExecutePlan

LEMMA ProcessApprovedQueueKeepsType ==
    ASSUME Inv, ProcessApprovedQueue
    PROVE  TypeOK'
<1> USE EngineAssumption DEF Inv, TypeOK
<1>1. CASE FetchApproved
  BY <1>1, FetchedBatch DEF FetchApproved, Fetch, Points
<1>2. CASE FetchThrows
  BY <1>2 DEF FetchThrows, Fault, EndCycle, IdleExec, Points, Verdicts
<1>3. CASE MarkExecuting
  <2>1. Head(batch) \in Ops /\ Tail(batch) \in Seq(Ops)
    BY <1>3, BatchHead DEF MarkExecuting
  <2> QED
    BY <1>3, <2>1 DEF MarkExecuting, IdleExec, Statuses, Points, Verdicts
<1>4. CASE MarkExecutingThrows
  BY <1>4 DEF MarkExecutingThrows, Fault, EndCycle, IdleExec, Points, Verdicts
<1>5. CASE FinishCycle
  BY <1>5 DEF FinishCycle, EndCycle, IdleExec, Points, Verdicts
<1>6. CASE MarkCompleted \/ MarkFailed
  <2>1. PICK s \in {"completed", "failed"} : MarkRow(s)
    BY <1>6 DEF MarkCompleted, MarkFailed
  <2>2. status' \in [Ops -> Statuses]
    BY <2>1 DEF MarkRow, Statuses
  <2> QED
    BY <2>1, <2>2 DEF MarkRow, IdleExec, Points, Verdicts
<1>7. CASE MarkCompletedThrows
  BY <1>7 DEF MarkCompletedThrows, Fault, Points
<1>8. CASE MarkFailedThrows
  BY <1>8 DEF MarkFailedThrows, Fault, EndCycle, IdleExec, Points, Verdicts
<1> QED
  BY <1>1, <1>2, <1>3, <1>4, <1>5, <1>6, <1>7, <1>8 DEF ProcessApprovedQueue

LEMMA EnvironmentKeepsType ==
    ASSUME Inv, Restart \/ Dashboard \/ Tick
    PROVE  TypeOK'
<1> USE EngineAssumption DEF Inv, TypeOK
<1>1. CASE Restart
  <2>1. age' \in [Keys -> 0..AgeCap] /\ sinceAuto' \in [Keys -> 0..AgeCap]
    <3>1. AgeCap \in 0..AgeCap
      OBVIOUS
    <3> QED
      BY <1>1, <3>1, ResetKeepsAges DEF Restart
  <2>2. breaker' \in Breakers
    BY <1>1 DEF Restart, InitialBreaker, Breakers
  <2>3. faults' \in 0..MaxFaults
    BY <1>1 DEF Restart, Fault
  <2>4. auto' \in BOOLEAN /\ manual' \in BOOLEAN /\ cooldown' \in Nat
    BY <1>1 DEF Restart
  <2>5. exec' \in [plan : Plans \cup {NoPlan}, op : Ops \cup {NoOp},
                   step : Nat, verdict : Verdicts]
    BY <1>1 DEF Restart, IdleExec, Verdicts
  <2>6. /\ pc' = "sleep" /\ todo' = {} /\ queued' = 0 /\ batch' = <<>>
        /\ UNCHANGED <<tables, approvals, attempts>>
    BY <1>1 DEF Restart
  <2>7. batch' \in Seq(Ops) /\ todo' \subseteq Plans /\ pc' \in Points /\ queued' \in Nat
    BY <2>6 DEF Points
  <2> QED
    BY <2>1, <2>2, <2>3, <2>4, <2>5, <2>6, <2>7
<1>2. ASSUME NEW ids \in SUBSET Ops, Approve(ids) PROVE TypeOK'
  BY <1>2 DEF Approve, UpdateMany, Statuses
<1>3. ASSUME NEW ids \in SUBSET Ops, Reject(ids) \/ Cancel(ids) \/ Retry(ids) PROVE TypeOK'
  BY <1>3 DEF Reject, Cancel, Retry, UpdateMany, Statuses
<1>4. CASE UpdateSettings
  BY <1>4 DEF UpdateSettings
<1>5. CASE Tick
  BY <1>5, OlderKeepsAges DEF Tick
<1> QED
  BY <1>1, <1>2, <1>3, <1>4, <1>5 DEF Dashboard

\* Who is executing what follows the program counter.
LEMMA StepKeepsExec ==
    ASSUME Inv, Next
    PROVE  ExecFollowsPc'
<1> USE EngineAssumption DEF Inv, TypeOK, ExecFollowsPc, Between
<1>1. CASE LoadSettings \/ StateUsable \/ Evaluate \/ LoopDone
  BY <1>1 DEF LoadSettings, StateUsable, Evaluate, LoopDone
<1>2. ASSUME NEW p \in Plans, SkipCooling(p) \/ Decline(p) \/ QueueForApproval(p)
      PROVE  ExecFollowsPc'
  BY <1>2 DEF SkipCooling, Decline, Skip, QueueForApproval
<1>3. ASSUME NEW p \in Plans, AutoExecute(p) PROVE ExecFollowsPc'
  BY <1>3 DEF AutoExecute, IdleExec
<1>4. CASE StateUnusable \/ (\E p \in Plans : QueueRefused(p)) \/ LoopThrows
           \/ FetchThrows \/ MarkExecutingThrows \/ FinishCycle \/ MarkFailedThrows
           \/ HistoryOfAutoRunThrows
  BY <1>4 DEF StateUnusable, LoopThrows, QueueRefused, FetchThrows, MarkExecutingThrows,
              FinishCycle, MarkFailedThrows, HistoryOfAutoRunThrows, EndCycle
<1>5. CASE BeginBlocked \/ BeginSteps \/ BeginNothingToRun
  BY <1>5 DEF BeginBlocked, BeginSteps, BeginNothingToRun, Conclude
<1>6. CASE StepSucceeds \/ LastStepSucceeds \/ StepFails
  BY <1>6 DEF StepSucceeds, LastStepSucceeds, StepFails, Conclude
<1>7. CASE WriteHistoryOfRow \/ HistoryOfRowThrows
  BY <1>7 DEF WriteHistoryOfRow, HistoryOfRowThrows
<1>8. CASE WriteHistoryOfAutoRun
  BY <1>8 DEF WriteHistoryOfAutoRun
<1>9. CASE FetchApproved
  BY <1>9 DEF FetchApproved, Fetch
<1>10. CASE MarkExecuting
  <2>1. /\ Head(batch) \in Ops
        /\ status[Head(batch)] # "absent"
    BY <1>10, BatchHead DEF MarkExecuting, BatchWasApproved
  <2>2. planOf[Head(batch)] \in Plans
    BY <2>1 DEF RowsArePlanned
  <2> QED
    BY <1>10, <2>1, <2>2 DEF MarkExecuting, IdleExec
<1>11. CASE MarkCompleted \/ MarkFailed
  BY <1>11 DEF MarkCompleted, MarkFailed, MarkRow
<1>12. CASE MarkCompletedThrows
  BY <1>12 DEF MarkCompletedThrows
<1>13. CASE Restart
  BY <1>13 DEF Restart
<1>14. CASE Dashboard
  BY <1>14 DEF Dashboard, Approve, Reject, Cancel, Retry, UpdateSettings
<1>15. CASE Tick
  BY <1>15 DEF Tick
<1> QED
  BY <1>1, <1>2, <1>3, <1>4, <1>5, <1>6, <1>7, <1>8, <1>9, <1>10, <1>11, <1>12,
     <1>13, <1>14, <1>15 DEF Next, Engine, Loop, ExecutePlan, ProcessApprovedQueue

\* The actions that leave the rows of the queue and their plans alone, and the
\* dashboard's, which move rows between statuses only.
RowsUntouched == UNCHANGED <<status, planOf>>

LEMMA OnlyQueueStepsTouchRows ==
    ASSUME Next
    PROVE  \/ RowsUntouched
           \/ \E p \in Plans : QueueForApproval(p)
           \/ MarkExecuting \/ MarkCompleted \/ MarkFailed
           \/ Dashboard
<1>1. CASE Loop
  BY <1>1 DEF Loop, LoadSettings, StateUsable, StateUnusable, Evaluate, LoopDone,
              LoopThrows, QueueRefused,
              SkipCooling, Decline, Skip, AutoExecute, RowsUntouched
<1>2. CASE ExecutePlan
  BY <1>2 DEF ExecutePlan, BeginBlocked, BeginSteps, BeginNothingToRun, StepSucceeds,
              LastStepSucceeds, StepFails, WriteHistoryOfRow, WriteHistoryOfAutoRun,
              HistoryOfRowThrows, HistoryOfAutoRunThrows, RowsUntouched
<1>3. CASE ProcessApprovedQueue
  BY <1>3 DEF ProcessApprovedQueue, FetchApproved, Fetch, FetchThrows, MarkExecutingThrows,
              FinishCycle, MarkCompletedThrows, MarkFailedThrows, RowsUntouched
<1>4. CASE Restart \/ Tick
  BY <1>4 DEF Restart, Tick, RowsUntouched
<1> QED
  BY <1>1, <1>2, <1>3, <1>4 DEF Next, Engine

\* What the dashboard does to a row that has a plan, and to one that has none.
LEMMA DashboardMoves ==
    ASSUME Dashboard, TypeOK, NEW o \in Ops
    PROVE  /\ planOf' = planOf /\ UNCHANGED memory
           /\ attempts' = attempts /\ faults' = faults
           /\ \/ status'[o] = status[o] /\ approvals'[o] = approvals[o]
              \/ /\ status[o] = "pending" /\ status'[o] = "approved"
                 /\ approvals'[o] = approvals[o] + 1
              \/ /\ status[o] = "pending" /\ status'[o] = "rejected"
                 /\ approvals'[o] = approvals[o]
              \/ /\ status[o] \in {"pending", "approved"} /\ status'[o] = "cancelled"
                 /\ approvals'[o] = approvals[o]
              \/ /\ status[o] = "failed" /\ status'[o] = "pending"
                 /\ approvals'[o] = approvals[o]
<1>1. ASSUME NEW ids \in SUBSET Ops,
             Approve(ids) \/ Reject(ids) \/ Cancel(ids) \/ Retry(ids)
      PROVE  \/ status'[o] = status[o] /\ approvals'[o] = approvals[o]
             \/ /\ status[o] = "pending" /\ status'[o] = "approved"
                /\ approvals'[o] = approvals[o] + 1
             \/ /\ status[o] = "pending" /\ status'[o] = "rejected"
                /\ approvals'[o] = approvals[o]
             \/ /\ status[o] \in {"pending", "approved"} /\ status'[o] = "cancelled"
                /\ approvals'[o] = approvals[o]
             \/ /\ status[o] = "failed" /\ status'[o] = "pending"
                /\ approvals'[o] = approvals[o]
  BY <1>1 DEF Approve, Reject, Cancel, Retry, UpdateMany, TypeOK
<1>2. planOf' = planOf /\ UNCHANGED memory /\ attempts' = attempts /\ faults' = faults
  BY DEF Dashboard, Approve, Reject, Cancel, Retry, UpdateSettings
<1>3. CASE UpdateSettings
  BY <1>3 DEF UpdateSettings
<1> QED
  BY <1>1, <1>2, <1>3 DEF Dashboard

\* A row has a plan as soon as it exists.
LEMMA StepKeepsPlans ==
    ASSUME Inv, Next
    PROVE  RowsArePlanned'
<1> USE DEF Inv, TypeOK, RowsArePlanned
<1>1. CASE RowsUntouched
  BY <1>1 DEF RowsUntouched
<1>2. ASSUME NEW p \in Plans, QueueForApproval(p) PROVE RowsArePlanned'
  BY <1>2 DEF QueueForApproval, WithStatus
<1>3. CASE MarkExecuting
  BY <1>3, BatchHead DEF MarkExecuting, BatchWasApproved
<1>4. CASE MarkCompleted \/ MarkFailed
  <2>1. PICK s \in {"completed", "failed"} : MarkRow(s)
    BY <1>4 DEF MarkCompleted, MarkFailed
  <2>2. exec.op \in Ops /\ status[exec.op] # "absent"
    BY <1>4 DEF MarkCompleted, MarkFailed, ExecFollowsPc, BatchWasApproved
  <2> QED
    BY <2>1, <2>2 DEF MarkRow
<1>5. CASE Dashboard
  BY <1>5, DashboardMoves
<1> QED
  BY <1>1, <1>2, <1>3, <1>4, <1>5, OnlyQueueStepsTouchRows

\* EndCycle leaves no batch and no call in progress.
LEMMA EndCycleKeepsBatch ==
    ASSUME Inv, EndCycle
    PROVE  BatchWasApproved' /\ (\A o \in Ops : Permitted(o)' => status'[o] = "approved")
BY EngineAssumption DEF EndCycle, BatchWasApproved, Permitted, InBatch, IdleExec

\* Since the fetch the rows of a batch have been cancelled at most.
LEMMA StepKeepsBatch ==
    ASSUME Inv, Next
    PROVE  BatchWasApproved'
<1> USE EngineAssumption DEF Inv, TypeOK, BatchWasApproved
<1>1. CASE LoadSettings \/ StateUsable \/ Evaluate \/ LoopDone
  BY <1>1 DEF LoadSettings, StateUsable, Evaluate, LoopDone
<1>2. ASSUME NEW p \in Plans, SkipCooling(p) \/ Decline(p) PROVE BatchWasApproved'
  BY <1>2 DEF SkipCooling, Decline, Skip
<1>3. ASSUME NEW p \in Plans, QueueForApproval(p) PROVE BatchWasApproved'
  <2>1. PICK r \in Ops : /\ status[r] = "absent"
                         /\ status' = [status EXCEPT ![r] = "pending"]
    BY <1>3 DEF QueueForApproval, WithStatus
  <2>2. UNCHANGED <<batch, exec>>
    BY <1>3 DEF QueueForApproval
  <2>3. \A i \in DOMAIN batch : batch[i] \in Ops /\ batch[i] # r
    <3>1. \A i \in DOMAIN batch : batch[i] \in Ops
      OBVIOUS
    <3> QED
      BY <2>1, <3>1
  <2>4. exec.op # r
    BY <2>1
  <2> QED
    BY <2>1, <2>2, <2>3, <2>4
<1>4. ASSUME NEW p \in Plans, AutoExecute(p) PROVE BatchWasApproved'
  BY <1>4 DEF AutoExecute, IdleExec
<1>5. CASE StateUnusable \/ (\E p \in Plans : QueueRefused(p)) \/ LoopThrows
           \/ FetchThrows \/ MarkExecutingThrows \/ FinishCycle \/ MarkFailedThrows
           \/ HistoryOfAutoRunThrows
  <2>1. EndCycle
    BY <1>5 DEF StateUnusable, LoopThrows, QueueRefused, FetchThrows, MarkExecutingThrows,
                FinishCycle, MarkFailedThrows, HistoryOfAutoRunThrows
  <2> QED
    BY <2>1, EndCycleKeepsBatch
<1>6. CASE BeginBlocked \/ BeginSteps \/ BeginNothingToRun
           \/ StepSucceeds \/ LastStepSucceeds \/ StepFails
  <2>1. UNCHANGED <<status, batch>> /\ exec'.op = exec.op
    BY <1>6 DEF BeginBlocked, BeginSteps, BeginNothingToRun, StepSucceeds,
                LastStepSucceeds, StepFails, Conclude
  <2> QED
    BY <2>1
<1>7. CASE WriteHistoryOfRow \/ HistoryOfRowThrows \/ MarkCompletedThrows
  BY <1>7 DEF WriteHistoryOfRow, HistoryOfRowThrows, MarkCompletedThrows
<1>8. CASE WriteHistoryOfAutoRun
  BY <1>8 DEF WriteHistoryOfAutoRun, IdleExec
<1>9. CASE FetchApproved
  <2>1. exec' = exec /\ status' = status /\ pc = "fetch"
    BY <1>9 DEF FetchApproved, Fetch
  <2> QED
    BY <1>9, <2>1, FetchedBatch
<1>10. CASE MarkExecuting
  <2>1. /\ Head(batch) \in Ops /\ batch' = Tail(batch)
        /\ status' = [status EXCEPT ![Head(batch)] = "executing"]
        /\ exec'.op = Head(batch)
    BY <1>10, BatchHead DEF MarkExecuting, IdleExec
  <2>2. \A i \in DOMAIN batch' : /\ batch'[i] # Head(batch)
                                 /\ batch'[i] = batch[i + 1]
                                 /\ i + 1 \in DOMAIN batch
    BY <1>10, BatchHead DEF MarkExecuting
  <2>3. \A i \in DOMAIN batch' : status'[batch'[i]] \in {"approved", "cancelled"}
    BY <2>1, <2>2
  <2>4. \A i, j \in DOMAIN batch' : batch'[i] = batch'[j] => i = j
    <3>1. \A i \in DOMAIN batch' : i \in Int
      BY <1>10, BatchHead DEF MarkExecuting
    <3> QED
      BY <2>2, <3>1
  <2> QED
    BY <2>1, <2>3, <2>4
<1>11. CASE MarkCompleted \/ MarkFailed
  <2>1. PICK s \in {"completed", "failed"} : MarkRow(s)
    BY <1>11 DEF MarkCompleted, MarkFailed
  <2>2. exec.op \in Ops
    BY <1>11 DEF MarkCompleted, MarkFailed, ExecFollowsPc
  <2> QED
    BY <2>1, <2>2 DEF MarkRow, IdleExec
<1>12. CASE Restart
  BY <1>12 DEF Restart, IdleExec
<1>13. CASE Dashboard
  <2>1. UNCHANGED <<batch, exec>>
    BY <1>13 DEF Dashboard, Approve, Reject, Cancel, Retry, UpdateSettings
  <2>2. \A o \in Ops : /\ status[o] \in {"approved", "cancelled"}
                            => status'[o] \in {"approved", "cancelled"}
                       /\ status[o] = "executing" => status'[o] = "executing"
    BY <1>13, DashboardMoves
  <2>3. \A i \in DOMAIN batch : batch[i] \in Ops
    OBVIOUS
  <2> QED
    BY <2>1, <2>2, <2>3
<1>14. CASE Tick
  BY <1>14 DEF Tick
<1> QED
  BY <1>1, <1>2, <1>3, <1>4, <1>5, <1>6, <1>7, <1>8, <1>9, <1>10, <1>11, <1>12,
     <1>13, <1>14 DEF Next, Engine, Loop, ExecutePlan, ProcessApprovedQueue

\* A step that counts nothing and permits nothing new keeps the cover.
LEMMA NothingNewPermitted ==
    ASSUME Inv, UNCHANGED <<approvals, attempts>>,
           \A o \in Ops : Permitted(o)' => Permitted(o)
    PROVE  ApprovalsCover'
BY DEF Inv, ApprovalsCover

\* A run past the risk checks spends the approval of its row.
LEMMA AttemptIsCovered ==
    ASSUME Inv, BeginSteps \/ BeginNothingToRun
    PROVE  ApprovalsCover'
<1>1. /\ pc = "begin" /\ pc' # "begin"
      /\ UNCHANGED <<status, batch, approvals>> /\ CountAttempt
  BY DEF BeginSteps, BeginNothingToRun, Conclude
<1>2. ASSUME NEW o \in Ops, exec.op = o
      PROVE  attempts'[o] <= approvals'[o] /\ ~Permitted(o)'
  <2>1. attempts[o] < approvals[o] /\ attempts'[o] = attempts[o] + 1
    BY <1>1, <1>2, EngineAssumption DEF Inv, TypeOK, ApprovalsCover, Permitted, CountAttempt
  <2>2. status'[o] = "executing" /\ ~InBatch(o)'
    BY <1>1, <1>2, EngineAssumption DEF Inv, BatchWasApproved, InBatch
  <2> QED
    BY <1>1, <2>1, <2>2 DEF Inv, TypeOK, Permitted
<1>3. ASSUME NEW o \in Ops, exec.op # o
      PROVE  attempts'[o] = attempts[o] /\ approvals'[o] = approvals[o]
             /\ (Permitted(o)' => Permitted(o))
  BY <1>1, <1>3, EngineAssumption DEF Inv, TypeOK, CountAttempt, Permitted, InBatch
<1> QED
  BY <1>2, <1>3 DEF Inv, ApprovalsCover

\* Every other step, the dashboard's included: only an approval permits.
LEMMA StepKeepsCover ==
    ASSUME Inv, Next
    PROVE  ApprovalsCover'
<1> USE EngineAssumption DEF Inv, TypeOK
<1>1. CASE LoadSettings \/ StateUsable \/ Evaluate \/ LoopDone
  <2>1. UNCHANGED <<status, batch, exec, approvals, attempts>> /\ pc' # "begin"
    BY <1>1 DEF LoadSettings, StateUsable, Evaluate, LoopDone
  <2> QED
    BY <2>1, NothingNewPermitted DEF Permitted, InBatch
<1>2. ASSUME NEW p \in Plans, SkipCooling(p) \/ Decline(p) PROVE ApprovalsCover'
  <2>1. UNCHANGED <<status, batch, exec, pc, approvals, attempts>>
    BY <1>2 DEF SkipCooling, Decline, Skip
  <2> QED
    BY <2>1, NothingNewPermitted DEF Permitted, InBatch
<1>3. ASSUME NEW p \in Plans, QueueForApproval(p) PROVE ApprovalsCover'
  <2>1. \A o \in Ops : status'[o] = "approved" => status[o] = "approved"
    BY <1>3 DEF QueueForApproval, WithStatus
  <2>2. UNCHANGED <<batch, exec, pc, approvals, attempts>>
    BY <1>3 DEF QueueForApproval
  <2> QED
    BY <2>1, <2>2, NothingNewPermitted DEF Permitted, InBatch
<1>4. ASSUME NEW p \in Plans, AutoExecute(p) PROVE ApprovalsCover'
  <2>1. UNCHANGED <<status, batch, approvals, attempts>> /\ exec'.op = NoOp
    BY <1>4 DEF AutoExecute, IdleExec
  <2> QED
    BY <2>1, NothingNewPermitted DEF Permitted, InBatch
<1>5. CASE StateUnusable \/ (\E p \in Plans : QueueRefused(p)) \/ LoopThrows
           \/ FetchThrows \/ MarkExecutingThrows \/ FinishCycle \/ MarkFailedThrows
           \/ HistoryOfAutoRunThrows
  <2>1. EndCycle /\ UNCHANGED <<status, approvals, attempts>>
    BY <1>5 DEF StateUnusable, LoopThrows, QueueRefused, FetchThrows, MarkExecutingThrows,
                FinishCycle, MarkFailedThrows, HistoryOfAutoRunThrows
  <2> QED
    BY <2>1, EndCycleKeepsBatch, NothingNewPermitted DEF Permitted
<1>6. CASE BeginSteps \/ BeginNothingToRun
  BY <1>6, AttemptIsCovered
<1>7. CASE BeginBlocked \/ StepSucceeds \/ LastStepSucceeds \/ StepFails
           \/ WriteHistoryOfRow \/ HistoryOfRowThrows \/ MarkCompletedThrows
           \/ WriteHistoryOfAutoRun
  <2>1. UNCHANGED <<status, batch, approvals, attempts>> /\ pc' # "begin"
    BY <1>7 DEF BeginBlocked, StepSucceeds, LastStepSucceeds, StepFails, Conclude,
                WriteHistoryOfRow, HistoryOfRowThrows, MarkCompletedThrows,
                WriteHistoryOfAutoRun
  <2> QED
    BY <2>1, NothingNewPermitted DEF Permitted, InBatch
<1>8. CASE FetchApproved
  <2>1. UNCHANGED <<status, approvals, attempts>> /\ pc' # "begin"
    BY <1>8 DEF FetchApproved, Fetch
  <2>2. \A o \in Ops : InBatch(o)' => status[o] = "approved"
    BY <1>8, FetchedBatch DEF InBatch
  <2> QED
    BY <2>1, <2>2, NothingNewPermitted DEF Permitted
<1>9. CASE MarkExecuting
  <2>1. /\ Head(batch) \in Ops /\ Head(batch) = batch[1] /\ 1 \in DOMAIN batch
        /\ batch' = Tail(batch) /\ exec'.op = Head(batch)
        /\ \A o \in Ops : status'[o] = "approved" => status[o] = "approved"
        /\ UNCHANGED <<approvals, attempts>>
    BY <1>9, BatchHead DEF MarkExecuting, IdleExec
  <2>2. \A i \in DOMAIN Tail(batch) : i + 1 \in DOMAIN batch /\ Tail(batch)[i] = batch[i + 1]
    BY <1>9, BatchHead DEF MarkExecuting
  <2>3. \A o \in Ops : InBatch(o)' => InBatch(o)
    BY <2>1, <2>2 DEF InBatch
  <2> QED
    BY <2>1, <2>3, NothingNewPermitted DEF Permitted, InBatch
<1>10. CASE MarkCompleted \/ MarkFailed
  <2>1. PICK s \in {"completed", "failed"} : MarkRow(s)
    BY <1>10 DEF MarkCompleted, MarkFailed
  <2>2. /\ \A o \in Ops : status'[o] = "approved" => status[o] = "approved"
        /\ UNCHANGED <<batch, approvals, attempts>> /\ pc' # "begin"
    BY <2>1 DEF MarkRow
  <2> QED
    BY <2>2, NothingNewPermitted DEF Permitted, InBatch
<1>11. CASE Restart
  <2>1. UNCHANGED <<status, approvals, attempts>> /\ pc' # "begin" /\ batch' = <<>>
    BY <1>11 DEF Restart
  <2> QED
    BY <2>1, NothingNewPermitted DEF Permitted, InBatch
<1>12. CASE Dashboard
  <2>1. UNCHANGED <<batch, exec, pc>>
    BY <1>12 DEF Dashboard, Approve, Reject, Cancel, Retry, UpdateSettings
  <2>2. ASSUME NEW o \in Ops
        PROVE  /\ attempts'[o] = attempts[o]
               /\ \/ /\ approvals'[o] = approvals[o]
                     /\ status'[o] = "approved" => status[o] = "approved"
                  \/ approvals'[o] = approvals[o] + 1
    BY <1>12, DashboardMoves
  <2>3. ASSUME NEW o \in Ops
        PROVE  /\ attempts'[o] <= approvals'[o]
               /\ Permitted(o)' => attempts'[o] < approvals'[o]
    <3>1. attempts[o] \in Nat /\ approvals[o] \in Nat /\ attempts[o] <= approvals[o]
          /\ (Permitted(o) => attempts[o] < approvals[o])
      BY DEF ApprovalsCover
    <3>2. CASE approvals'[o] = approvals[o]
               /\ (status'[o] = "approved" => status[o] = "approved")
      <4>1. Permitted(o)' => Permitted(o)
        BY <2>1, <3>2 DEF Permitted, InBatch
      <4> QED
        BY <2>2, <3>1, <3>2, <4>1
    <3>3. CASE approvals'[o] = approvals[o] + 1
      BY <2>2, <3>1, <3>3
    <3> QED
      BY <2>2, <3>2, <3>3
  <2> QED
    BY <2>3 DEF ApprovalsCover
<1>13. CASE Tick
  <2>1. UNCHANGED <<status, batch, exec, pc, approvals, attempts>>
    BY <1>13 DEF Tick
  <2> QED
    BY <2>1, NothingNewPermitted DEF Permitted, InBatch
<1> QED
  BY <1>1, <1>2, <1>3, <1>4, <1>5, <1>6, <1>7, <1>8, <1>9, <1>10, <1>11, <1>12,
     <1>13 DEF Next, Engine, Loop, ExecutePlan, ProcessApprovedQueue

\* The breaker counts and compares on every path, and lets no step start open.
LEMMA StepKeepsBreaker ==
    ASSUME Inv, Next
    PROVE  BreakerIsFaithful'
<1> USE DEF Inv, BreakerIsFaithful, BreakerOpenExactlyWhenTripped, NoStepBehindOpenBreaker,
            IsRunning
<1>1. CASE UNCHANGED breaker /\ (pc' = "step" => CanExecute(breaker))
  BY <1>1 DEF CanExecute, Tripped
<1>2. CASE BeginSteps
  <2>1. UNCHANGED breaker /\ CanExecute(breaker)
    BY <1>2 DEF BeginSteps, RiskAllows
  <2> QED
    BY <1>1, <2>1
<1>3. CASE BeginNothingToRun \/ LastStepSucceeds
  <2>1. exec.plan.pnl \in Int
    BY <1>3, EngineAssumption DEF BeginNothingToRun, LastStepSucceeds, ExecFollowsPc
  <2>2. CanExecute(breaker)
    BY <1>3 DEF BeginNothingToRun, LastStepSucceeds, RiskAllows, CanExecute
  <2>3. breaker' = RecordSuccess(breaker, exec.plan.pnl) /\ pc' = "history"
    BY <1>3 DEF BeginNothingToRun, LastStepSucceeds, Conclude
  <2>4. breaker \in Breakers /\ Faithful(breaker)
    BY DEF TypeOK, Faithful
  <2>5. Faithful(breaker')
    BY <2>1, <2>2, <2>3, <2>4, RecordSuccessIsFaithful
  <2> QED
    BY <2>3, <2>5 DEF Faithful, Tripped
<1>4. CASE StepFails
  <2>1. breaker \in Breakers /\ Faithful(breaker)
    BY DEF TypeOK, Faithful
  <2>2. breaker' = RecordFailure(breaker) /\ pc' = "history"
    BY <1>4 DEF StepFails, Conclude
  <2>3. Faithful(breaker')
    BY <2>1, <2>2, RecordFailureIsFaithful
  <2> QED
    BY <2>2, <2>3 DEF Faithful, Tripped
<1>5. CASE Restart
  <2>1. ~Tripped(InitialBreaker) /\ ~InitialBreaker.isOpen
    BY RiskAssumption DEF Tripped, InitialBreaker
  <2> QED
    BY <1>5, <2>1 DEF Restart, Tripped
<1>6. CASE StepSucceeds \/ Dashboard \/ Tick
  <2>1. UNCHANGED <<breaker, pc>>
    BY <1>6 DEF StepSucceeds, Dashboard, Approve, Reject, Cancel, Retry, UpdateSettings, Tick
  <2> QED
    BY <1>1, <2>1 DEF CanExecute
<1>7. CASE Loop
  <2>1. UNCHANGED breaker /\ pc' # "step"
    BY <1>7 DEF Loop, LoadSettings, StateUsable, StateUnusable, Evaluate, LoopDone,
              LoopThrows, QueueRefused,
                EndCycle, SkipCooling, Decline, Skip, Handling, QueueForApproval, AutoExecute
  <2> QED
    BY <1>1, <2>1
<1>8. CASE BeginBlocked \/ WriteHistoryOfRow \/ WriteHistoryOfAutoRun
           \/ HistoryOfRowThrows \/ HistoryOfAutoRunThrows
  <2>1. UNCHANGED breaker /\ pc' # "step"
    BY <1>8 DEF BeginBlocked, Conclude, WriteHistoryOfRow, WriteHistoryOfAutoRun,
                HistoryOfRowThrows, HistoryOfAutoRunThrows, EndCycle
  <2> QED
    BY <1>1, <2>1
<1>9. CASE ProcessApprovedQueue
  <2>1. UNCHANGED breaker /\ pc' # "step"
    BY <1>9 DEF ProcessApprovedQueue, FetchApproved, Fetch, FetchThrows, MarkExecuting,
                MarkExecutingThrows, FinishCycle, MarkCompleted, MarkFailed, MarkRow,
                MarkCompletedThrows, MarkFailedThrows, EndCycle
  <2> QED
    BY <1>1, <2>1
<1> QED
  BY <1>2, <1>3, <1>4, <1>5, <1>6, <1>7, <1>8, <1>9 DEF Next, Engine, ExecutePlan

\* Only an exception or a restart makes a row fail, or leaves it executing.
LEMMA StepKeepsVerdicts ==
    ASSUME Inv, Next, TypeOK'
    PROVE  VerdictsAreEarned'
<1> USE EngineAssumption DEF Inv, TypeOK, VerdictsAreEarned, NoOrphanWithoutFault,
                             FailedOnlyByFault, WithStatus
<1> SUFFICES ASSUME faults' = 0
             PROVE  /\ \A o \in Ops : /\ status'[o] = "executing" => exec'.op = o
                                      /\ status'[o] # "failed"
                    /\ pc' # "failed"
  <2>1. faults' = 0 \/ faults' > 0
    OBVIOUS
  <2> QED
    BY <2>1
<1>1. faults = 0 => /\ \A o \in Ops : /\ status[o] = "executing" => exec.op = o
                                     /\ status[o] # "failed"
                    /\ pc # "failed"
  OBVIOUS
<1>2. ~Fault
  BY DEF Fault
<1>3. CASE Loop
  <2>1. faults = 0
    BY <1>2, <1>3 DEF Loop, LoadSettings, StateUsable, StateUnusable, Evaluate, LoopDone,
                      LoopThrows, QueueRefused, SkipCooling, Decline, Skip,
                      QueueForApproval, AutoExecute
  <2>2. exec = IdleExec /\ pc' # "failed"
    BY <1>3 DEF Loop, LoadSettings, StateUsable, StateUnusable, Evaluate, LoopDone,
                LoopThrows, QueueRefused, EndCycle, SkipCooling, Decline, Skip, Handling,
                QueueForApproval, AutoExecute, ExecFollowsPc, Between
  <2>3. \A o \in Ops : status'[o] = status[o] \/ status'[o] = "pending"
    BY <1>3 DEF Loop, LoadSettings, StateUsable, StateUnusable, Evaluate, LoopDone,
                LoopThrows, QueueRefused, SkipCooling, Decline, Skip,
                QueueForApproval, AutoExecute
  <2> QED
    BY <1>1, <2>1, <2>2, <2>3 DEF IdleExec
<1>4. CASE ExecutePlan
  <2>1. faults = 0 /\ UNCHANGED status /\ pc' # "failed"
    BY <1>2, <1>4 DEF ExecutePlan, BeginBlocked, BeginSteps, BeginNothingToRun, Conclude,
                      StepSucceeds, LastStepSucceeds, StepFails, WriteHistoryOfRow,
                      WriteHistoryOfAutoRun, HistoryOfRowThrows, HistoryOfAutoRunThrows
  <2>2. exec.op \in Ops => exec'.op = exec.op
    BY <1>2, <1>4 DEF ExecutePlan, BeginBlocked, BeginSteps, BeginNothingToRun, Conclude,
                      StepSucceeds, LastStepSucceeds, StepFails, WriteHistoryOfRow,
                      WriteHistoryOfAutoRun, HistoryOfRowThrows, HistoryOfAutoRunThrows
  <2> QED
    BY <1>1, <2>1, <2>2
<1>5. CASE FetchApproved \/ FinishCycle
  BY <1>1, <1>5 DEF FetchApproved, Fetch, FinishCycle, EndCycle, ExecFollowsPc, Between
<1>6. CASE MarkExecuting
  <2>1. Head(batch) \in Ops /\ exec = IdleExec
    BY <1>6, BatchHead DEF MarkExecuting, ExecFollowsPc, Between
  <2>2. /\ faults = 0 /\ pc' # "failed" /\ exec'.op = Head(batch)
        /\ status' = [status EXCEPT ![Head(batch)] = "executing"]
    BY <1>6 DEF MarkExecuting, IdleExec
  <2> QED
    BY <1>1, <2>1, <2>2 DEF IdleExec
<1>7. CASE MarkCompleted
  BY <1>1, <1>7 DEF MarkCompleted, MarkRow, ExecFollowsPc
<1>8. CASE Dashboard
  <2>1. faults = 0 /\ UNCHANGED <<exec, pc>>
    BY <1>8 DEF Dashboard, Approve, Reject, Cancel, Retry, UpdateSettings
  <2>2. \A o \in Ops : \/ status'[o] = status[o]
                       \/ status'[o] \in {"approved", "rejected", "cancelled", "pending"}
    BY <1>8, DashboardMoves
  <2> QED
    BY <1>1, <2>1, <2>2
<1>9. CASE Tick
  BY <1>1, <1>9 DEF Tick
<1>10. ~MarkFailed
  BY <1>1 DEF MarkFailed, MarkRow
<1> QED
  BY <1>2, <1>3, <1>4, <1>5, <1>6, <1>7, <1>8, <1>9, <1>10
     DEF Next, Engine, ProcessApprovedQueue, Restart, FetchThrows, MarkExecutingThrows,
         MarkCompletedThrows, MarkFailedThrows

\* As long as nothing goes wrong the two clocks are reset together.
LEMMA StepKeepsClocks ==
    ASSUME Inv, Next
    PROVE  ClocksAgree'
<1> SUFFICES ASSUME faults' = 0
             PROVE  age' = sinceAuto'
  BY DEF ClocksAgree
<1> USE DEF Inv, TypeOK, ClocksAgree
<1>1. ~Fault
  BY EngineAssumption DEF Fault
<1>2. CASE Loop
  BY <1>1, <1>2 DEF Loop, LoadSettings, StateUsable, StateUnusable, Evaluate, LoopDone,
                    LoopThrows, QueueRefused, SkipCooling, Decline, Skip,
                    QueueForApproval, AutoExecute
<1>3. CASE ExecutePlan
  BY <1>1, <1>3 DEF ExecutePlan, BeginBlocked, BeginSteps, BeginNothingToRun,
                    StepSucceeds, LastStepSucceeds, StepFails, WriteHistoryOfRow,
                    WriteHistoryOfAutoRun, StartCooldown, AutoRunOver,
                    HistoryOfRowThrows, HistoryOfAutoRunThrows
<1>4. CASE ProcessApprovedQueue
  BY <1>1, <1>4 DEF ProcessApprovedQueue, FetchApproved, Fetch, FetchThrows, MarkExecuting,
                    MarkExecutingThrows, FinishCycle, MarkCompleted, MarkFailed, MarkRow,
                    MarkCompletedThrows, MarkFailedThrows
<1>5. CASE Dashboard \/ Tick
  BY <1>5 DEF Dashboard, Approve, Reject, Cancel, Retry, UpdateSettings, Tick
<1> QED
  BY <1>1, <1>2, <1>3, <1>4, <1>5 DEF Next, Engine, Restart

-------------------------------------------------------------------------------
(***************************************************************************)
(* The invariant, and what it gives.                                       *)
(***************************************************************************)
LEMMA InitEstablishesInv == Init => Inv
<1> SUFFICES ASSUME Init PROVE Inv
  OBVIOUS
<1> USE EngineAssumption DEF Init
<1>1. TypeOK
  <2>1. exec \in [plan : Plans \cup {NoPlan}, op : Ops \cup {NoOp},
                  step : Nat, verdict : Verdicts]
    BY DEF IdleExec, Verdicts
  <2>2. breaker \in Breakers
    BY DEF InitialBreaker, Breakers
  <2>3. batch \in Seq(Ops)
    OBVIOUS
  <2>4. age \in [Keys -> 0..AgeCap] /\ sinceAuto \in [Keys -> 0..AgeCap]
    OBVIOUS
  <2>5. /\ status \in [Ops -> Statuses] /\ lastResult \in [Ops -> Verdicts]
        /\ planOf \in [Ops -> Plans \cup {NoPlan}]
        /\ approvals \in [Ops -> Nat] /\ attempts \in [Ops -> Nat]
    BY DEF Statuses, Verdicts
  <2>6. settings \in SettingsRows \cup {NoRow} /\ pc \in Points
    BY DEF Points
  <2>7. auto \in BOOLEAN /\ manual \in BOOLEAN
    OBVIOUS
  <2>8. cooldown \in Nat /\ todo \subseteq Plans /\ queued \in Nat /\ faults \in 0..MaxFaults
    OBVIOUS
  <2> QED
    BY <2>1, <2>2, <2>3, <2>4, <2>5, <2>6, <2>7, <2>8 DEF TypeOK
<1>2. ExecFollowsPc /\ RowsArePlanned /\ BatchWasApproved
  BY DEF ExecFollowsPc, Between, RowsArePlanned, BatchWasApproved, IdleExec
<1>3. ApprovalsCover
  BY DEF ApprovalsCover, Permitted, InBatch, IdleExec
<1>4. BreakerIsFaithful
  BY RiskAssumption DEF BreakerIsFaithful, BreakerOpenExactlyWhenTripped, Tripped,
                        InitialBreaker, NoStepBehindOpenBreaker, IsRunning
<1>5. VerdictsAreEarned /\ ClocksAgree
  BY DEF VerdictsAreEarned, NoOrphanWithoutFault, FailedOnlyByFault, WithStatus, ClocksAgree
<1> QED
  BY <1>1, <1>2, <1>3, <1>4, <1>5 DEF Inv

LEMMA StutterKeepsInv == Inv /\ UNCHANGED vars => Inv'
<1> SUFFICES ASSUME Inv, UNCHANGED vars PROVE Inv'
  OBVIOUS
<1> USE DEF vars, Inv
<1>1. TypeOK'
  BY DEF TypeOK
<1>2. (ExecFollowsPc /\ RowsArePlanned /\ BatchWasApproved /\ ClocksAgree)'
  BY DEF ExecFollowsPc, RowsArePlanned, BatchWasApproved, ClocksAgree
<1>3. ApprovalsCover'
  BY DEF ApprovalsCover, Permitted, InBatch
<1>4. BreakerIsFaithful'
  BY DEF BreakerIsFaithful, BreakerOpenExactlyWhenTripped, Tripped,
         NoStepBehindOpenBreaker, IsRunning
<1>5. VerdictsAreEarned'
  BY DEF VerdictsAreEarned, NoOrphanWithoutFault, FailedOnlyByFault, WithStatus
<1> QED
  BY <1>1, <1>2, <1>3, <1>4, <1>5

\* Inv holds in every reachable state of the engine, the queue and the dashboard.
THEOREM Invariance == Spec => []Inv
<1>1. ASSUME Inv, Next PROVE Inv'
  <2>1. TypeOK'
    BY <1>1, LoopKeepsType, ExecutePlanKeepsType, ProcessApprovedQueueKeepsType,
       EnvironmentKeepsType DEF Next, Engine
  <2>2. (ExecFollowsPc /\ RowsArePlanned /\ BatchWasApproved /\ ApprovalsCover)'
    BY <1>1, StepKeepsExec, StepKeepsPlans, StepKeepsBatch, StepKeepsCover
  <2>3. (BreakerIsFaithful /\ VerdictsAreEarned /\ ClocksAgree)'
    BY <1>1, <2>1, StepKeepsBreaker, StepKeepsVerdicts, StepKeepsClocks
  <2> QED
    BY <2>1, <2>2, <2>3 DEF Inv
<1>2. Inv /\ [Next]_vars => Inv'
  BY <1>1, StutterKeepsInv
<1> QED
  BY InitEstablishesInv, <1>2, PTL DEF Spec

\* Every variable keeps its type: in particular executePlan never gets a row
\* without a plan, and the breaker's counters never go below zero.
THEOREM TypeCorrect == Spec => []TypeOK
BY Invariance, PTL DEF Inv

\* One approval buys at most one run (engine.queue.ts, the queue route).
THEOREM ApprovalsAreSpentOnce == Spec => []OneAttemptPerApproval
<1>1. Inv => OneAttemptPerApproval
  BY DEF Inv, ApprovalsCover, OneAttemptPerApproval
<1> QED
  BY <1>1, Invariance, PTL

\* A row is orphaned in "executing" only by an exception or a restart.
THEOREM OrphansComeFromFaults == Spec => []NoOrphanWithoutFault
<1>1. Inv => NoOrphanWithoutFault
  BY DEF Inv, VerdictsAreEarned
<1> QED
  BY <1>1, Invariance, PTL

\* No verdict of executePlan makes a row "failed".
THEOREM FailuresComeFromFaults == Spec => []FailedOnlyByFault
<1>1. Inv => FailedOnlyByFault
  BY DEF Inv, VerdictsAreEarned
<1> QED
  BY <1>1, Invariance, PTL

\* The breaker is open exactly when a threshold is reached (circuitBreaker.ts).
THEOREM BreakerMatchesThresholds == Spec => []BreakerOpenExactlyWhenTripped
<1>1. Inv => BreakerOpenExactlyWhenTripped
  BY DEF Inv, BreakerIsFaithful
<1> QED
  BY <1>1, Invariance, PTL

\* No venue call is made behind an open breaker (executePlan).
THEOREM OpenBreakerStopsSteps == Spec => []NoStepBehindOpenBreaker
<1>1. Inv => NoStepBehindOpenBreaker
  BY DEF Inv, BreakerIsFaithful
<1> QED
  BY <1>1, Invariance, PTL

\* A cancellation is overridden only for a row already fetched, a rejection and a
\* completion never (the unconditional update of processApprovedQueue).
THEOREM CancelIsFinalOutsideBatch == Spec => CancelOverriddenOnlyInBatch
<1> DEFINE Kept(o) ==
      /\ status[o] \in {"rejected", "completed"} => status'[o] = status[o]
      /\ status[o] = "cancelled" /\ status'[o] # "cancelled" => InBatch(o)
<1>1. ASSUME Inv, Next, NEW o \in Ops PROVE Kept(o)
  <2> USE <1>1 DEF Inv, TypeOK
  <2>1. CASE RowsUntouched
    BY <2>1 DEF RowsUntouched
  <2>2. ASSUME NEW p \in Plans, QueueForApproval(p) PROVE Kept(o)
    <3>1. status'[o] = status[o] \/ status[o] = "absent"
      BY <2>2 DEF QueueForApproval, WithStatus
    <3> QED
      BY <3>1
  <2>3. CASE MarkExecuting
    <3>1. Head(batch) \in Ops /\ InBatch(Head(batch))
          /\ status[Head(batch)] \in {"approved", "cancelled"}
      BY <2>3, BatchHead DEF MarkExecuting, InBatch, BatchWasApproved
    <3>2. status' = [status EXCEPT ![Head(batch)] = "executing"]
      BY <2>3 DEF MarkExecuting
    <3>3. CASE o = Head(batch)
      BY <3>1, <3>3
    <3>4. CASE o # Head(batch)
      BY <3>2, <3>4
    <3> QED
      BY <3>3, <3>4
  <2>4. CASE MarkCompleted \/ MarkFailed
    <3>1. PICK s \in {"completed", "failed"} : MarkRow(s)
      BY <2>4 DEF MarkCompleted, MarkFailed
    <3>2. exec.op \in Ops /\ status[exec.op] = "executing"
      BY <2>4 DEF MarkCompleted, MarkFailed, ExecFollowsPc, BatchWasApproved
    <3> QED
      BY <3>1, <3>2 DEF MarkRow
  <2>5. CASE Dashboard
    BY <2>5, DashboardMoves
  <2> QED
    BY <2>1, <2>2, <2>3, <2>4, <2>5, OnlyQueueStepsTouchRows
<1>2. Inv /\ [Next]_vars => [\A o \in Ops : Kept(o)]_vars
  BY <1>1
<1> QED
  BY <1>2, Invariance, PTL DEF Spec, CancelOverriddenOnlyInBatch

\* Runs of one opportunity from the loop are spaced by the cooldown, while nothing
\* goes wrong (runCycle, lastExecutionByKey).
THEOREM CooldownSpacesAutoRuns == Spec => AutoRunsAreSpaced
<1> DEFINE Spaced ==
      StartsAutoRun /\ faults = 0 => sinceAuto[exec'.plan.key] >= cooldown
<1>1. ASSUME Inv, Next, StartsAutoRun PROVE \E p \in Plans : AutoExecute(p)
  <2> USE <1>1, EngineAssumption DEF Inv, TypeOK, StartsAutoRun
  <2>1. exec = IdleExec /\ exec' # IdleExec /\ exec'.op = NoOp
    BY DEF IdleExec
  <2>2. ~ExecutePlan
    <3>1. exec.plan \notin Plans
      BY <2>1 DEF IdleExec
    <3> QED
      BY <2>1, <3>1 DEF ExecFollowsPc, ExecutePlan, BeginBlocked, BeginSteps,
          BeginNothingToRun, StepSucceeds, LastStepSucceeds, StepFails, WriteHistoryOfRow,
          WriteHistoryOfAutoRun, HistoryOfRowThrows, HistoryOfAutoRunThrows
  <2>3. ~ProcessApprovedQueue
    <3>1. ~MarkExecuting
      BY <2>1, BatchHead DEF MarkExecuting
    <3> QED
      BY <2>1, <3>1 DEF ProcessApprovedQueue, FetchApproved, Fetch, FetchThrows,
          MarkExecutingThrows, FinishCycle, MarkCompleted, MarkFailed, MarkRow,
          MarkCompletedThrows, MarkFailedThrows, EndCycle
  <2>4. ~Restart /\ ~Dashboard /\ ~Tick
    BY <2>1 DEF Restart, Dashboard, Approve, Reject, Cancel, Retry, UpdateSettings, Tick
  <2>5. Loop
    BY <2>2, <2>3, <2>4 DEF Next, Engine
  <2> QED
    BY <2>1, <2>5 DEF Loop, LoadSettings, StateUsable, StateUnusable, Evaluate, LoopDone,
                      LoopThrows, QueueRefused, EndCycle, SkipCooling, Decline, Skip,
                      QueueForApproval
<1>2. ASSUME Inv, NEW p \in Plans, AutoExecute(p) PROVE Spaced
  <2>1. exec'.plan = p /\ ~(age[p.key] < cooldown)
    BY <1>2 DEF AutoExecute, CoolingDown, IdleExec
  <2>2. age[p.key] \in Int /\ cooldown \in Int
    BY <1>2, EngineAssumption DEF Inv, TypeOK
  <2> QED
    BY <1>2, <2>1, <2>2 DEF Inv, ClocksAgree
<1>3. Inv /\ [Next]_vars => [Spaced]_vars
  BY <1>1, <1>2
<1> QED
  BY <1>3, Invariance, PTL DEF Spec, AutoRunsAreSpaced

-----------------------------------------------------------------------------
(***************************************************************************)
(* BridgeEngine implements OperationLifecycle: the initial state maps to   *)
(* an initial state, and every step to a step of the lifecycle or to none. *)
(*                                                                         *)
(* What makes the mapping work is in Inv: a row of the batch is approved   *)
(* or cancelled, and the row being executed is not in the batch.           *)
(***************************************************************************)

Image == [o \in Ops |-> Phase(o)]

\* A row's phase, where Inv holds: the three cases of Phase exclude each other.
LEMMA PhaseCases ==
    ASSUME Inv, NEW o \in Ops
    PROVE  /\ Image[o] = Phase(o)
           /\ exec.op # o => Phase(o) # "running"
           /\ exec.op = o => /\ Phase(o) = "running" /\ ~InBatch(o)
                             /\ status[o] = "executing"
           /\ InBatch(o) => /\ Phase(o) = "permitted" /\ exec.op # o
                            /\ status[o] \in {"approved", "cancelled"}
           /\ exec.op # o /\ ~InBatch(o) =>
                /\ status[o] = "absent" => Phase(o) = "unborn"
                /\ status[o] = "pending" => Phase(o) = "waiting"
                /\ status[o] = "approved" => Phase(o) = "permitted"
                /\ status[o] = "executing" => Phase(o) = "lost"
                /\ status[o] = "completed" => Phase(o) = "done"
                /\ status[o] = "failed" => Phase(o) = "failed"
                /\ status[o] \in {"rejected", "cancelled"} => Phase(o) = "withdrawn"
<1>1. exec.op = o => status[o] = "executing"
  BY DEF Inv, BatchWasApproved
<1>2. InBatch(o) => status[o] \in {"approved", "cancelled"}
  BY DEF Inv, BatchWasApproved, InBatch
<1>3. status[o] \in Statuses
  BY DEF Inv, TypeOK
<1> QED
  BY <1>1, <1>2, <1>3 DEF Image, Phase, PhaseOfStatus, Statuses

\* The same, for the state after a step.
LEMMA PhaseCasesAfter ==
    ASSUME Inv', NEW o \in Ops
    PROVE  /\ Image'[o] = Phase(o)'
           /\ exec'.op = o => /\ Phase(o)' = "running" /\ ~InBatch(o)'
                              /\ status'[o] = "executing"
           /\ InBatch(o)' => /\ Phase(o)' = "permitted" /\ exec'.op # o
                             /\ status'[o] \in {"approved", "cancelled"}
           /\ exec'.op # o /\ ~InBatch(o)' =>
                /\ status'[o] = "absent" => Phase(o)' = "unborn"
                /\ status'[o] = "pending" => Phase(o)' = "waiting"
                /\ status'[o] = "approved" => Phase(o)' = "permitted"
                /\ status'[o] = "executing" => Phase(o)' = "lost"
                /\ status'[o] = "completed" => Phase(o)' = "done"
                /\ status'[o] = "failed" => Phase(o)' = "failed"
                /\ status'[o] \in {"rejected", "cancelled"} => Phase(o)' = "withdrawn"
<1>1. exec'.op = o => status'[o] = "executing"
  BY DEF Inv, BatchWasApproved
<1>2. InBatch(o)' => status'[o] \in {"approved", "cancelled"}
  BY DEF Inv, BatchWasApproved, InBatch
<1> QED
  BY <1>1, <1>2 DEF Image, Phase, PhaseOfStatus

\* A step that moves no row, and changes neither the batch nor the row being
\* executed, is not a step of the lifecycle.
LEMMA NothingMoves ==
    ASSUME UNCHANGED <<status, batch>>, exec'.op = exec.op
    PROVE  Image' = Image
BY DEF Image, Phase, InBatch, PhaseOfStatus

\* Giving up the batch and the call in progress, and fetching another batch of
\* approved rows, is Abort: the rows cancelled after they were fetched are withdrawn.
LEMMA BatchGivenUp ==
    ASSUME Inv, Inv', UNCHANGED status, exec'.op = NoOp,
           \A o \in Ops : InBatch(o)' => status[o] = "approved"
    PROVE  Lifecycle!Next
<1> DEFINE W == {o \in Ops : InBatch(o) /\ status[o] = "cancelled" /\ ~InBatch(o)'}
<1>1. W \subseteq Lifecycle!InPhase("permitted")
  BY PhaseCases DEF Lifecycle!InPhase, Image
<1>2. ASSUME NEW o \in Ops
      PROVE  Phase(o)' = CASE Phase(o) = "running" -> "lost"
                           [] o \in W              -> "withdrawn"
                           [] OTHER                -> Phase(o)
  <2>1. exec'.op # o
    BY EngineAssumption
  <2>2. CASE exec.op = o
    <3>1. Phase(o) = "running" /\ status'[o] = "executing"
      BY <2>2, PhaseCases
    <3>2. Phase(o)' = "lost"
      BY <2>1, <3>1, PhaseCasesAfter
    <3> QED
      BY <3>1, <3>2
  <2>3. CASE exec.op # o /\ InBatch(o)
    <3>1. Phase(o) = "permitted" /\ status[o] \in {"approved", "cancelled"}
      BY <2>3, PhaseCases
    <3>2. CASE status[o] = "approved"
      BY <2>1, <3>1, <3>2, PhaseCasesAfter
    <3>3. CASE status[o] = "cancelled"
      BY <2>1, <2>3, <3>1, <3>3, PhaseCasesAfter
    <3> QED
      BY <3>1, <3>2, <3>3
  <2>4. CASE exec.op # o /\ ~InBatch(o)
    <3>1. Phase(o) # "running" /\ o \notin W
      BY <2>4 DEF Phase, PhaseOfStatus, Inv, TypeOK, Statuses
    <3>2. CASE InBatch(o)'
      BY <2>1, <2>4, <3>1, <3>2, PhaseCases, PhaseCasesAfter
    <3>3. CASE ~InBatch(o)'
      BY <2>1, <2>4, <3>1, <3>3 DEF Phase, PhaseOfStatus
    <3> QED
      BY <3>2, <3>3
  <2> QED
    BY <2>2, <2>3, <2>4
<1>3. Lifecycle!Abort(W)
  BY <1>1, <1>2 DEF Lifecycle!Abort
<1>4. W \in SUBSET Ops
  OBVIOUS
<1> QED
  BY <1>3, <1>4 DEF Lifecycle!Next

\* The engine moves one row, o, and takes it out of the batch or leaves it out.
LEMMA OneRowMoves ==
    ASSUME NEW o \in Ops,
           \A other \in Ops \ {o} : /\ status'[other] = status[other]
                                    /\ InBatch(other)' <=> InBatch(other)
                                    /\ exec'.op = other <=> exec.op = other
    PROVE  Lifecycle!Move({o}, Phase(o)')
<1>1. ASSUME NEW other \in Ops \ {o} PROVE Phase(other)' = Phase(other)
  <2>1. CASE exec.op = other
    BY <1>1, <2>1 DEF Phase
  <2>2. CASE exec.op # other /\ InBatch(other)
    BY <1>1, <2>2 DEF Phase
  <2>3. CASE exec.op # other /\ ~InBatch(other)
    BY <1>1, <2>3 DEF Phase, PhaseOfStatus
  <2> QED
    BY <2>1, <2>2, <2>3
<1> QED
  BY <1>1 DEF Lifecycle!Move

LEMMA QueueForApprovalSubmits ==
    ASSUME Inv, Inv', NEW p \in Plans, QueueForApproval(p)
    PROVE  Lifecycle!Next
<1>1. PICK o \in Ops : status[o] = "absent" /\ status' = [status EXCEPT ![o] = "pending"]
  BY DEF QueueForApproval, WithStatus
<1>2. UNCHANGED <<batch, exec>>
  BY DEF QueueForApproval
<1>3. Phase(o) = "unborn"
  BY <1>1, PhaseCases
<1>4. ~InBatch(o) /\ exec.op # o
  BY <1>1, PhaseCases
<1>5. Phase(o)' = "waiting"
  <2>1. status'[o] = "pending"
    BY <1>1 DEF Inv, TypeOK
  <2> QED
    BY <1>2, <1>4, <2>1, PhaseCasesAfter DEF InBatch
<1>6. Lifecycle!Move({o}, Phase(o)')
  BY <1>1, <1>2, OneRowMoves DEF InBatch, Inv, TypeOK
<1> QED
  BY <1>3, <1>5, <1>6 DEF Lifecycle!Next, Lifecycle!Submit

\* Taking the first row out of a batch loses no other row.
LEMMA BatchTail ==
    ASSUME batch \in Seq(Ops), batch # <<>>, NEW i \in DOMAIN batch, i # 1
    PROVE  i - 1 \in DOMAIN Tail(batch) /\ Tail(batch)[i - 1] = batch[i]
<1>1. Len(batch) \in Nat /\ Len(batch) # 0 /\ DOMAIN batch = 1..Len(batch)
  OBVIOUS
<1>2. Len(Tail(batch)) = Len(batch) - 1 /\ DOMAIN Tail(batch) = 1..Len(Tail(batch))
  BY <1>1
<1>3. i - 1 \in 1..(Len(batch) - 1)
  BY <1>1
<1> QED
  BY <1>1, <1>2, <1>3

LEMMA MarkExecutingRuns ==
    ASSUME Inv, Inv', MarkExecuting
    PROVE  Lifecycle!Next
<1>0. PICK o \in Ops : o = Head(batch)
  BY BatchHead DEF MarkExecuting, Inv, TypeOK
<1>1. /\ o \in Ops /\ o = batch[1] /\ 1 \in DOMAIN batch
      /\ exec = IdleExec /\ exec'.op = o /\ batch' = Tail(batch)
      /\ status' = [status EXCEPT ![o] = "executing"]
  BY <1>0, BatchHead DEF MarkExecuting, IdleExec, Inv, TypeOK, ExecFollowsPc, Between
<1>2. Phase(o) = "permitted"
  BY <1>1, PhaseCases DEF InBatch
<1>3. Lifecycle!InPhase("running") = {}
  <2>1. \A r \in Ops : exec.op # r
    BY <1>1, EngineAssumption DEF IdleExec
  <2>2. \A r \in Ops : Phase(r) # "running"
    BY <2>1, PhaseCases
  <2> QED
    BY <2>2 DEF Lifecycle!InPhase
<1>4. Phase(o)' = "running"
  BY <1>1, PhaseCasesAfter
<1>5. ASSUME NEW other \in Ops \ {o} PROVE InBatch(other)' <=> InBatch(other)
  <2>1. InBatch(other)' => InBatch(other)
    BY <1>1, BatchHead DEF InBatch, MarkExecuting, Inv, TypeOK
  <2>2. InBatch(other) => InBatch(other)'
    <3> SUFFICES ASSUME NEW i \in DOMAIN batch, batch[i] = other
                 PROVE  \E j \in DOMAIN Tail(batch) : Tail(batch)[j] = other
      BY <1>1 DEF InBatch
    <3>1. i # 1
      BY <1>1, <1>5
    <3> QED
      BY <3>1, BatchTail DEF MarkExecuting, Inv, TypeOK
  <2> QED
    BY <2>1, <2>2 DEF InBatch
<1>6. Lifecycle!Move({o}, Phase(o)')
  <2>1. \A other \in Ops \ {o} : /\ status'[other] = status[other]
                                 /\ exec'.op = other <=> exec.op = other
    BY <1>1, EngineAssumption DEF Inv, TypeOK, IdleExec
  <2> QED
    BY <1>1, <1>5, <2>1, OneRowMoves
<1>7. Lifecycle!Run(o)
  BY <1>1, <1>2, <1>3, <1>4, <1>6 DEF Lifecycle!Run
<1> QED
  BY <1>1, <1>7 DEF Lifecycle!Next

LEMMA MarkRowSettles ==
    ASSUME Inv, Inv', MarkCompleted \/ MarkFailed
    PROVE  Lifecycle!Next
<1>0. PICK o \in Ops : o = exec.op
  BY DEF MarkCompleted, MarkFailed, Inv, ExecFollowsPc
<1>1. PICK s \in {"completed", "failed"} : MarkRow(s)
  BY DEF MarkCompleted, MarkFailed
<1>3. Phase(o) = "running" /\ ~InBatch(o)
  BY <1>0, PhaseCases
<1>4. status' = [status EXCEPT ![o] = s] /\ exec'.op = NoOp /\ UNCHANGED batch
  BY <1>0, <1>1 DEF MarkRow, IdleExec
<1>5. Phase(o)' \in {"done", "failed"}
  <2>1. status'[o] = s /\ exec'.op # o /\ ~InBatch(o)'
    BY <1>0, <1>3, <1>4, EngineAssumption DEF Inv, TypeOK, InBatch
  <2> QED
    BY <1>0, <2>1, PhaseCasesAfter
<1>6. Lifecycle!Move({o}, Phase(o)')
  <2>1. \A other \in Ops \ {o} : /\ status'[other] = status[other]
                                 /\ InBatch(other)' <=> InBatch(other)
                                 /\ exec'.op = other <=> exec.op = other
    BY <1>0, <1>4, EngineAssumption DEF Inv, TypeOK, InBatch
  <2> QED
    BY <1>0, <2>1, OneRowMoves
<1>7. Lifecycle!Settle(o)
  BY <1>3, <1>5, <1>6 DEF Lifecycle!Settle
<1> QED
  BY <1>0, <1>7 DEF Lifecycle!Next

\* The dashboard moves the rows of S to one phase; another row keeps its status
\* unless it is in the batch, where its phase does not depend on it.
LEMMA RowsMove ==
    ASSUME Inv, Inv', UNCHANGED <<batch, exec>>, NEW S \in SUBSET Ops, NEW q,
           \A o \in S : Phase(o)' = q,
           \A o \in Ops \ S : status'[o] = status[o] \/ InBatch(o)
    PROVE  Lifecycle!Move(S, q)
<1>1. ASSUME NEW o \in Ops \ S PROVE Phase(o)' = Phase(o)
  <2>1. InBatch(o)' <=> InBatch(o)
    BY DEF InBatch
  <2>2. CASE InBatch(o)
    BY <2>1, <2>2, PhaseCases, PhaseCasesAfter
  <2>3. CASE ~InBatch(o)
    <3>1. status'[o] = status[o]
      BY <2>3
    <3>2. CASE exec.op = o
      BY <3>2 DEF Phase, InBatch
    <3>3. CASE exec.op # o
      BY <2>1, <2>3, <3>1, <3>3 DEF Phase, PhaseOfStatus, InBatch
    <3> QED
      BY <3>2, <3>3
  <2> QED
    BY <2>2, <2>3
<1> QED
  BY <1>1 DEF Lifecycle!Move

LEMMA DashboardMovesPhases ==
    ASSUME Inv, Inv', Dashboard
    PROVE  Lifecycle!Next \/ UNCHANGED Image
<1>0. UNCHANGED <<batch, exec>>
  BY DEF Dashboard, Approve, Reject, Cancel, Retry, UpdateSettings
<1>1. ASSUME NEW ids \in SUBSET Ops, Approve(ids) PROVE Lifecycle!Next
  <2> DEFINE S == {o \in ids : status[o] = "pending"}
  <2>1. \A o \in S : Phase(o) = "waiting" /\ ~InBatch(o) /\ exec.op # o
    BY PhaseCases
  <2>2. ASSUME NEW o \in S PROVE Phase(o)' = "permitted"
    <3>1. status'[o] = "approved" /\ ~InBatch(o)' /\ exec'.op # o
      BY <1>0, <1>1, <2>1 DEF Approve, UpdateMany, InBatch
    <3> QED
      BY <3>1, PhaseCasesAfter
  <2>3. \A o \in Ops \ S : status'[o] = status[o]
    BY <1>1 DEF Approve, UpdateMany
  <2>4. Lifecycle!Move(S, "permitted")
    <3> HIDE DEF S
    <3>1. S \in SUBSET Ops
      BY DEF S
    <3> QED
      BY <1>0, <2>2, <2>3, <3>1, RowsMove
  <2>5. Lifecycle!Permit(S)
    BY <2>1, <2>4 DEF Lifecycle!Permit, Lifecycle!InPhase, Image
  <2> QED
    BY <2>5 DEF Lifecycle!Next
<1>2. ASSUME NEW ids \in SUBSET Ops, Reject(ids) PROVE Lifecycle!Next
  <2> DEFINE S == {o \in ids : status[o] = "pending"}
  <2>1. \A o \in S : Phase(o) = "waiting" /\ ~InBatch(o) /\ exec.op # o
    BY PhaseCases
  <2>2. ASSUME NEW o \in S PROVE Phase(o)' = "withdrawn"
    <3>1. status'[o] = "rejected" /\ ~InBatch(o)' /\ exec'.op # o
      BY <1>0, <1>2, <2>1 DEF Reject, UpdateMany, InBatch
    <3> QED
      BY <3>1, PhaseCasesAfter
  <2>3. \A o \in Ops \ S : status'[o] = status[o]
    BY <1>2 DEF Reject, UpdateMany
  <2>4. Lifecycle!Move(S, "withdrawn")
    <3> HIDE DEF S
    <3>1. S \in SUBSET Ops
      BY DEF S
    <3> QED
      BY <1>0, <2>2, <2>3, <3>1, RowsMove
  <2>5. Lifecycle!Withdraw(S)
    BY <2>1, <2>4 DEF Lifecycle!Withdraw, Lifecycle!InPhase, Image
  <2> QED
    BY <2>5 DEF Lifecycle!Next
<1>3. ASSUME NEW ids \in SUBSET Ops, Cancel(ids) PROVE Lifecycle!Next
  <2> DEFINE S == {o \in ids : status[o] \in {"pending", "approved"} /\ ~InBatch(o)}
  <2>1. \A o \in S : Phase(o) \in {"waiting", "permitted"} /\ ~InBatch(o) /\ exec.op # o
    BY PhaseCases
  <2>2. ASSUME NEW o \in S PROVE Phase(o)' = "withdrawn"
    <3>1. status'[o] = "cancelled" /\ ~InBatch(o)' /\ exec'.op # o
      BY <1>0, <1>3, <2>1 DEF Cancel, UpdateMany, InBatch
    <3> QED
      BY <3>1, PhaseCasesAfter
  <2>3. \A o \in Ops \ S : status'[o] = status[o] \/ InBatch(o)
    BY <1>3 DEF Cancel, UpdateMany
  <2>4. Lifecycle!Move(S, "withdrawn")
    <3> HIDE DEF S
    <3>1. S \in SUBSET Ops
      BY DEF S
    <3> QED
      BY <1>0, <2>2, <2>3, <3>1, RowsMove
  <2>5. Lifecycle!Withdraw(S)
    BY <2>1, <2>4 DEF Lifecycle!Withdraw, Lifecycle!InPhase, Image
  <2> QED
    BY <2>5 DEF Lifecycle!Next
<1>4. ASSUME NEW ids \in SUBSET Ops, Retry(ids) PROVE Lifecycle!Next
  <2> DEFINE S == {o \in ids : status[o] = "failed"}
  <2>1. \A o \in S : Phase(o) = "failed" /\ ~InBatch(o) /\ exec.op # o
    BY PhaseCases
  <2>2. ASSUME NEW o \in S PROVE Phase(o)' = "waiting"
    <3>1. status'[o] = "pending" /\ ~InBatch(o)' /\ exec'.op # o
      BY <1>0, <1>4, <2>1 DEF Retry, UpdateMany, InBatch
    <3> QED
      BY <3>1, PhaseCasesAfter
  <2>3. \A o \in Ops \ S : status'[o] = status[o]
    BY <1>4 DEF Retry, UpdateMany
  <2>4. Lifecycle!Move(S, "waiting")
    <3> HIDE DEF S
    <3>1. S \in SUBSET Ops
      BY DEF S
    <3> QED
      BY <1>0, <2>2, <2>3, <3>1, RowsMove
  <2>5. Lifecycle!Resubmit(S)
    BY <2>1, <2>4 DEF Lifecycle!Resubmit, Lifecycle!InPhase, Image
  <2> QED
    BY <2>5 DEF Lifecycle!Next
<1>5. CASE UpdateSettings
  BY <1>5, NothingMoves DEF UpdateSettings
<1> QED
  BY <1>1, <1>2, <1>3, <1>4, <1>5 DEF Dashboard

\* Every step of the system is a step of the lifecycle, or none.
LEMMA StepRefines ==
    ASSUME Inv, Inv', Next
    PROVE  Lifecycle!Next \/ UNCHANGED Image
<1>1. CASE LoadSettings \/ StateUsable \/ Evaluate \/ LoopDone \/ Tick
  <2>1. UNCHANGED <<status, batch, exec>>
    BY <1>1 DEF LoadSettings, StateUsable, Evaluate, LoopDone, Tick
  <2> QED
    BY <2>1, NothingMoves
<1>2. ASSUME NEW p \in Plans, SkipCooling(p) \/ Decline(p) \/ AutoExecute(p)
      PROVE  UNCHANGED Image
  <2>1. UNCHANGED <<status, batch>>
    BY <1>2 DEF SkipCooling, Decline, Skip, AutoExecute
  <2>2. exec'.op = exec.op
    <3>1. AutoExecute(p) => exec.op = NoOp /\ exec'.op = NoOp
      BY DEF AutoExecute, Handling, IdleExec, Inv, ExecFollowsPc, Between
    <3> QED
      BY <1>2, <3>1 DEF SkipCooling, Decline, Skip
  <2> QED
    BY <2>1, <2>2, NothingMoves
<1>3. ASSUME NEW p \in Plans, QueueForApproval(p) PROVE Lifecycle!Next
  BY <1>3, QueueForApprovalSubmits
<1>4. CASE StateUnusable \/ (\E p \in Plans : QueueRefused(p)) \/ LoopThrows
           \/ FetchThrows \/ MarkExecutingThrows \/ FinishCycle \/ MarkFailedThrows
           \/ HistoryOfAutoRunThrows \/ Restart
  <2>1. UNCHANGED status /\ batch' = <<>> /\ exec'.op = NoOp
    BY <1>4 DEF StateUnusable, QueueRefused, LoopThrows, FetchThrows, MarkExecutingThrows,
                FinishCycle, MarkFailedThrows, HistoryOfAutoRunThrows, EndCycle, Restart,
                IdleExec
  <2>2. \A o \in Ops : ~InBatch(o)'
    BY <2>1 DEF InBatch
  <2> QED
    BY <2>1, <2>2, BatchGivenUp
<1>5. CASE BeginBlocked \/ BeginSteps \/ BeginNothingToRun \/ StepSucceeds
           \/ LastStepSucceeds \/ StepFails \/ WriteHistoryOfRow \/ HistoryOfRowThrows
           \/ MarkCompletedThrows \/ WriteHistoryOfAutoRun
  <2>1. UNCHANGED <<status, batch>> /\ exec'.op = exec.op
    BY <1>5 DEF BeginBlocked, BeginSteps, BeginNothingToRun, Conclude, StepSucceeds,
                LastStepSucceeds, StepFails, WriteHistoryOfRow, HistoryOfRowThrows,
                MarkCompletedThrows, WriteHistoryOfAutoRun, IdleExec, Inv, TypeOK
  <2> QED
    BY <2>1, NothingMoves
<1>6. CASE FetchApproved
  <2>1. UNCHANGED <<status, exec>> /\ exec'.op = NoOp
    BY <1>6 DEF FetchApproved, Fetch, IdleExec, Inv, ExecFollowsPc, Between
  <2>2. \A o \in Ops : InBatch(o)' => status[o] = "approved"
    BY <1>6, FetchedBatch DEF InBatch
  <2> QED
    BY <2>1, <2>2, BatchGivenUp
<1>7. CASE MarkExecuting
  BY <1>7, MarkExecutingRuns
<1>8. CASE MarkCompleted \/ MarkFailed
  BY <1>8, MarkRowSettles
<1>9. CASE Dashboard
  BY <1>9, DashboardMovesPhases
<1> QED
  BY <1>1, <1>2, <1>3, <1>4, <1>5, <1>6, <1>7, <1>8, <1>9
     DEF Next, Engine, Loop, ExecutePlan, ProcessApprovedQueue

\* The engine, the queue and the dashboard implement the lifecycle of an operation,
\* whatever the rows, the plans, the settings and the faults.
THEOREM Refinement == Spec => ImplementsLifecycle
<1>1. Init => Lifecycle!Init
  <2> SUFFICES ASSUME Init PROVE Lifecycle!Init
    OBVIOUS
  <2>1. ASSUME NEW o \in Ops PROVE Phase(o) = "unborn"
    <3>1. status[o] = "absent" /\ exec.op # o /\ ~InBatch(o)
      BY EngineAssumption DEF Init, IdleExec, InBatch
    <3> QED
      BY <3>1 DEF Phase, PhaseOfStatus, InBatch
  <2> QED
    BY <2>1 DEF Lifecycle!Init
<1>2. Inv /\ Inv' /\ [Next]_vars => [Lifecycle!Next]_Image
  <2>1. Inv /\ Inv' /\ Next => [Lifecycle!Next]_Image
    BY StepRefines
  <2>2. UNCHANGED vars => UNCHANGED Image
    BY NothingMoves DEF vars
  <2> QED
    BY <2>1, <2>2
<1> QED
  BY <1>1, <1>2, Invariance, PTL DEF Spec, ImplementsLifecycle, Lifecycle!Spec, Image
===============================================================================
