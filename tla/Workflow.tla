------------------------------ MODULE Workflow ------------------------------
(***************************************************************************)
(* Executions of workflows: workflows/services/workflow-execution.service  *)
(* .ts (trigger, cancel, retry) and workflows/processors/workflow          *)
(* .processor.ts, which runs the jobs of the Bull queue that join them.    *)
(*                                                                         *)
(* A worker is one process, with the queue's default concurrency of one    *)
(* job; a caller is one request or trigger.  An action is one awaited      *)
(* call with the synchronous code up to the next.  The rows of             *)
(* WorkflowActionExecution are kept as far as they are open: the one a     *)
(* worker holds, and the statuses of those nobody will write again.        *)
(***************************************************************************)
EXTENDS Integers, Sequences, FiniteSets, SequencesExt

CONSTANTS
  Executions,   \* primary keys of executions (bounds their number)
  NumSteps,     \* actions of the template
  Workers,
  Callers,      \* requests and triggers served at the same time
  MaxWaiting,   \* bound on the waiting jobs
  MaxCrashes,   \* bound on the crashes of workers
  MaxStalled,   \* times a job is run again when its worker dies (1 in Bull)
  CanFail,      \* whether an awaited call of the service may reject
  NoExecution

ASSUME WorkflowAssumption ==
  /\ NumSteps \in Nat /\ MaxWaiting \in Nat /\ MaxCrashes \in Nat /\ MaxStalled \in Nat
  /\ CanFail \in BOOLEAN
  /\ NoExecution \notin Executions

Steps == 1..NumSteps
\* WorkflowExecutionStatus; "none" before the row is there.
Statuses == {"none", "PENDING", "RUNNING", "COMPLETED", "FAILED", "CANCELLED"}
Terminal == {"COMPLETED", "FAILED", "CANCELLED"}
Active == {"PENDING", "RUNNING"}
\* Bull's record of a job: its data, and how often its worker died.
JobRecords == [execution : Executions, stalls : 0..MaxStalled]

VARIABLES
  status,     \* WorkflowExecution.status
  queue,      \* the waiting jobs of the Bull queue, the next to run first
  worker,     \* what each worker is doing
  caller,     \* what each caller is doing
  leftOpen,   \* statuses of open action rows that no worker holds any more
  settled,    \* history: the actions performed or skipped
  disturbed,  \* history: executions that a failure or an overlap may have lost
  crashes

vars == <<status, queue, worker, caller, leftOpen, settled, disturbed, crashes>>

\* The call awaited next: by a worker ...
WorkerPoints == {"idle", "mark", "create", "skip", "start", "perform",
                 "finish", "rowfail", "complete", "fail", "ack", "stopped"}
\* ... and by a caller.
CallerPoints == {"idle", "add", "cancel.mark", "cancel.rows", "cancel.job",
                 "retry.reset", "retry.clear"}

\* row is the status of the action row being worked on, "none" if it is gone.
Idle == [at |-> "idle", execution |-> NoExecution, stalls |-> 0, step |-> 1, row |-> "none"]
WorkerStates ==
  [at : WorkerPoints, execution : Executions \cup {NoExecution}, stalls : 0..MaxStalled,
   step : Nat, row : Statuses]
Free == [at |-> "idle", execution |-> NoExecution]
CallerStates == [at : CallerPoints, execution : Executions \cup {NoExecution}]

TypeOK ==
  /\ status \in [Executions -> Statuses]
  /\ queue \in Seq(JobRecords)
  /\ worker \in [Workers -> WorkerStates]
  /\ \A w \in Workers : worker[w].at # "idle" => worker[w].execution \in Executions
  /\ caller \in [Callers -> CallerStates]
  /\ \A c \in Callers : caller[c].at # "idle" => caller[c].execution \in Executions
  /\ leftOpen \in [Executions -> SUBSET {"PENDING", "RUNNING"}]
  /\ settled \in [Executions -> SUBSET Steps]
  /\ disturbed \subseteq Executions
  /\ crashes \in Nat

Init ==
  /\ status = [e \in Executions |-> "none"]
  /\ queue = <<>>
  /\ worker = [w \in Workers |-> Idle]
  /\ caller = [c \in Callers |-> Free]
  /\ leftOpen = [e \in Executions |-> {}]
  /\ settled = [e \in Executions |-> {}]
  /\ disturbed = {}
  /\ crashes = 0

At(w, point) == worker[w].at = point
Running(w) == worker[w].execution
Goto(w, point) == worker' = [worker EXCEPT ![w].at = point]
GotoWithRow(w, point, row) ==
  worker' = [worker EXCEPT ![w].at = point, ![w].row = row]

CallerAt(c, point) == caller[c].at = point
CallGoto(c, point) == caller' = [caller EXCEPT ![c].at = point]
CallReturn(c) == caller' = [caller EXCEPT ![c] = Free]

\* updateExecutionStatus.
SetStatus(e, s) == status' = [status EXCEPT ![e] = s]

-----------------------------------------------------------------------------
(* Callers: triggerWorkflow, cancelExecution and retryExecution.           *)

\* A caller starts on an execution, which another may have under way.
CallBegin(c, e, point) ==
  /\ caller' = [caller EXCEPT ![c] = [at |-> point, execution |-> e]]
  /\ disturbed' = IF \E d \in Callers : caller[d].execution = e
                    THEN disturbed \cup {e} ELSE disturbed

\* A bound: every caller that will add a job finds room for it.
RoomForJob ==
  Len(queue) + Cardinality({c \in Callers : \/ CallerAt(c, "add")
                                            \/ CallerAt(c, "retry.reset")
                                            \/ CallerAt(c, "retry.clear")}) < MaxWaiting

\* The template is found ACTIVE and the execution stored.
TriggerCreate(c) ==
  \E e \in Executions :
    /\ CallerAt(c, "idle")
    /\ status[e] = "none"
    /\ RoomForJob
    /\ SetStatus(e, "PENDING")
    /\ CallBegin(c, e, "add")
    /\ UNCHANGED <<queue, worker, leftOpen, settled, crashes>>

\* workflowQueue.add, the last call of a trigger and of a retry.
AddJob(c) ==
  /\ CallerAt(c, "add")
  /\ queue' = Append(queue, [execution |-> caller[c].execution, stalls |-> 0])
  /\ CallReturn(c)
  /\ UNCHANGED <<status, worker, leftOpen, settled, disturbed, crashes>>

CancelFind(c) ==
  \E e \in Executions :
    /\ CallerAt(c, "idle")
    /\ status[e] \in Active
    /\ CallBegin(c, e, "cancel.mark")
    /\ UNCHANGED <<status, queue, worker, leftOpen, settled, crashes>>

CancelMark(c) ==
  /\ CallerAt(c, "cancel.mark")
  /\ SetStatus(caller[c].execution, "CANCELLED")
  /\ CallGoto(c, "cancel.rows")
  /\ UNCHANGED <<queue, worker, leftOpen, settled, disturbed, crashes>>

\* Every PENDING row, whether or not a worker is about to start it.
CancelRows(c) ==
  LET e == caller[c].execution IN
    /\ CallerAt(c, "cancel.rows")
    /\ worker' = [w \in Workers |->
         IF worker[w].execution = e /\ worker[w].row = "PENDING"
           THEN [worker[w] EXCEPT !.row = "CANCELLED"] ELSE worker[w]]
    /\ leftOpen' = [leftOpen EXCEPT ![e] = @ \ {"PENDING"}]
    /\ CallGoto(c, "cancel.job")
    /\ UNCHANGED <<status, queue, settled, disturbed, crashes>>

\* The waiting jobs of an execution.
Waiting(e) == {i \in DOMAIN queue : queue[i].execution = e}

\* Fault: waiting jobs are not looked for.
CancelJobActive(c) ==
  /\ CallerAt(c, "cancel.job")
  /\ CallReturn(c)
  /\ UNCHANGED <<status, queue, worker, leftOpen, settled, disturbed, crashes>>

\* A waiting job is removed, or one whose worker has died and lost its lock (if
\* a worker had started it since the execution was marked, it stays RUNNING).
\* Removing a job that a worker has locked throws, which ends the request.
CancelJob(c) ==
  LET e == caller[c].execution
      Removed == disturbed' = IF status[e] = "CANCELLED" THEN disturbed ELSE disturbed \cup {e}
  IN
    /\ CallerAt(c, "cancel.job")
    /\ \/ /\ Waiting(e) = {}
          /\ UNCHANGED <<queue, worker, disturbed>>
       \/ /\ \E i \in Waiting(e) : queue' = RemoveAt(queue, i)
          /\ Removed
          /\ UNCHANGED worker
       \/ /\ Waiting(e) = {}
          /\ \E w \in Workers :
               At(w, "stopped") /\ Running(w) = e /\ worker' = [worker EXCEPT ![w] = Idle]
          /\ Removed
          /\ UNCHANGED queue
    /\ CallReturn(c)
    /\ UNCHANGED <<status, leftOpen, settled, crashes>>

\* Fault: an execution that is still running may be retried.
RetryFindUnguarded(c) ==
  \E e \in Executions :
    /\ CallerAt(c, "idle")
    /\ status[e] \in {"FAILED", "RUNNING"}
    /\ RoomForJob
    /\ CallBegin(c, e, "retry.reset")
    /\ UNCHANGED <<status, queue, worker, leftOpen, settled, crashes>>

RetryFind(c) ==
  \E e \in Executions :
    /\ CallerAt(c, "idle")
    /\ status[e] = "FAILED"
    /\ RoomForJob
    /\ CallBegin(c, e, "retry.reset")
    /\ UNCHANGED <<status, queue, worker, leftOpen, settled, crashes>>

RetryReset(c) ==
  /\ CallerAt(c, "retry.reset")
  /\ SetStatus(caller[c].execution, "PENDING")
  /\ CallGoto(c, "retry.clear")
  /\ UNCHANGED <<queue, worker, leftOpen, settled, disturbed, crashes>>

\* The rows are deleted, also under a worker that holds one.
RetryClear(c) ==
  LET e == caller[c].execution IN
    /\ CallerAt(c, "retry.clear")
    /\ worker' = [w \in Workers |->
         IF worker[w].execution = e THEN [worker[w] EXCEPT !.row = "none"] ELSE worker[w]]
    /\ leftOpen' = [leftOpen EXCEPT ![e] = {}]
    /\ CallGoto(c, "add")
    /\ UNCHANGED <<status, queue, settled, disturbed, crashes>>

CallerReject(c) ==
  /\ CanFail
  /\ ~CallerAt(c, "idle")
  /\ disturbed' = disturbed \cup {caller[c].execution}
  /\ CallReturn(c)
  /\ UNCHANGED <<status, queue, worker, leftOpen, settled, crashes>>

-----------------------------------------------------------------------------
(* Workers: executeWorkflow and executeAction.                             *)

Take(w) ==
  /\ At(w, "idle")
  /\ queue # <<>>
  /\ worker' = [worker EXCEPT ![w] =
       [Idle EXCEPT !.at = "mark", !.execution = Head(queue).execution,
                    !.stalls = Head(queue).stalls]]
  /\ queue' = Tail(queue)
  /\ UNCHANGED <<status, caller, leftOpen, settled, disturbed, crashes>>

\* The next action of the loop, if there is one.
EnterStep(w, step) ==
  worker' = [worker EXCEPT ![w].step = step, ![w].row = "none",
                           ![w].at = IF step \in Steps THEN "create" ELSE "complete"]

\* The execution, which is never deleted, is then read for its targets.
MarkRunning(w) ==
  /\ At(w, "mark")
  /\ SetStatus(Running(w), "RUNNING")
  /\ EnterStep(w, 1)
  /\ UNCHANGED <<queue, caller, leftOpen, settled, disturbed, crashes>>

\* The row, then the delay, and the conditions on what was loaded before.
CreateRow(w) ==
  /\ At(w, "create")
  /\ \E point \in {"start", "skip"} : GotoWithRow(w, point, "PENDING")
  /\ UNCHANGED <<status, queue, caller, leftOpen, settled, disturbed, crashes>>

HasRow(w) == worker[w].row # "none"
Settle(w) == settled' = [settled EXCEPT ![Running(w)] = @ \cup {worker[w].step}]

\* Conditions not met: the action counts as completed.
SkipAction(w) ==
  /\ At(w, "skip") /\ HasRow(w)
  /\ Settle(w)
  /\ EnterStep(w, worker[w].step + 1)
  /\ UNCHANGED <<status, queue, caller, leftOpen, disturbed, crashes>>

StartAction(w) ==
  /\ At(w, "start") /\ HasRow(w)
  /\ GotoWithRow(w, "perform", "RUNNING")
  /\ UNCHANGED <<status, queue, caller, leftOpen, settled, disturbed, crashes>>

\* performAction: mail, text, notification, member status, task or delay.
PerformAction(w) ==
  /\ At(w, "perform")
  /\ Settle(w)
  /\ Goto(w, "finish")
  /\ UNCHANGED <<status, queue, caller, leftOpen, disturbed, crashes>>

FinishAction(w) ==
  /\ At(w, "finish") /\ HasRow(w)
  /\ EnterStep(w, worker[w].step + 1)
  /\ UNCHANGED <<status, queue, caller, leftOpen, settled, disturbed, crashes>>

\* Fault: the action's error ends the workflow past its own catch.
ActionThrowsUncaught(w) ==
  /\ \/ At(w, "perform")
     \/ worker[w].at \in {"skip", "start", "finish"} /\ ~HasRow(w)
  /\ Goto(w, "fail")
  /\ leftOpen' = [leftOpen EXCEPT ![Running(w)] = @ \cup ({worker[w].row} \cap Active)]
  /\ UNCHANGED <<status, queue, caller, settled, disturbed, crashes>>

\* The action throws (an unknown type, no target, a queue that refuses), or its
\* row has been deleted and the update of it throws.
ActionThrows(w) ==
  /\ \/ At(w, "perform")
     \/ worker[w].at \in {"skip", "start", "finish"} /\ ~HasRow(w)
  /\ Goto(w, "rowfail")
  /\ UNCHANGED <<status, queue, caller, leftOpen, settled, disturbed, crashes>>

\* Fault: the error is recorded and not thrown again.
FailActionSwallowed(w) ==
  /\ At(w, "rowfail")
  /\ EnterStep(w, worker[w].step + 1)
  /\ UNCHANGED <<status, queue, caller, leftOpen, settled, disturbed, crashes>>

\* The error is recorded, if there still is a row, and thrown again.
FailAction(w) ==
  /\ At(w, "rowfail")
  /\ GotoWithRow(w, "fail", "none")
  /\ UNCHANGED <<status, queue, caller, leftOpen, settled, disturbed, crashes>>

Complete(w) ==
  /\ At(w, "complete")
  /\ SetStatus(Running(w), "COMPLETED")
  /\ Goto(w, "ack")
  /\ UNCHANGED <<queue, caller, leftOpen, settled, disturbed, crashes>>

\* Fault: the failure of the workflow is only logged.
FailLogged(w) ==
  /\ At(w, "fail")
  /\ Goto(w, "ack")
  /\ UNCHANGED <<status, queue, caller, leftOpen, settled, disturbed, crashes>>

Fail(w) ==
  /\ At(w, "fail")
  /\ SetStatus(Running(w), "FAILED")
  /\ Goto(w, "ack")
  /\ UNCHANGED <<queue, caller, leftOpen, settled, disturbed, crashes>>

\* The call of the worker rejects.
WorkerReject(w) ==
  /\ CanFail
  /\ \/ worker[w].at \in {"mark", "create", "complete"}
        /\ Goto(w, "fail") /\ UNCHANGED leftOpen
     \/ worker[w].at \in {"skip", "start", "finish"}
        /\ Goto(w, "rowfail") /\ UNCHANGED leftOpen
     \/ At(w, "rowfail") /\ GotoWithRow(w, "fail", "none")
        /\ leftOpen' = [leftOpen EXCEPT ![Running(w)] = @ \cup ({worker[w].row} \cap Active)]
     \/ At(w, "fail") /\ Goto(w, "ack") /\ UNCHANGED leftOpen
  /\ disturbed' = disturbed \cup {Running(w)}
  /\ UNCHANGED <<status, queue, caller, settled, crashes>>

-----------------------------------------------------------------------------
(* Bull: the end of a job, and jobs whose worker died.                     *)

Acknowledge(w) ==
  /\ At(w, "ack")
  /\ worker' = [worker EXCEPT ![w] = Idle]
  /\ UNCHANGED <<status, queue, caller, leftOpen, settled, disturbed, crashes>>

Crash(w) ==
  /\ crashes < MaxCrashes
  /\ worker[w].at \notin {"idle", "stopped"}
  /\ crashes' = crashes + 1
  /\ leftOpen' = [leftOpen EXCEPT ![Running(w)] = @ \cup ({worker[w].row} \cap Active)]
  /\ GotoWithRow(w, "stopped", "none")
  /\ UNCHANGED <<status, queue, caller, settled, disturbed>>

\* Fault: a stalled job is not run again.
RecoverNever(w) ==
  /\ At(w, "stopped")
  /\ worker' = [worker EXCEPT ![w] = Idle]
  /\ UNCHANGED <<status, queue, caller, leftOpen, settled, disturbed, crashes>>

\* The job is found stalled: it goes back to the head of the queue, from its
\* first action, or is given up; another process takes the worker's place.
Recover(w) ==
  /\ At(w, "stopped")
  /\ \/ /\ worker[w].stalls < MaxStalled
        /\ queue' = <<[execution |-> Running(w), stalls |-> worker[w].stalls + 1]>> \o queue
        /\ UNCHANGED disturbed
     \/ /\ worker[w].stalls = MaxStalled
        /\ disturbed' = disturbed \cup {Running(w)}
        /\ UNCHANGED queue
  /\ worker' = [worker EXCEPT ![w] = Idle]
  /\ UNCHANGED <<status, caller, leftOpen, settled, crashes>>

-----------------------------------------------------------------------------
CallerStep(c) ==
  \/ AddJob(c)
  \/ CancelMark(c) \/ CancelRows(c) \/ CancelJob(c)
  \/ RetryReset(c) \/ RetryClear(c)

WorkerStep(w) ==
  \/ Take(w) \/ MarkRunning(w) \/ CreateRow(w)
  \/ SkipAction(w) \/ StartAction(w) \/ PerformAction(w) \/ FinishAction(w)
  \/ ActionThrows(w) \/ FailAction(w) \/ Complete(w) \/ Fail(w)
  \/ Acknowledge(w) \/ Recover(w)

Next ==
  \/ \E c \in Callers :
       \/ TriggerCreate(c) \/ CancelFind(c) \/ RetryFind(c)
       \/ CallerStep(c) \/ CallerReject(c)
  \/ \E w \in Workers : WorkerStep(w) \/ WorkerReject(w) \/ Crash(w)

Spec == Init /\ [][Next]_vars

\* The event loop goes on with every call that was made, workers take the jobs
\* that wait, and Bull looks for stalled jobs from time to time.
Fairness ==
  /\ \A c \in Callers : WF_vars(CallerStep(c))
  /\ \A w \in Workers : WF_vars(WorkerStep(w))

FairSpec == Spec /\ Fairness

-----------------------------------------------------------------------------
(* What an execution's status says.                                        *)

\* An execution is reported COMPLETED only if every action was performed or
\* skipped for its conditions, however cancels, retries, crashes and further
\* jobs of the same execution interleave.
CompletedMeansDone ==
  \A e \in Executions : status[e] = "COMPLETED" => settled[e] = Steps

\* A job waits, a worker has not finished, or a caller is about to add a job.
SeenTo(e) ==
  \/ Waiting(e) # {}
  \/ \E w \in Workers : Running(w) = e /\ worker[w].at \notin {"idle", "ack"}
  \/ \E c \in Callers :
       caller[c].execution = e /\ (CallerAt(c, "retry.clear") \/ CallerAt(c, "add"))

\* An execution that is not over is seen to, unless a call for it was rejected,
\* callers acted on it together, its job stalled more often than it is run
\* again, or a cancel removed the job after a worker had started it.
NeverForgotten ==
  \A e \in Executions \ disturbed : status[e] \in Active => SeenTo(e)

\* The actions a worker has behind it.
Behind(w) ==
  CASE worker[w].at \in {"create", "skip", "start", "perform"} -> 1..(worker[w].step - 1)
    [] worker[w].at = "finish" -> 1..worker[w].step
    [] worker[w].at = "complete" -> Steps
    [] OTHER -> {}

WorkerInv(w) ==
  /\ worker[w].at \in {"create", "skip", "start", "perform", "finish", "rowfail"} =>
       worker[w].step \in Steps
  /\ \A s \in Behind(w) : s \in settled[Running(w)]

\* The inductive invariant.
WorkflowInv ==
  /\ TypeOK
  /\ CompletedMeansDone
  /\ NeverForgotten
  /\ \A w \in Workers : WorkerInv(w)

-----------------------------------------------------------------------------
(* Executions whose calls all succeed and that one caller at a time acts on.*)

Busy(w) == worker[w].at \notin {"idle", "ack", "stopped"}

\* No two workers run the same execution: a retry queues a job only when the
\* one before has done its work.  (A worker that dies after its last write and
\* before Bull knows leaves a job that runs beside the one of a retry.)
OneRunner ==
  crashes = 0 =>
    \A e \in Executions \ disturbed :
      Cardinality({w \in Workers : Busy(w) /\ Running(w) = e}) <= 1

Quiet(e) == \A c \in Callers : caller[c].execution # e

\* When the cancellation of an execution is over none of its jobs waits, so
\* nothing starts it later.  (A job that runs is not stopped.)
CancelledNeverStarts ==
  crashes = 0 =>
    \A e \in Executions \ disturbed :
      status[e] = "CANCELLED" /\ Quiet(e) => Waiting(e) = {}

\* The rows of the actions agree with the execution: when it is over and
\* nothing works on it, no row is left PENDING or RUNNING.
RowsAreClosed ==
  crashes = 0 =>
    \A e \in Executions \ disturbed :
      (\A w \in Workers : Running(w) # e) => leftOpen[e] = {}

\* What an execution without a crash, a rejected call or an overlap keeps: it
\* has one caller at most and one thing that will run it: a waiting job, a
\* worker, or a caller about to add a job.
AddsJob(c, e) ==
  caller[c].execution = e /\ caller[c].at \in {"retry.reset", "retry.clear", "add"}
Runs(w, e) == Busy(w) /\ Running(w) = e
Undisturbed(e) == crashes = 0 /\ e \notin disturbed

OneCaller(e) ==
  \A c, d \in Callers : caller[c].execution = e /\ caller[d].execution = e => c = d

OneSource(e) ==
  /\ \A w, v \in Workers : Runs(w, e) /\ Runs(v, e) => w = v
  /\ \A i, j \in Waiting(e) : i = j
  /\ Waiting(e) # {} => \A w \in Workers : ~Runs(w, e)
  /\ (\E c \in Callers : AddsJob(c, e)) =>
       Waiting(e) = {} /\ \A w \in Workers : ~Runs(w, e)

\* Nothing runs an execution that failed, until it is retried.
StatusFits(e) ==
  /\ status[e] \in {"none", "FAILED"} =>
       Waiting(e) = {} /\ \A w \in Workers : ~Runs(w, e)
  /\ \A c \in Callers :
       caller[c].execution = e /\ caller[c].at \in {"retry.clear", "add"} => status[e] = "PENDING"

\* A cancelled execution whose job still waits is being cancelled.
CancelGoesOn(e) ==
  status[e] = "CANCELLED" /\ Waiting(e) # {} =>
    \E c \in Callers : caller[c].execution = e /\ caller[c].at \in {"cancel.rows", "cancel.job"}

RunsInv(e) ==
  OneCaller(e) /\ OneSource(e) /\ StatusFits(e) /\ CancelGoesOn(e) /\ leftOpen[e] = {}

\* A worker is only stopped by a crash, and holds no row outside of a step.
RowsInv ==
  \A w \in Workers :
    /\ crashes = 0 => worker[w].at # "stopped"
    /\ worker[w].at \notin {"start", "skip", "perform", "finish", "rowfail"} =>
         worker[w].row = "none"

\* The inductive invariant, with what an undisturbed execution keeps.
RunInv ==
  /\ WorkflowInv
  /\ RowsInv
  /\ \A e \in Executions : Undisturbed(e) => RunsInv(e)

\* Every execution comes to an end, unless a call for it is rejected, callers
\* act on it together or its job stalls more often than it is run again.
EveryRunEnds ==
  \A e \in Executions :
    (status[e] \in Active) ~> (status[e] \in Terminal \/ e \in disturbed)

=============================================================================
