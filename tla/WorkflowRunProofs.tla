-------------------------- MODULE WorkflowRunProofs --------------------------
(***************************************************************************)
(* Theorems about the executions of Workflow that no crash, no rejected    *)
(* call and no overlap of callers has disturbed, for any number of         *)
(* executions, actions, workers and callers: one thing at a time runs such *)
(* an execution, a cancelled one is not started, and its rows are closed.  *)
(***************************************************************************)
EXTENDS WorkflowProofs, FiniteSetTheorems

-----------------------------------------------------------------------------
(* The jobs that wait for an execution, when the queue changes.            *)

Single(e) == \A i, j \in Waiting(e) : i = j

LEMMA AppendedJobs ==
  ASSUME TypeOK, NEW job \in JobRecords, queue' = Append(queue, job), NEW e \in Executions
  PROVE  /\ job.execution # e => Waiting(e)' = Waiting(e)
         /\ job.execution = e /\ Waiting(e) = {} => Waiting(e)' = {Len(queue) + 1}
<1>1. queue \in Seq(JobRecords) /\ Len(queue) \in Nat
  BY DEF TypeOK
<1>2. /\ DOMAIN queue' = DOMAIN queue \cup {Len(queue) + 1}
      /\ queue'[Len(queue) + 1] = job
      /\ \A i \in DOMAIN queue : queue'[i] = queue[i]
  BY <1>1
<1>3. Len(queue) + 1 \notin DOMAIN queue
  BY <1>1
<1> QED
  BY <1>2, <1>3 DEF Waiting

\* No job of another execution is gained or lost when one is taken away.
LEMMA TakenJob ==
  ASSUME TypeOK, queue # <<>>, queue' = Tail(queue), NEW e \in Executions, Single(e)
  PROVE  /\ Head(queue).execution = e => Waiting(e) # {} /\ Waiting(e)' = {}
         /\ Head(queue).execution # e => (Waiting(e)' = {} <=> Waiting(e) = {})
         /\ Single(e)'
<1>1. queue \in Seq(JobRecords) /\ Len(queue) \in Nat \ {0} /\ DOMAIN queue = 1..Len(queue)
  BY DEF TypeOK
<1>2. /\ DOMAIN queue' = 1..(Len(queue) - 1)
      /\ \A i \in 1..(Len(queue) - 1) : queue'[i] = queue[i + 1]
  BY <1>1
<1>3. Head(queue) = queue[1]
  BY <1>1
<1>4. \A k \in Waiting(e)' : k \in Nat /\ k + 1 \in Waiting(e) /\ k + 1 # 1
  BY <1>1, <1>2 DEF Waiting
<1>5. \A i \in Waiting(e) : i = 1 \/ i - 1 \in Waiting(e)'
  BY <1>1, <1>2 DEF Waiting
<1>6. Single(e)'
  BY <1>4 DEF Single
<1>7. ASSUME Head(queue).execution = e PROVE Waiting(e) # {} /\ Waiting(e)' = {}
  <2>1. 1 \in Waiting(e)
    BY <1>1, <1>3, <1>7 DEF Waiting
  <2> QED
    BY <1>4, <2>1 DEF Single
<1>8. ASSUME Head(queue).execution # e PROVE Waiting(e)' = {} <=> Waiting(e) = {}
  <2>1. 1 \notin Waiting(e)
    BY <1>3, <1>8 DEF Waiting
  <2> QED
    BY <1>4, <1>5, <2>1
<1> QED
  BY <1>6, <1>7, <1>8

LEMMA RemovedJob ==
  ASSUME TypeOK, NEW i \in DOMAIN queue, queue' = RemoveAt(queue, i),
         NEW e \in Executions, Single(e)
  PROVE  /\ queue[i].execution = e => Waiting(e)' = {}
         /\ Waiting(e) = {} => Waiting(e)' = {}
         /\ Single(e)'
<1>1. queue \in Seq(JobRecords) /\ Len(queue) \in Nat /\ i \in 1..Len(queue)
  BY DEF TypeOK
<1> DEFINE front == SubSeq(queue, 1, i - 1)
           back == SubSeq(queue, i + 1, Len(queue))
<1>2. /\ front \in Seq(JobRecords) /\ Len(front) = i - 1
      /\ \A j \in 1..(i - 1) : front[j] = queue[j]
  BY <1>1
<1>3. /\ back \in Seq(JobRecords) /\ Len(back) = Len(queue) - i
      /\ \A j \in 1..(Len(queue) - i) : back[j] = queue[j + i]
  BY <1>1
<1>4. queue' = front \o back
  BY DEF RemoveAt
<1> HIDE DEF front, back
<1>5. /\ DOMAIN queue' = 1..(Len(queue) - 1)
      /\ \A k \in 1..(Len(queue) - 1) :
           queue'[k] = IF k < i THEN front[k] ELSE back[k - (i - 1)]
  <2>1. Len(front) + Len(back) = Len(queue) - 1
    BY <1>1, <1>2, <1>3
  <2>2. /\ DOMAIN queue' = 1..(Len(front) + Len(back))
        /\ \A k \in 1..(Len(front) + Len(back)) :
             queue'[k] = IF k <= Len(front) THEN front[k] ELSE back[k - Len(front)]
    BY <1>2, <1>3, <1>4
  <2>3. \A k \in 1..(Len(queue) - 1) : k < i <=> k <= i - 1
    BY <1>1
  <2> QED
    BY <1>2, <2>1, <2>2, <2>3
<1>6. ASSUME NEW k \in Waiting(e)'
      PROVE  k \in Nat /\ IF k < i THEN k \in Waiting(e) ELSE k + 1 \in Waiting(e)
  <2>1. k \in 1..(Len(queue) - 1) /\ queue'[k].execution = e
    BY <1>5 DEF Waiting
  <2>2. CASE k < i
    <3>1. queue'[k] = queue[k] /\ k \in DOMAIN queue
      BY <1>1, <1>2, <1>5, <2>1, <2>2
    <3> QED
      BY <2>1, <2>2, <3>1 DEF Waiting
  <2>3. CASE ~(k < i)
    <3>1. k - (i - 1) \in 1..(Len(queue) - i) /\ (k - (i - 1)) + i = k + 1
      BY <1>1, <2>1, <2>3
    <3>2. back[k - (i - 1)] = queue[k + 1]
      BY <1>3, <3>1
    <3>3. queue'[k] = queue[k + 1] /\ k + 1 \in DOMAIN queue
      BY <1>1, <1>5, <2>1, <2>3, <3>2
    <3> QED
      BY <2>1, <2>3, <3>3 DEF Waiting
  <2> QED
    BY <2>2, <2>3
<1>7. ASSUME queue[i].execution = e PROVE Waiting(e)' = {}
  <2>1. i \in Waiting(e) /\ i \in Nat
    BY <1>1, <1>7 DEF Waiting
  <2> QED
    BY <1>6, <2>1 DEF Single
<1>8. ASSUME NEW k \in Waiting(e)', NEW l \in Waiting(e)' PROVE k = l
  <2>1. k \in Nat /\ l \in Nat /\ i \in Nat
    BY <1>1, <1>6
  <2>2. CASE k < i /\ l < i
    BY <1>6, <2>2 DEF Single
  <2>3. CASE ~(k < i) /\ ~(l < i)
    <3>1. k + 1 = l + 1
      BY <1>6, <2>3 DEF Single
    <3> QED
      BY <2>1, <3>1
  <2>4. CASE k < i /\ ~(l < i)
    <3>1. k = l + 1
      BY <1>6, <2>4 DEF Single
    <3> QED
      BY <2>1, <2>4, <3>1
  <2>5. CASE ~(k < i) /\ l < i
    <3>1. k + 1 = l
      BY <1>6, <2>5 DEF Single
    <3> QED
      BY <2>1, <2>5, <3>1
  <2> QED
    BY <2>2, <2>3, <2>4, <2>5
<1> QED
  BY <1>6, <1>7, <1>8 DEF Single

-----------------------------------------------------------------------------
(* Steps that leave an execution alone.                                    *)

\* Failures and overlaps are not undone.
LEMMA StaysUndisturbed ==
  ASSUME TypeOK, [Next]_vars, NEW e \in Executions, Undisturbed(e)'
  PROVE  Undisturbed(e) /\ crashes' = crashes
<1>1. disturbed \subseteq disturbed'
  <2>1. ASSUME NEW c \in Callers, NEW x \in Executions, NEW point \in CallerPoints,
               CallBegin(c, x, point)
        PROVE  disturbed \subseteq disturbed'
    BY <2>1 DEF CallBegin
  <2>2. {"add", "cancel.mark", "retry.reset"} \subseteq CallerPoints
    BY DEF CallerPoints
  <2>3. ASSUME NEW c \in Callers, TriggerCreate(c) \/ CancelFind(c) \/ RetryFind(c)
        PROVE  disturbed \subseteq disturbed'
    BY <2>1, <2>2, <2>3 DEF TriggerCreate, CancelFind, RetryFind
  <2>4. ASSUME NEW c \in Callers, CallerStep(c) \/ CallerReject(c)
        PROVE  disturbed \subseteq disturbed'
    BY <2>4 DEF CallerStep, CallerReject, AddJob, CancelMark, CancelRows, CancelJob,
       RetryReset, RetryClear
  <2>5. ASSUME NEW w \in Workers, WorkerStep(w) \/ WorkerReject(w) \/ Crash(w)
        PROVE  disturbed \subseteq disturbed'
    BY <2>5 DEF WorkerStep, WorkerReject, Crash, Take, MarkRunning, CreateRow, SkipAction,
       PerformAction, StartAction, FinishAction, ActionThrows, FailAction, Complete, Fail,
       Acknowledge, Recover
  <2> QED
    BY <2>3, <2>4, <2>5 DEF Next, vars
<1>2. crashes' = crashes \/ crashes' = crashes + 1
  BY DEF Next, vars, TriggerCreate, CancelFind, RetryFind, CallerStep, CallerReject, AddJob,
     CancelMark, CancelRows, CancelJob, RetryReset, RetryClear,
     WorkerStep, WorkerReject, Crash, Take, MarkRunning, CreateRow, SkipAction,
     PerformAction, StartAction, FinishAction, ActionThrows, FailAction, Complete, Fail,
     Acknowledge, Recover
<1> QED
  BY <1>1, <1>2 DEF Undisturbed, TypeOK

\* The step of a caller that does not act, or no longer acts, on e.
LEMMA CallerAside ==
  ASSUME NEW e \in Executions, RunsInv(e), NEW c \in Callers,
         \A d \in Callers \ {c} : caller'[d] = caller[d],
         caller'[c].execution # e,
         \/ caller[c].execution # e
         \/ caller[c].at \notin {"cancel.rows", "cancel.job"}
         \/ status[e] # "CANCELLED"
         \/ Waiting(e)' = {},
         \A w \in Workers : /\ worker'[w].at = worker[w].at
                            /\ worker'[w].execution = worker[w].execution,
         Waiting(e) = {} => Waiting(e)' = {}, Single(e)',
         status'[e] = status[e], leftOpen'[e] \subseteq leftOpen[e]
  PROVE  RunsInv(e)'
<1>1. \A w \in Workers : Runs(w, e)' <=> Runs(w, e)
  BY DEF Runs, Busy, Running
<1>2. \A d \in Callers : caller'[d].execution = e => d # c /\ caller'[d] = caller[d]
  OBVIOUS
<1>3. OneCaller(e)'
  BY <1>2 DEF RunsInv, OneCaller
<1>4. OneSource(e)'
  <2>1. \A d \in Callers : AddsJob(d, e)' => AddsJob(d, e)
    BY <1>2 DEF AddsJob
  <2> QED
    BY <1>1, <2>1 DEF RunsInv, OneSource, Single
<1>5. StatusFits(e)'
  BY <1>1, <1>2 DEF RunsInv, StatusFits
<1>6. CancelGoesOn(e)'
  <2>1. SUFFICES ASSUME status'[e] = "CANCELLED", Waiting(e)' # {}
                 PROVE  \E d \in Callers :
                          /\ caller'[d].execution = e
                          /\ caller'[d].at \in {"cancel.rows", "cancel.job"}
    BY DEF CancelGoesOn
  <2>2. PICK d \in Callers :
          caller[d].execution = e /\ caller[d].at \in {"cancel.rows", "cancel.job"}
    BY <2>1 DEF RunsInv, CancelGoesOn
  <2>3. d # c
    BY <2>1, <2>2
  <2> QED
    BY <2>2, <2>3
<1> QED
  BY <1>3, <1>4, <1>5, <1>6 DEF RunsInv

\* The step of a worker, other than taking a job: it starts no execution, and
\* changes the status only of the one it runs.
LEMMA WorkerAside ==
  ASSUME NEW e \in Executions, RunsInv(e), NEW w \in Workers,
         \A v \in Workers \ {w} : worker'[v] = worker[v],
         Runs(w, e)' => Runs(w, e),
         UNCHANGED <<queue, caller>>, leftOpen'[e] = leftOpen[e],
         \/ status'[e] = status[e]
         \/ Runs(w, e) /\ status'[e] \in {"RUNNING", "COMPLETED"}
         \/ Runs(w, e) /\ ~Runs(w, e)' /\ status'[e] = "FAILED"
  PROVE  RunsInv(e)'
<1>1. \A v \in Workers : Runs(v, e)' => Runs(v, e)
  BY DEF Runs, Busy, Running
<1>2. Waiting(e)' = Waiting(e) /\ OneCaller(e)' /\ leftOpen'[e] = {}
  BY DEF Waiting, RunsInv, OneCaller
<1>3. \A c \in Callers : AddsJob(c, e)' <=> AddsJob(c, e)
  BY DEF AddsJob
<1>4. OneSource(e)'
  BY <1>1, <1>2, <1>3 DEF RunsInv, OneSource
<1>5. Runs(w, e) => Waiting(e) = {} /\ \A c \in Callers : ~AddsJob(c, e)
  BY DEF RunsInv, OneSource
<1>6. StatusFits(e)'
  <2>1. CASE status'[e] = status[e]
    BY <1>1, <1>2, <2>1 DEF RunsInv, StatusFits
  <2>2. CASE Runs(w, e) /\ status'[e] \in {"RUNNING", "COMPLETED"}
    BY <1>5, <2>2 DEF StatusFits, AddsJob
  <2>3. CASE Runs(w, e) /\ ~Runs(w, e)' /\ status'[e] = "FAILED"
    <3>1. \A v \in Workers : ~Runs(v, e)'
      BY <1>1, <2>3 DEF RunsInv, OneSource
    <3> QED
      BY <1>2, <1>5, <2>3, <3>1 DEF StatusFits, AddsJob
  <2> QED
    BY <2>1, <2>2, <2>3
<1>7. CancelGoesOn(e)'
  BY <1>2, <1>5 DEF RunsInv, CancelGoesOn
<1> QED
  BY <1>2, <1>4, <1>6, <1>7 DEF RunsInv

-----------------------------------------------------------------------------
(* Rows are held only while an action is worked on.                        *)

RowFits(w) ==
  /\ crashes = 0 => worker[w].at # "stopped"
  /\ worker[w].at \notin {"start", "skip", "perform", "finish", "rowfail"} =>
       worker[w].row = "none"

\* The fields of the worker that moves, in every way it can.
LEMMA RowAfter ==
  ASSUME TypeOK, NEW w \in Workers
  PROVE  /\ \A at : Goto(w, at) => worker'[w].at = at /\ worker'[w].row = worker[w].row
         /\ \A at, row : GotoWithRow(w, at, row) => worker'[w].at = at /\ worker'[w].row = row
         /\ \A step : EnterStep(w, step) =>
              worker'[w].at \in {"create", "complete"} /\ worker'[w].row = "none"
<1>1. worker[w] \in WorkerStates /\ w \in DOMAIN worker
  BY DEF TypeOK
<1>2. ASSUME NEW at, Goto(w, at)
      PROVE  worker'[w].at = at /\ worker'[w].row = worker[w].row
  BY <1>1, <1>2 DEF WorkerStates, Goto
<1>3. ASSUME NEW at, NEW row, GotoWithRow(w, at, row)
      PROVE  worker'[w].at = at /\ worker'[w].row = row
  BY <1>1, <1>3 DEF WorkerStates, GotoWithRow
<1>4. ASSUME NEW step, EnterStep(w, step)
      PROVE  worker'[w].at \in {"create", "complete"} /\ worker'[w].row = "none"
  <2>1. worker'[w] = [worker[w] EXCEPT !.step = step, !.row = "none",
                                       !.at = IF step \in Steps THEN "create" ELSE "complete"]
    BY <1>1, <1>4 DEF EnterStep
  <2> QED
    BY <1>1, <2>1 DEF WorkerStates
<1> QED
  BY <1>2, <1>3, <1>4

LEMMA CallerRowsStep ==
  ASSUME TypeOK, RowsInv, NEW c \in Callers,
         TriggerCreate(c) \/ CancelFind(c) \/ RetryFind(c) \/ CallerStep(c) \/ CallerReject(c)
  PROVE  RowsInv'
<1>1. UNCHANGED crashes
  BY DEF TriggerCreate, CancelFind, RetryFind, CallerStep, CallerReject, AddJob, CancelMark,
     CancelRows, CancelJob, RetryReset, RetryClear
<1>2. SUFFICES ASSUME NEW w \in Workers PROVE RowFits(w)'
  BY DEF RowsInv, RowFits
<1>3. RowFits(w)
  BY DEF RowsInv, RowFits
<1>4. CASE UNCHANGED worker
  BY <1>1, <1>3, <1>4 DEF RowFits
<1>5. CASE CancelRows(c)
  <2>1. worker'[w].at = worker[w].at
    BY <1>5, RowsCancelled
  <2>2. worker[w] \in WorkerStates
    BY DEF TypeOK
  <2>3. worker'[w].row = worker[w].row \/ worker[w].row = "PENDING"
    BY <1>5, <2>2 DEF CancelRows, WorkerStates
  <2> QED
    BY <1>1, <1>3, <2>1, <2>3 DEF RowFits
<1>6. CASE RetryClear(c)
  <2>1. worker'[w].at = worker[w].at
    BY <1>6, RowsCleared
  <2>2. worker[w] \in WorkerStates
    BY DEF TypeOK
  <2>3. worker'[w].row = worker[w].row \/ worker'[w].row = "none"
    BY <1>6, <2>2 DEF RetryClear, WorkerStates
  <2> QED
    BY <1>1, <1>3, <2>1, <2>3 DEF RowFits
<1>7. ASSUME NEW v \in Workers, worker' = [worker EXCEPT ![v] = Idle]
      PROVE  RowFits(w)'
  <2>1. worker'[v] = Idle /\ \A x \in Workers \ {v} : worker'[x] = worker[x]
    BY <1>7, WorkerIdle
  <2>2. Idle.at = "idle" /\ Idle.row = "none"
    BY DEF Idle
  <2> QED
    BY <1>1, <1>3, <2>1, <2>2 DEF RowFits
<1> QED
  BY <1>4, <1>5, <1>6, <1>7 DEF TriggerCreate, CancelFind, RetryFind, CallerStep,
     CallerReject, AddJob, CancelMark, CancelJob, RetryReset

LEMMA WorkerRowsStep ==
  ASSUME TypeOK, RowsInv, NEW w \in Workers, OthersStay(w),
         WorkerStep(w) \/ WorkerReject(w) \/ Crash(w)
  PROVE  RowsInv'
<1>1. \A v \in Workers : RowFits(v)
  BY DEF RowsInv, RowFits
<1>2. crashes' = IF Crash(w) THEN crashes + 1 ELSE crashes
  BY DEF WorkerStep, WorkerReject, Crash, Take, MarkRunning, CreateRow, SkipAction,
     PerformAction, StartAction, FinishAction, ActionThrows, FailAction, Complete, Fail,
     Acknowledge, Recover
<1>3. crashes' = 0 => crashes = 0 /\ ~Crash(w)
  BY <1>2 DEF TypeOK
<1>4. ASSUME NEW v \in Workers \ {w} PROVE RowFits(v)'
  BY <1>1, <1>3, <1>4 DEF OthersStay, RowFits
<1>5. RowFits(w)'
  <2>1. CASE Take(w)
    <3>1. Idle \in WorkerStates
      BY WorkflowAssumption DEF Idle, WorkerStates, WorkerPoints, Statuses
    <3>2. worker'[w] = [Idle EXCEPT !.at = "mark", !.execution = Head(queue).execution,
                                    !.stalls = Head(queue).stalls]
      BY <2>1 DEF Take, TypeOK
    <3>3. worker'[w].at = "mark" /\ worker'[w].row = "none"
      BY <3>2 DEF Idle
    <3> QED
      BY <3>3 DEF RowFits
  <2>2. CASE MarkRunning(w) \/ SkipAction(w) \/ FinishAction(w)
    BY <2>2, RowAfter DEF MarkRunning, SkipAction, FinishAction, RowFits
  <2>3. CASE CreateRow(w) \/ StartAction(w) \/ PerformAction(w) \/ ActionThrows(w)
    BY <2>3, RowAfter DEF CreateRow, StartAction, PerformAction, ActionThrows, RowFits
  <2>4. CASE FailAction(w) \/ Crash(w)
    BY <1>3, <2>4, RowAfter DEF FailAction, Crash, RowFits
  <2>5. CASE Complete(w) \/ Fail(w)
    <3>1. worker[w].row = "none"
      BY <1>1, <2>5 DEF Complete, Fail, At, RowFits
    <3> QED
      BY <2>5, <3>1, RowAfter DEF Complete, Fail, RowFits
  <2>6. CASE Acknowledge(w) \/ Recover(w)
    BY <2>6, WorkerIdle DEF Acknowledge, Recover, Idle, RowFits
  <2>7. CASE WorkerReject(w)
    <3>1. CASE Goto(w, "rowfail") \/ GotoWithRow(w, "fail", "none")
      BY <3>1, RowAfter DEF RowFits
    <3>2. CASE worker[w].at \in {"mark", "create", "complete", "fail"} /\
               (Goto(w, "fail") \/ Goto(w, "ack"))
      <4>1. worker[w].row = "none"
        BY <1>1, <3>2 DEF RowFits
      <4> QED
        BY <3>2, <4>1, RowAfter DEF RowFits
    <3> QED
      BY <2>7, <3>1, <3>2 DEF WorkerReject, At
  <2> QED
    BY <2>1, <2>2, <2>3, <2>4, <2>5, <2>6, <2>7 DEF WorkerStep
<1> QED
  BY <1>4, <1>5 DEF RowsInv, RowFits

-----------------------------------------------------------------------------
(* What an undisturbed execution keeps.                                    *)

\* A caller begins: nobody else acts on the execution.
LEMMA BeginRunStep ==
  ASSUME TypeOK, NEW e \in Executions, RunsInv(e), NEW c \in Callers, NEW x \in Executions,
         NEW point \in {"add", "cancel.mark", "retry.reset"},
         CallerAt(c, "idle"), CallBegin(c, x, point), e \notin disturbed',
         UNCHANGED <<queue, worker, leftOpen>>,
         \/ status[x] = "none" /\ SetStatus(x, "PENDING") /\ point = "add"
         \/ status[x] \in Active /\ UNCHANGED status /\ point = "cancel.mark"
         \/ status[x] = "FAILED" /\ UNCHANGED status /\ point = "retry.reset"
  PROVE  RunsInv(e)'
<1>1. /\ caller'[c] = [at |-> point, execution |-> x]
      /\ \A d \in Callers \ {c} : caller'[d] = caller[d]
      /\ x = e => \A d \in Callers : caller[d].execution # e
  <2>1. point \in CallerPoints
    BY DEF CallerPoints
  <2> QED
    BY <2>1, CallerBegins
<1>2. Waiting(e)' = Waiting(e)
  BY DEF Waiting
<1>3. \A w \in Workers : Runs(w, e)' <=> Runs(w, e)
  BY DEF Runs, Busy, Running
<1>4. CASE x # e
  <2>1. status'[e] = status[e]
    BY <1>4, StatusType DEF Statuses
  <2>2. Single(e)'
    BY <1>2 DEF RunsInv, OneSource, Single
  <2> QED
    BY <1>1, <1>2, <1>4, <2>1, <2>2, CallerAside DEF CallerAt
<1>5. CASE x = e
  <2>1. \A d \in Callers : caller'[d].execution = e => d = c
    BY <1>1, <1>5
  <2>2. OneCaller(e)'
    BY <2>1 DEF OneCaller
  <2>3. CASE point = "cancel.mark"
    <3>1. status[e] \in Active /\ status'[e] = status[e]
      BY <1>5, <2>3
    <3>2. \A d \in Callers : ~AddsJob(d, e)'
      BY <1>1, <2>1, <2>3 DEF AddsJob
    <3>3. OneSource(e)'
      BY <1>2, <1>3, <3>2 DEF RunsInv, OneSource
    <3>4. StatusFits(e)' /\ CancelGoesOn(e)'
      BY <1>1, <2>1, <2>3, <3>1 DEF StatusFits, CancelGoesOn, Active
    <3> QED
      BY <2>2, <3>3, <3>4 DEF RunsInv
  <2>4. CASE point # "cancel.mark"
    <3>1. Waiting(e) = {} /\ \A w \in Workers : ~Runs(w, e)
      BY <1>5, <2>4 DEF RunsInv, StatusFits
    <3>2. OneSource(e)' /\ CancelGoesOn(e)'
      BY <1>2, <1>3, <3>1 DEF OneSource, CancelGoesOn
    <3>3. point = "add" => status'[e] = "PENDING"
      BY <1>5, StatusType DEF Statuses
    <3>4. StatusFits(e)'
      BY <1>1, <1>2, <1>3, <2>1, <2>4, <3>1, <3>3 DEF StatusFits
    <3> QED
      BY <2>2, <3>2, <3>4 DEF RunsInv
  <2> QED
    BY <2>3, <2>4
<1> QED
  BY <1>4, <1>5

\* A caller goes on with an execution, or returns.
LEMMA CallerRunStep ==
  ASSUME TypeOK, RowsInv, NEW e \in Executions, RunsInv(e), Undisturbed(e), NEW c \in Callers,
         TriggerCreate(c) \/ CancelFind(c) \/ RetryFind(c) \/ CallerStep(c) \/ CallerReject(c),
         e \notin disturbed'
  PROVE  RunsInv(e)'
<1> DEFINE x == caller[c].execution
<1>1. ASSUME ~CallerAt(c, "idle") PROVE x \in Executions
  BY <1>1 DEF CallerAt, TypeOK
<1>2. CASE TriggerCreate(c) \/ CancelFind(c) \/ RetryFind(c)
  BY <1>2, BeginRunStep DEF TriggerCreate, CancelFind, RetryFind
<1>3. Single(e)
  BY DEF RunsInv, OneSource, Single
<1>4. UNCHANGED queue => Waiting(e)' = Waiting(e) /\ Single(e)'
  BY <1>3 DEF Waiting, Single
<1>5. Free.execution # e
  BY WorkflowAssumption DEF Free
\* The caller keeps to its execution, which stays with what runs it.
<1>6. ASSUME x = e, ~CallerAt(c, "idle"), NEW point \in CallerPoints, CallGoto(c, point),
             UNCHANGED queue, leftOpen'[e] = {},
             \A w \in Workers : /\ worker'[w].at = worker[w].at
                                /\ worker'[w].execution = worker[w].execution
      PROVE  /\ OneCaller(e)' /\ leftOpen'[e] = {} /\ Waiting(e)' = Waiting(e)
             /\ \A w \in Workers : Runs(w, e)' <=> Runs(w, e)
             /\ \A d \in Callers : caller'[d].execution = e => d = c
             /\ caller'[c].execution = e /\ caller'[c].at = point
             /\ (AddsJob(c, e)' => AddsJob(c, e)) => OneSource(e)'
  <2>1. /\ caller'[c].at = point /\ caller'[c].execution = x
        /\ \A d \in Callers \ {c} : caller'[d] = caller[d]
    BY <1>6, CallerGoes
  <2>2. \A d \in Callers : caller'[d].execution = e => d = c
    BY <1>6, <2>1 DEF RunsInv, OneCaller
  <2>3. \A w \in Workers : Runs(w, e)' <=> Runs(w, e)
    BY <1>6 DEF Runs, Busy, Running
  <2>4. ASSUME AddsJob(c, e)' => AddsJob(c, e) PROVE OneSource(e)'
    <3>1. (\E d \in Callers : AddsJob(d, e)') => \E d \in Callers : AddsJob(d, e)
      BY <2>2, <2>4 DEF AddsJob
    <3> QED
      BY <1>4, <1>6, <2>3, <3>1 DEF RunsInv, OneSource
  <2> QED
    BY <1>4, <1>6, <2>1, <2>2, <2>3, <2>4 DEF OneCaller
<1>7. CASE AddJob(c)
  <2> DEFINE job == [execution |-> x, stalls |-> 0]
  <2>1. /\ CallerAt(c, "add") /\ CallReturn(c) /\ queue' = Append(queue, job)
        /\ UNCHANGED <<status, worker, leftOpen>>
    BY <1>7 DEF AddJob
  <2>2. job \in JobRecords /\ job.execution = x
    BY <1>1, <2>1, WorkflowAssumption DEF JobRecords, CallerAt
  <2> HIDE DEF job
  <2>3. /\ caller'[c] = Free
        /\ \A d \in Callers \ {c} : caller'[d] = caller[d]
    BY <2>1, CallerReturns
  <2>4. CASE x # e
    <3>1. Waiting(e)' = Waiting(e)
      BY <2>1, <2>2, <2>4, AppendedJobs
    <3> QED
      BY <1>3, <1>5, <2>1, <2>3, <2>4, <3>1, CallerAside DEF Single
  <2>5. CASE x = e
    <3>1. AddsJob(c, e)
      BY <2>1, <2>5 DEF AddsJob, CallerAt
    <3>2. Waiting(e) = {} /\ \A w \in Workers : ~Runs(w, e)
      BY <3>1 DEF RunsInv, OneSource
    <3>3. Waiting(e)' = {Len(queue) + 1}
      BY <2>1, <2>2, <2>5, <3>2, AppendedJobs
    <3>4. \A w \in Workers : ~Runs(w, e)'
      BY <2>1, <3>2 DEF Runs, Busy, Running
    <3>5. \A d \in Callers : caller'[d].execution # e
      BY <1>5, <2>3, <2>5 DEF RunsInv, OneCaller
    <3>6. status'[e] = "PENDING"
      BY <2>1, <2>5 DEF RunsInv, StatusFits, CallerAt
    <3>7. OneCaller(e)' /\ OneSource(e)'
      BY <3>3, <3>4, <3>5 DEF OneCaller, OneSource, AddsJob
    <3>8. StatusFits(e)' /\ CancelGoesOn(e)'
      BY <3>5, <3>6 DEF StatusFits, CancelGoesOn
    <3> QED
      BY <2>1, <3>7, <3>8 DEF RunsInv
  <2> QED
    BY <2>4, <2>5
<1>8. ASSUME CancelMark(c) \/ CancelRows(c) \/ RetryReset(c) \/ RetryClear(c), x # e
      PROVE  RunsInv(e)'
  <2>1. ~CallerAt(c, "idle") /\ UNCHANGED queue
    BY <1>8 DEF CancelMark, CancelRows, RetryReset, RetryClear, CallerAt
  <2>2. \E point \in {"cancel.rows", "cancel.job", "retry.clear", "add"} : CallGoto(c, point)
    BY <1>8 DEF CancelMark, CancelRows, RetryReset, RetryClear
  <2>3. /\ caller'[c].execution = x
        /\ \A d \in Callers \ {c} : caller'[d] = caller[d]
    BY <2>1, <2>2, CallerGoes DEF CallerPoints
  <2>4. \A w \in Workers : /\ worker'[w].at = worker[w].at
                           /\ worker'[w].execution = worker[w].execution
    BY <1>8, RowsCancelled, RowsCleared DEF CancelMark, RetryReset
  <2>5. status'[e] = status[e]
    BY <1>1, <1>8, <2>1, StatusType DEF CancelMark, CancelRows, RetryReset, RetryClear, Statuses
  <2>6. leftOpen'[e] = leftOpen[e]
    BY <1>1, <1>8, <2>1 DEF CancelMark, CancelRows, RetryReset, RetryClear, TypeOK
  <2> QED
    BY <1>4, <1>8, <2>1, <2>3, <2>4, <2>5, <2>6, CallerAside
<1>9. ASSUME CancelMark(c), x = e PROVE RunsInv(e)'
  <2>1. /\ CallerAt(c, "cancel.mark") /\ CallGoto(c, "cancel.rows") /\ SetStatus(e, "CANCELLED")
        /\ UNCHANGED <<queue, worker, leftOpen>>
    BY <1>9 DEF CancelMark
  <2>2. /\ OneCaller(e)' /\ leftOpen'[e] = {}
        /\ \A d \in Callers : caller'[d].execution = e => d = c
        /\ caller'[c].execution = e /\ caller'[c].at = "cancel.rows"
        /\ (AddsJob(c, e)' => AddsJob(c, e)) => OneSource(e)'
    BY <1>6, <1>9, <2>1 DEF CallerAt, CallerPoints, RunsInv
  <2>3. status'[e] = "CANCELLED"
    BY <2>1, StatusType DEF Statuses
  <2> QED
    BY <2>2, <2>3 DEF RunsInv, AddsJob, StatusFits, CancelGoesOn
<1>10. ASSUME CancelRows(c), x = e PROVE RunsInv(e)'
  <2>1. /\ CallerAt(c, "cancel.rows") /\ CallGoto(c, "cancel.job") /\ UNCHANGED <<status, queue>>
    BY <1>10 DEF CancelRows
  <2>2. leftOpen'[e] = {}
    BY <1>10 DEF CancelRows, TypeOK, RunsInv
  <2>3. /\ OneCaller(e)' /\ Waiting(e)' = Waiting(e)
        /\ \A w \in Workers : Runs(w, e)' <=> Runs(w, e)
        /\ \A d \in Callers : caller'[d].execution = e => d = c
        /\ caller'[c].execution = e /\ caller'[c].at = "cancel.job"
        /\ (AddsJob(c, e)' => AddsJob(c, e)) => OneSource(e)'
    BY <1>6, <1>10, <2>1, <2>2, RowsCancelled DEF CallerAt, CallerPoints
  <2>4. OneSource(e)' /\ CancelGoesOn(e)'
    BY <2>3 DEF AddsJob, CancelGoesOn
  <2>5. StatusFits(e)'
    BY <2>1, <2>3 DEF RunsInv, StatusFits
  <2> QED
    BY <2>2, <2>3, <2>4, <2>5 DEF RunsInv
<1>11. CASE CancelJob(c)
  <2>1. /\ CallerAt(c, "cancel.job") /\ CallReturn(c) /\ UNCHANGED <<status, leftOpen>>
        /\ x \in Executions
    BY <1>1, <1>11 DEF CancelJob, CallerAt
  <2>2. /\ caller'[c] = Free
        /\ \A d \in Callers \ {c} : caller'[d] = caller[d]
    BY <2>1, CallerReturns
  <2>3. /\ UNCHANGED worker
        /\ \/ Waiting(x) = {} /\ UNCHANGED queue
           \/ \E i \in Waiting(x) : queue' = RemoveAt(queue, i)
    BY <1>11 DEF CancelJob, RowsInv, Undisturbed, At
  <2>4. /\ Single(e)' /\ (Waiting(e) = {} => Waiting(e)' = {})
        /\ x = e => Waiting(e)' = {}
    <3>1. CASE Waiting(x) = {} /\ UNCHANGED queue
      BY <1>4, <3>1
    <3>2. CASE \E i \in Waiting(x) : queue' = RemoveAt(queue, i)
      <4>1. PICK i \in DOMAIN queue : queue[i].execution = x /\ queue' = RemoveAt(queue, i)
        BY <3>2 DEF Waiting
      <4> QED
        BY <1>3, <4>1, RemovedJob
    <3> QED
      BY <2>3, <3>1, <3>2
  <2> QED
    BY <1>5, <2>1, <2>2, <2>3, <2>4, CallerAside
<1>12. ASSUME RetryReset(c), x = e PROVE RunsInv(e)'
  <2>1. /\ CallerAt(c, "retry.reset") /\ CallGoto(c, "retry.clear") /\ SetStatus(e, "PENDING")
        /\ UNCHANGED <<queue, worker, leftOpen>>
    BY <1>12 DEF RetryReset
  <2>2. /\ OneCaller(e)' /\ leftOpen'[e] = {}
        /\ \A d \in Callers : caller'[d].execution = e => d = c
        /\ (AddsJob(c, e)' => AddsJob(c, e)) => OneSource(e)'
    BY <1>6, <1>12, <2>1 DEF CallerAt, CallerPoints, RunsInv
  <2>3. status'[e] = "PENDING" /\ AddsJob(c, e)
    BY <1>12, <2>1, StatusType DEF Statuses, AddsJob, CallerAt
  <2> QED
    BY <2>2, <2>3 DEF RunsInv, StatusFits, CancelGoesOn
<1>13. ASSUME RetryClear(c), x = e PROVE RunsInv(e)'
  <2>1. CallerAt(c, "retry.clear") /\ CallGoto(c, "add") /\ UNCHANGED <<status, queue>>
    BY <1>13 DEF RetryClear
  <2>2. leftOpen'[e] = {}
    BY <1>13 DEF RetryClear, TypeOK
  <2>3. /\ OneCaller(e)'
        /\ \A d \in Callers : caller'[d].execution = e => d = c
        /\ (AddsJob(c, e)' => AddsJob(c, e)) => OneSource(e)'
    BY <1>6, <1>13, <2>1, <2>2, RowsCleared DEF CallerAt, CallerPoints
  <2>4. status'[e] = "PENDING" /\ AddsJob(c, e)
    BY <1>13, <2>1 DEF RunsInv, StatusFits, AddsJob, CallerAt
  <2> QED
    BY <2>2, <2>3, <2>4 DEF RunsInv, StatusFits, CancelGoesOn
<1>14. CASE CallerReject(c)
  <2>1. CallReturn(c) /\ x # e /\ UNCHANGED <<status, queue, worker, leftOpen>>
    BY <1>14 DEF CallerReject
  <2>2. /\ caller'[c] = Free
        /\ \A d \in Callers \ {c} : caller'[d] = caller[d]
    BY <2>1, CallerReturns
  <2> QED
    BY <1>4, <1>5, <2>1, <2>2, CallerAside
<1> QED
  BY <1>2, <1>7, <1>8, <1>9, <1>10, <1>11, <1>12, <1>13, <1>14 DEF CallerStep

\* A worker runs its job, or takes the next.
LEMMA WorkerRunStep ==
  ASSUME TypeOK, RowsInv, NEW e \in Executions, RunsInv(e), Undisturbed(e), NEW w \in Workers,
         OthersStay(w), WorkerStep(w) \/ WorkerReject(w) \/ Crash(w),
         e \notin disturbed', crashes' = crashes
  PROVE  RunsInv(e)'
<1> USE Points DEF Statuses
<1>1. ASSUME ~At(w, "idle")
      PROVE  Running(w) \in Executions /\ worker[w].step \in Nat
  BY <1>1 DEF At, Running, TypeOK, WorkerStates
<1>2. \A v \in Workers \ {w} : worker'[v] = worker[v]
  BY DEF OthersStay
<1>3. CASE Take(w)
  <2>1. At(w, "idle") /\ queue # <<>> /\ queue' = Tail(queue)
        /\ UNCHANGED <<status, caller, leftOpen>>
    BY <1>3 DEF Take
  <2>2. worker'[w].at = "mark" /\ worker'[w].execution = Head(queue).execution
    BY <1>3, TakeEffect
  <2>3. Single(e)
    BY DEF RunsInv, OneSource, Single
  <2>4. ~Runs(w, e) /\ (Runs(w, e)' <=> Head(queue).execution = e)
    BY <2>1, <2>2 DEF Runs, Busy, At, Running
  <2>5. \A v \in Workers \ {w} : Runs(v, e)' <=> Runs(v, e)
    BY <1>2 DEF Runs, Busy, Running
  <2>6. \A c \in Callers : AddsJob(c, e)' <=> AddsJob(c, e)
    BY <2>1 DEF AddsJob
  <2>7. OneCaller(e)' /\ leftOpen'[e] = {} /\ Single(e)'
    BY <2>1, <2>3, TakenJob DEF RunsInv, OneCaller
  <2>8. CASE Head(queue).execution = e
    <3>1. Waiting(e) # {} /\ Waiting(e)' = {}
      BY <2>1, <2>3, <2>8, TakenJob
    <3>2. \A v \in Workers : ~Runs(v, e)
      BY <3>1 DEF RunsInv, OneSource
    <3>3. \A c \in Callers : ~AddsJob(c, e)
      BY <3>1 DEF RunsInv, OneSource
    <3>4. OneSource(e)' /\ CancelGoesOn(e)'
      BY <2>5, <2>6, <3>1, <3>2, <3>3 DEF OneSource, CancelGoesOn
    <3>5. StatusFits(e)'
      BY <2>1, <3>1, <3>3 DEF RunsInv, StatusFits, AddsJob
    <3> QED
      BY <2>7, <3>4, <3>5 DEF RunsInv
  <2>9. CASE Head(queue).execution # e
    <3>1. Waiting(e)' = {} <=> Waiting(e) = {}
      BY <2>1, <2>3, <2>9, TakenJob
    <3>2. \A v \in Workers : Runs(v, e)' <=> Runs(v, e)
      BY <2>4, <2>5, <2>9
    <3>3. OneSource(e)'
      BY <2>6, <2>7, <3>1, <3>2 DEF RunsInv, OneSource, Single
    <3>4. StatusFits(e)' /\ CancelGoesOn(e)'
      BY <2>1, <3>1, <3>2 DEF RunsInv, StatusFits, CancelGoesOn
    <3> QED
      BY <2>7, <3>3, <3>4 DEF RunsInv
  <2> QED
    BY <2>8, <2>9
\* The worker stays with its execution.
<1>4. ASSUME UNCHANGED <<queue, caller, leftOpen>>, ~At(w, "idle"), Busy(w),
             worker'[w].execution = worker[w].execution,
             \/ UNCHANGED status
             \/ SetStatus(Running(w), "RUNNING") \/ SetStatus(Running(w), "COMPLETED")
             \/ SetStatus(Running(w), "FAILED") /\ worker'[w].at = "ack"
      PROVE  RunsInv(e)'
  <2>1. Runs(w, e)' => Runs(w, e)
    BY <1>4 DEF Runs, Running
  <2>2. CASE Running(w) # e
    <3>1. status'[e] = status[e]
      BY <1>1, <1>4, <2>2, StatusType
    <3> QED
      BY <1>2, <1>4, <2>1, <3>1, WorkerAside
  <2>3. CASE Running(w) = e
    <3>1. Runs(w, e)
      BY <1>4, <2>3 DEF Runs
    <3>2. worker'[w].at = "ack" => ~Runs(w, e)'
      BY DEF Runs, Busy
    <3>3. \/ status'[e] = status[e]
          \/ status'[e] \in {"RUNNING", "COMPLETED"}
          \/ ~Runs(w, e)' /\ status'[e] = "FAILED"
      BY <1>4, <2>3, <3>2, StatusType
    <3> QED
      BY <1>2, <1>4, <2>1, <3>1, <3>3, WorkerAside
  <2> QED
    BY <2>2, <2>3
<1>5. CASE MarkRunning(w) \/ SkipAction(w) \/ FinishAction(w)
  <2>1. /\ ~At(w, "idle") /\ Busy(w) /\ UNCHANGED <<queue, caller, leftOpen>>
        /\ UNCHANGED status \/ SetStatus(Running(w), "RUNNING")
        /\ EnterStep(w, 1) \/ EnterStep(w, worker[w].step + 1)
    BY <1>5 DEF MarkRunning, SkipAction, FinishAction, At, Busy
  <2>2. worker'[w].execution = worker[w].execution
    BY <1>1, <2>1, WorkerEnter
  <2> QED
    BY <1>4, <2>1, <2>2
<1>6. CASE CreateRow(w) \/ StartAction(w) \/ PerformAction(w) \/ ActionThrows(w) \/ FailAction(w)
  <2>1. /\ ~At(w, "idle") /\ Busy(w) /\ UNCHANGED <<queue, caller, leftOpen, status>>
    BY <1>6 DEF CreateRow, StartAction, PerformAction, ActionThrows, FailAction, At, Busy
  <2>2. \/ \E at \in {"finish", "rowfail"} : Goto(w, at)
        \/ \E at \in {"start", "skip", "perform", "fail"},
              row \in {"none", "PENDING", "RUNNING"} : GotoWithRow(w, at, row)
    BY <1>6 DEF CreateRow, StartAction, PerformAction, ActionThrows, FailAction
  <2>3. worker'[w].execution = worker[w].execution
    BY <2>1, <2>2, WorkerGoto, WorkerGotoWithRow
  <2> QED
    BY <1>4, <2>1, <2>3
<1>7. CASE Complete(w) \/ Fail(w)
  <2>1. /\ ~At(w, "idle") /\ Busy(w) /\ UNCHANGED <<queue, caller, leftOpen>> /\ Goto(w, "ack")
        /\ SetStatus(Running(w), "COMPLETED") \/ SetStatus(Running(w), "FAILED")
    BY <1>7 DEF Complete, Fail, At, Busy
  <2>2. worker'[w].execution = worker[w].execution /\ worker'[w].at = "ack"
    BY <2>1, WorkerGoto
  <2> QED
    BY <1>4, <2>1, <2>2
<1>8. CASE Acknowledge(w)
  <2>1. /\ worker' = [worker EXCEPT ![w] = Idle] /\ UNCHANGED <<status, queue, caller, leftOpen>>
    BY <1>8 DEF Acknowledge
  <2>2. ~Runs(w, e)'
    BY <2>1, WorkerIdle DEF Runs, Busy, Idle
  <2> QED
    BY <1>2, <2>1, <2>2, WorkerAside
<1>9. CASE Recover(w) \/ Crash(w)
  <2>1. crashes' = crashes + 1 \/ At(w, "stopped")
    BY <1>9 DEF Recover, Crash
  <2> QED
    BY <2>1 DEF RowsInv, Undisturbed, At
<1>10. CASE WorkerReject(w)
  <2>1. ~At(w, "idle") /\ Running(w) # e /\ UNCHANGED <<status, queue, caller>>
    BY <1>10 DEF WorkerReject, At
  <2>2. \/ \E at \in {"fail", "rowfail", "ack"} : Goto(w, at)
        \/ GotoWithRow(w, "fail", "none")
    BY <1>10 DEF WorkerReject
  <2>3. worker'[w].execution = worker[w].execution
    BY <2>1, <2>2, WorkerGoto, WorkerGotoWithRow
  <2>4. ~Runs(w, e)'
    BY <2>1, <2>3 DEF Runs, Running
  <2>5. leftOpen'[e] = leftOpen[e]
    BY <2>1, <1>10 DEF WorkerReject, TypeOK
  <2> QED
    BY <1>2, <2>1, <2>4, <2>5, WorkerAside
<1> QED
  BY <1>3, <1>5, <1>6, <1>7, <1>8, <1>9, <1>10 DEF WorkerStep

-----------------------------------------------------------------------------
(* The theorems.                                                           *)

LEMMA RunInit == Init => RunInv
<1> SUFFICES ASSUME Init PROVE RunInv
  OBVIOUS
<1>1. Idle.at = "idle" /\ Idle.row = "none" /\ Free.execution = NoExecution /\ Free.at = "idle"
  BY DEF Idle, Free
<1>2. WorkflowInv
  BY WorkflowInit
<1>3. RowsInv
  BY <1>1 DEF Init, RowsInv
<1>4. ASSUME NEW e \in Executions PROVE RunsInv(e)
  <2>1. Waiting(e) = {}
    BY DEF Init, Waiting
  <2>2. \A w \in Workers : ~Runs(w, e)
    BY <1>1 DEF Init, Runs, Busy
  <2>3. \A c \in Callers : caller[c].execution # e
    BY <1>1, WorkflowAssumption DEF Init
  <2>4. leftOpen[e] = {}
    BY DEF Init
  <2> QED
    BY <2>1, <2>2, <2>3, <2>4 DEF RunsInv, OneCaller, OneSource, StatusFits, CancelGoesOn, AddsJob
<1> QED
  BY <1>2, <1>3, <1>4 DEF RunInv

LEMMA RunStep == RunInv /\ [Next]_vars => RunInv'
<1> SUFFICES ASSUME RunInv, [Next]_vars PROVE RunInv'
  OBVIOUS
<1>1. TypeOK /\ RowsInv /\ \A w \in Workers : WorkerInv(w)
  BY DEF RunInv, WorkflowInv
<1>2. WorkflowInv'
  BY WorkflowStep DEF RunInv
<1>3. CASE UNCHANGED vars
  <2>1. RowsInv'
    BY <1>1, <1>3 DEF vars, RowsInv
  <2>2. \A e \in Executions : Undisturbed(e)' => RunsInv(e)'
    BY <1>3 DEF RunInv, vars, Undisturbed, RunsInv, OneCaller, OneSource, StatusFits,
       CancelGoesOn, AddsJob, Runs, Busy, Running, Waiting
  <2> QED
    BY <1>2, <2>1, <2>2 DEF RunInv
<1>4. ASSUME NEW c \in Callers, TriggerCreate(c) \/ CancelFind(c) \/ RetryFind(c)
                                \/ CallerStep(c) \/ CallerReject(c)
      PROVE  RowsInv' /\ \A e \in Executions : Undisturbed(e)' => RunsInv(e)'
  <2>1. RowsInv'
    BY <1>1, <1>4, CallerRowsStep
  <2>2. ASSUME NEW e \in Executions, Undisturbed(e)' PROVE RunsInv(e)'
    <3>1. Undisturbed(e)
      BY <1>1, <2>2, StaysUndisturbed
    <3>2. RunsInv(e) /\ e \notin disturbed'
      BY <2>2, <3>1 DEF RunInv, Undisturbed
    <3> QED
      BY <1>1, <1>4, <3>1, <3>2, CallerRunStep
  <2> QED
    BY <2>1, <2>2
<1>5. ASSUME NEW w \in Workers, WorkerStep(w) \/ WorkerReject(w) \/ Crash(w)
      PROVE  RowsInv' /\ \A e \in Executions : Undisturbed(e)' => RunsInv(e)'
  <2>1. OthersStay(w)
    BY <1>1, <1>5, WorkerTypeStep
  <2>2. RowsInv'
    BY <1>1, <1>5, <2>1, WorkerRowsStep
  <2>3. ASSUME NEW e \in Executions, Undisturbed(e)' PROVE RunsInv(e)'
    <3>1. Undisturbed(e) /\ crashes' = crashes
      BY <1>1, <2>3, StaysUndisturbed
    <3>2. RunsInv(e) /\ e \notin disturbed'
      BY <2>3, <3>1 DEF RunInv, Undisturbed
    <3> QED
      BY <1>1, <1>5, <2>1, <3>1, <3>2, WorkerRunStep
  <2> QED
    BY <2>2, <2>3
<1> QED
  BY <1>2, <1>3, <1>4, <1>5 DEF Next, RunInv

\* The inductive invariant, with what an undisturbed execution keeps.
THEOREM RunInvariant == Spec => []RunInv
  BY RunInit, RunStep, PTL DEF Spec

\* However callers retry and cancel, no two workers run the same execution.
THEOREM NeverRunsTwice == Spec => []OneRunner
<1>1. RunInv => OneRunner
  <2> SUFFICES ASSUME RunInv, crashes = 0, NEW e \in Executions \ disturbed
               PROVE  Cardinality({w \in Workers : Busy(w) /\ Running(w) = e}) <= 1
    BY DEF OneRunner
  <2> DEFINE S == {w \in Workers : Runs(w, e)}
  <2>1. \A w, v \in S : w = v
    BY DEF RunInv, Undisturbed, RunsInv, OneSource
  <2>2. Cardinality(S) <= 1
    <3>1. CASE S = {}
      BY <3>1, FS_EmptySet
    <3>2. CASE S # {}
      <4>1. PICK w \in S : S = {w}
        BY <2>1, <3>2
      <4> QED
        BY <4>1, FS_Singleton
    <3> QED
      BY <3>1, <3>2
  <2> QED
    BY <2>2 DEF Runs
<1> QED
  BY <1>1, RunInvariant, PTL

\* When the cancellation of an execution is over, none of its jobs waits.
THEOREM CancelTakesEffect == Spec => []CancelledNeverStarts
<1>1. RunInv => CancelledNeverStarts
  BY DEF RunInv, Undisturbed, RunsInv, CancelGoesOn, CancelledNeverStarts, Quiet
<1> QED
  BY <1>1, RunInvariant, PTL

\* No row is left PENDING or RUNNING when nothing works on the execution.
THEOREM NoRowIsLeftOpen == Spec => []RowsAreClosed
<1>1. RunInv => RowsAreClosed
  BY DEF RunInv, Undisturbed, RunsInv, RowsAreClosed
<1> QED
  BY <1>1, RunInvariant, PTL

=============================================================================
