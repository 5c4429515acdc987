--------------------------- MODULE WorkflowProofs ---------------------------
(***************************************************************************)
(* Theorems about Workflow, for any number of executions, actions, workers *)
(* and callers, and any failures: a COMPLETED execution has performed or   *)
(* skipped every action, and no execution is forgotten.                    *)
(***************************************************************************)
EXTENDS Workflow, TLAPS

\* The record of another worker, or another field of the same, stays.
LEMMA WorkerMove ==
  ASSUME TypeOK, NEW w \in Workers, ~At(w, "idle"),
         NEW at \in WorkerPoints, NEW row \in Statuses, NEW step \in Nat,
         worker' = [worker EXCEPT ![w].step = step, ![w].row = row, ![w].at = at]
  PROVE  /\ worker' \in [Workers -> WorkerStates]
         /\ \A v \in Workers : worker'[v].at # "idle" => worker'[v].execution \in Executions
         /\ worker'[w].at = at /\ worker'[w].step = step
         /\ \A v \in Workers : worker'[v].execution = worker[v].execution
         /\ \A v \in Workers \ {w} : worker'[v] = worker[v]
  BY DEF TypeOK, WorkerStates, At

LEMMA WorkerGoto ==
  ASSUME TypeOK, NEW w \in Workers, ~At(w, "idle"), NEW at \in WorkerPoints, Goto(w, at)
  PROVE  /\ worker' \in [Workers -> WorkerStates]
         /\ \A v \in Workers : worker'[v].at # "idle" => worker'[v].execution \in Executions
         /\ worker'[w].at = at /\ worker'[w].step = worker[w].step
         /\ \A v \in Workers : worker'[v].execution = worker[v].execution
         /\ \A v \in Workers \ {w} : worker'[v] = worker[v]
  BY DEF TypeOK, WorkerStates, At, Goto

LEMMA WorkerGotoWithRow ==
  ASSUME TypeOK, NEW w \in Workers, ~At(w, "idle"), NEW at \in WorkerPoints,
         NEW row \in Statuses, GotoWithRow(w, at, row)
  PROVE  /\ worker' \in [Workers -> WorkerStates]
         /\ \A v \in Workers : worker'[v].at # "idle" => worker'[v].execution \in Executions
         /\ worker'[w].at = at /\ worker'[w].step = worker[w].step
         /\ \A v \in Workers : worker'[v].execution = worker[v].execution
         /\ \A v \in Workers \ {w} : worker'[v] = worker[v]
  BY DEF TypeOK, WorkerStates, At, GotoWithRow

\* The loop goes on with the given action, or ends after the last.
LEMMA WorkerEnter ==
  ASSUME TypeOK, NEW w \in Workers, ~At(w, "idle"), NEW step \in Nat, EnterStep(w, step)
  PROVE  /\ worker' \in [Workers -> WorkerStates]
         /\ \A v \in Workers : worker'[v].at # "idle" => worker'[v].execution \in Executions
         /\ worker'[w].at = IF step \in Steps THEN "create" ELSE "complete"
         /\ worker'[w].step = step
         /\ \A v \in Workers : worker'[v].execution = worker[v].execution
         /\ \A v \in Workers \ {w} : worker'[v] = worker[v]
<1> DEFINE at == IF step \in Steps THEN "create" ELSE "complete"
<1>1. at \in WorkerPoints
  BY DEF WorkerPoints
<1>2. "none" \in Statuses
  BY DEF Statuses
<1>3. worker' = [worker EXCEPT ![w].step = step, ![w].row = "none", ![w].at = at]
  BY DEF EnterStep
<1> HIDE DEF at
<1>4. /\ worker' \in [Workers -> WorkerStates]
      /\ \A v \in Workers : worker'[v].at # "idle" => worker'[v].execution \in Executions
      /\ worker'[w].at = at /\ worker'[w].step = step
      /\ \A v \in Workers : worker'[v].execution = worker[v].execution
      /\ \A v \in Workers \ {w} : worker'[v] = worker[v]
  BY <1>1, <1>2, <1>3, WorkerMove
<1> QED
  BY <1>4 DEF at

\* The rows under some workers change.
LEMMA WorkerRows ==
  ASSUME TypeOK, NEW V \in SUBSET Workers, NEW row \in Statuses, worker' = [w \in Workers |->
           IF w \in V THEN [worker[w] EXCEPT !.row = row] ELSE worker[w]]
  PROVE  /\ worker' \in [Workers -> WorkerStates]
         /\ \A v \in Workers : worker'[v].at # "idle" => worker'[v].execution \in Executions
         /\ \A v \in Workers : /\ worker'[v].at = worker[v].at
                               /\ worker'[v].step = worker[v].step
                               /\ worker'[v].execution = worker[v].execution
<1>1. ASSUME NEW v \in Workers
      PROVE  /\ worker'[v] \in WorkerStates
             /\ worker'[v].at = worker[v].at
             /\ worker'[v].step = worker[v].step
             /\ worker'[v].execution = worker[v].execution
  <2>1. worker[v] \in WorkerStates
    BY DEF TypeOK
  <2>2. worker'[v] = IF v \in V THEN [worker[v] EXCEPT !.row = row] ELSE worker[v]
    OBVIOUS
  <2> QED
    BY <2>1, <2>2 DEF WorkerStates
<1>2. worker' \in [Workers -> WorkerStates]
  BY <1>1
<1> QED
  BY <1>1, <1>2 DEF TypeOK

LEMMA RowsCancelled ==
  ASSUME TypeOK, NEW c \in Callers, CancelRows(c)
  PROVE  /\ worker' \in [Workers -> WorkerStates]
         /\ \A v \in Workers : worker'[v].at # "idle" => worker'[v].execution \in Executions
         /\ \A v \in Workers : /\ worker'[v].at = worker[v].at
                               /\ worker'[v].step = worker[v].step
                               /\ worker'[v].execution = worker[v].execution
<1> DEFINE V == {w \in Workers :
                   worker[w].execution = caller[c].execution /\ worker[w].row = "PENDING"}
<1>1. worker' = [w \in Workers |->
         IF w \in V THEN [worker[w] EXCEPT !.row = "CANCELLED"] ELSE worker[w]]
  BY DEF CancelRows
<1>2. V \in SUBSET Workers /\ "CANCELLED" \in Statuses
  BY DEF Statuses
<1> HIDE DEF V
<1> QED
  BY <1>1, <1>2, WorkerRows

LEMMA RowsCleared ==
  ASSUME TypeOK, NEW c \in Callers, RetryClear(c)
  PROVE  /\ worker' \in [Workers -> WorkerStates]
         /\ \A v \in Workers : worker'[v].at # "idle" => worker'[v].execution \in Executions
         /\ \A v \in Workers : /\ worker'[v].at = worker[v].at
                               /\ worker'[v].step = worker[v].step
                               /\ worker'[v].execution = worker[v].execution
<1> DEFINE V == {w \in Workers : worker[w].execution = caller[c].execution}
<1>1. worker' = [w \in Workers |->
         IF w \in V THEN [worker[w] EXCEPT !.row = "none"] ELSE worker[w]]
  BY DEF RetryClear
<1>2. V \in SUBSET Workers /\ "none" \in Statuses
  BY DEF Statuses
<1> HIDE DEF V
<1> QED
  BY <1>1, <1>2, WorkerRows

\* A worker becomes idle.
LEMMA WorkerIdle ==
  ASSUME TypeOK, NEW w \in Workers, worker' = [worker EXCEPT ![w] = Idle]
  PROVE  /\ worker' \in [Workers -> WorkerStates]
         /\ \A v \in Workers : worker'[v].at # "idle" => worker'[v].execution \in Executions
         /\ worker'[w] = Idle
         /\ \A v \in Workers \ {w} : worker'[v] = worker[v]
<1>1. Idle \in WorkerStates /\ Idle.at = "idle"
  BY WorkflowAssumption DEF Idle, WorkerStates, WorkerPoints, Statuses
<1> QED
  BY <1>1 DEF TypeOK

LEMMA CallerBegins ==
  ASSUME TypeOK, NEW c \in Callers, NEW e \in Executions, NEW point \in CallerPoints,
         CallBegin(c, e, point)
  PROVE  /\ caller' \in [Callers -> CallerStates]
         /\ \A d \in Callers : caller'[d].at # "idle" => caller'[d].execution \in Executions
         /\ caller'[c] = [at |-> point, execution |-> e]
         /\ \A d \in Callers \ {c} : caller'[d] = caller[d]
         /\ disturbed \subseteq disturbed' /\ disturbed' \subseteq Executions
         /\ (\E d \in Callers : caller[d].execution = e) => e \in disturbed'
  BY DEF TypeOK, CallBegin, CallerStates

LEMMA CallerGoes ==
  ASSUME TypeOK, NEW c \in Callers, ~CallerAt(c, "idle"), NEW point \in CallerPoints,
         CallGoto(c, point)
  PROVE  /\ caller' \in [Callers -> CallerStates]
         /\ \A d \in Callers : caller'[d].at # "idle" => caller'[d].execution \in Executions
         /\ caller'[c].at = point /\ caller'[c].execution = caller[c].execution
         /\ \A d \in Callers \ {c} : caller'[d] = caller[d]
  BY DEF TypeOK, CallGoto, CallerStates, CallerAt

LEMMA CallerReturns ==
  ASSUME TypeOK, NEW c \in Callers, CallReturn(c)
  PROVE  /\ caller' \in [Callers -> CallerStates]
         /\ \A d \in Callers : caller'[d].at # "idle" => caller'[d].execution \in Executions
         /\ caller'[c] = Free
         /\ \A d \in Callers \ {c} : caller'[d] = caller[d]
<1>1. Free \in CallerStates /\ Free.at = "idle"
  BY DEF Free, CallerStates, CallerPoints
<1> QED
  BY <1>1 DEF TypeOK, CallReturn

LEMMA RemoveAtType ==
  ASSUME NEW S, NEW s \in Seq(S), NEW i \in DOMAIN s
  PROVE  RemoveAt(s, i) \in Seq(S)
<1>1. i \in 1..Len(s) /\ Len(s) \in Nat
  OBVIOUS
<1>2. SubSeq(s, 1, i-1) \in Seq(S)
  BY <1>1
<1>3. SubSeq(s, i+1, Len(s)) \in Seq(S)
  BY <1>1
<1> QED
  BY <1>2, <1>3 DEF RemoveAt

-----------------------------------------------------------------------------
(* Types.                                                                  *)

\* What a new status, or the deletion of rows, leaves of the type invariant.
LEMMA StatusType ==
  ASSUME TypeOK, NEW e \in Executions, NEW s \in Statuses, SetStatus(e, s)
  PROVE  /\ status' \in [Executions -> Statuses]
         /\ status'[e] = s
         /\ \A x \in Executions \ {e} : status'[x] = status[x]
  BY DEF TypeOK, SetStatus

LEMMA OpenType ==
  ASSUME TypeOK, NEW w \in Workers, ~At(w, "idle"),
         leftOpen' = [leftOpen EXCEPT ![Running(w)] = @ \cup ({worker[w].row} \cap Active)]
  PROVE  leftOpen' \in [Executions -> SUBSET {"PENDING", "RUNNING"}]
  BY DEF TypeOK, At, Running, Active

LEMMA SettleType ==
  ASSUME TypeOK, NEW w \in Workers, ~At(w, "idle"), worker[w].step \in Steps, Settle(w)
  PROVE  /\ settled' \in [Executions -> SUBSET Steps]
         /\ \A e \in Executions : settled[e] \subseteq settled'[e]
         /\ worker[w].step \in settled'[Running(w)]
  BY DEF TypeOK, At, Running, Settle

LEMMA CallerTypeStep ==
  ASSUME TypeOK, NEW c \in Callers,
         TriggerCreate(c) \/ CancelFind(c) \/ RetryFind(c) \/ CallerStep(c) \/ CallerReject(c)
  PROVE  TypeOK'
<1> USE DEF Statuses, CallerPoints
<1>1. CASE TriggerCreate(c)
  <2>1. PICK e \in Executions : SetStatus(e, "PENDING") /\ CallBegin(c, e, "add")
    BY <1>1 DEF TriggerCreate
  <2>2. UNCHANGED <<queue, worker, leftOpen, settled, crashes>>
    BY <1>1 DEF TriggerCreate
  <2>3. status' \in [Executions -> Statuses]
    BY <2>1, StatusType
  <2>4. /\ caller' \in [Callers -> CallerStates] /\ disturbed' \subseteq Executions
        /\ \A d \in Callers : caller'[d].at # "idle" => caller'[d].execution \in Executions
    BY <2>1, CallerBegins
  <2> QED
    BY <2>2, <2>3, <2>4 DEF TypeOK
<1>2. CASE CancelFind(c)
  <2>1. PICK e \in Executions : CallBegin(c, e, "cancel.mark")
    BY <1>2 DEF CancelFind
  <2> QED
    BY <1>2, <2>1, CallerBegins DEF CancelFind, TypeOK
<1>3. CASE RetryFind(c)
  <2>1. PICK e \in Executions : CallBegin(c, e, "retry.reset")
    BY <1>3 DEF RetryFind
  <2>2. /\ caller' \in [Callers -> CallerStates] /\ disturbed' \subseteq Executions
        /\ \A d \in Callers : caller'[d].at # "idle" => caller'[d].execution \in Executions
    BY <2>1, CallerBegins
  <2> QED
    BY <1>3, <2>2 DEF RetryFind, TypeOK
<1>4. ASSUME ~CallerAt(c, "idle") PROVE caller[c].execution \in Executions
  BY <1>4 DEF CallerAt, TypeOK
<1>5. CASE AddJob(c)
  <2>1. [execution |-> caller[c].execution, stalls |-> 0] \in JobRecords
    BY <1>4, <1>5, WorkflowAssumption DEF JobRecords, AddJob, CallerAt
  <2>2. queue' \in Seq(JobRecords)
    BY <1>5, <2>1 DEF AddJob, TypeOK
  <2>3. CallReturn(c) /\ UNCHANGED <<status, worker, leftOpen, settled, disturbed, crashes>>
    BY <1>5 DEF AddJob
  <2>4. /\ caller' \in [Callers -> CallerStates]
        /\ \A d \in Callers : caller'[d].at # "idle" => caller'[d].execution \in Executions
    BY <2>3, CallerReturns
  <2> QED
    BY <2>2, <2>3, <2>4 DEF TypeOK
<1>6. CASE CancelMark(c)
  <2>1. ~CallerAt(c, "idle")
    BY <1>6 DEF CancelMark, CallerAt
  <2> QED
    BY <1>4, <1>6, <2>1, StatusType, CallerGoes DEF CancelMark, TypeOK
<1>7. CASE CancelRows(c)
  <2>1. ~CallerAt(c, "idle")
    BY <1>7 DEF CancelRows, CallerAt
  <2>2. /\ worker' \in [Workers -> WorkerStates]
        /\ \A v \in Workers : worker'[v].at # "idle" => worker'[v].execution \in Executions
    BY <1>7, RowsCancelled
  <2>3. leftOpen' \in [Executions -> SUBSET {"PENDING", "RUNNING"}]
    BY <1>7 DEF CancelRows, TypeOK
  <2>4. CallGoto(c, "cancel.job")
    BY <1>7 DEF CancelRows
  <2>5. /\ caller' \in [Callers -> CallerStates]
        /\ \A d \in Callers : caller'[d].at # "idle" => caller'[d].execution \in Executions
    BY <2>1, <2>4, CallerGoes
  <2> QED
    BY <1>7, <2>2, <2>3, <2>5 DEF CancelRows, TypeOK
<1>8. CASE CancelJob(c)
  <2>1. ~CallerAt(c, "idle")
    BY <1>8 DEF CancelJob, CallerAt
  <2>2. queue' \in Seq(JobRecords)
    <3>1. CASE queue' = queue
      BY <3>1 DEF TypeOK
    <3>2. CASE \E i \in Waiting(caller[c].execution) : queue' = RemoveAt(queue, i)
      BY <3>2, RemoveAtType DEF Waiting, TypeOK
    <3> QED
      BY <1>8, <3>1, <3>2 DEF CancelJob
  <2>3. /\ worker' \in [Workers -> WorkerStates]
        /\ \A v \in Workers : worker'[v].at # "idle" => worker'[v].execution \in Executions
    <3>1. CASE worker' = worker
      BY <3>1 DEF TypeOK
    <3>2. CASE \E w \in Workers : worker' = [worker EXCEPT ![w] = Idle]
      BY <3>2, WorkerIdle
    <3> QED
      BY <1>8, <3>1, <3>2 DEF CancelJob
  <2>4. disturbed' \subseteq Executions
    BY <1>4, <1>8, <2>1 DEF CancelJob, TypeOK
  <2>5. CallReturn(c)
    BY <1>8 DEF CancelJob
  <2>6. UNCHANGED <<status, leftOpen, settled, crashes>>
    BY <1>8 DEF CancelJob
  <2>7. /\ caller' \in [Callers -> CallerStates]
        /\ \A d \in Callers : caller'[d].at # "idle" => caller'[d].execution \in Executions
    BY <2>5, CallerReturns
  <2> QED
    BY <2>2, <2>3, <2>4, <2>6, <2>7 DEF TypeOK
<1>9. CASE RetryReset(c)
  <2>1. ~CallerAt(c, "idle")
    BY <1>9 DEF RetryReset, CallerAt
  <2> QED
    BY <1>4, <1>9, <2>1, StatusType, CallerGoes DEF RetryReset, TypeOK
<1>10. CASE RetryClear(c)
  <2>1. ~CallerAt(c, "idle")
    BY <1>10 DEF RetryClear, CallerAt
  <2>2. /\ worker' \in [Workers -> WorkerStates]
        /\ \A v \in Workers : worker'[v].at # "idle" => worker'[v].execution \in Executions
    BY <1>10, RowsCleared
  <2>3. leftOpen' \in [Executions -> SUBSET {"PENDING", "RUNNING"}]
    BY <1>10 DEF RetryClear, TypeOK
  <2>4. CallGoto(c, "add")
    BY <1>10 DEF RetryClear
  <2>5. /\ caller' \in [Callers -> CallerStates]
        /\ \A d \in Callers : caller'[d].at # "idle" => caller'[d].execution \in Executions
    BY <2>1, <2>4, CallerGoes
  <2> QED
    BY <1>10, <2>2, <2>3, <2>5 DEF RetryClear, TypeOK
<1>11. CASE CallerReject(c)
  BY <1>4, <1>11, CallerReturns DEF CallerReject, TypeOK
<1> QED
  BY <1>1, <1>2, <1>3, <1>5, <1>6, <1>7, <1>8, <1>9, <1>10, <1>11 DEF CallerStep

\* What a step does that leaves all but one worker alone.
OthersStay(w) ==
  /\ worker' \in [Workers -> WorkerStates]
  /\ \A v \in Workers : worker'[v].at # "idle" => worker'[v].execution \in Executions
  /\ \A v \in Workers \ {w} : worker'[v] = worker[v]

LEMMA Points ==
  {"idle", "mark", "create", "skip", "start", "perform", "finish", "rowfail",
   "complete", "fail", "ack", "stopped"} \subseteq WorkerPoints
  BY DEF WorkerPoints

\* A worker takes the next job.
LEMMA TakeEffect ==
  ASSUME TypeOK, NEW w \in Workers, Take(w)
  PROVE  /\ OthersStay(w)
         /\ worker'[w].at = "mark" /\ worker'[w].execution = Head(queue).execution
         /\ queue' \in Seq(JobRecords)
<1>1. queue # <<>> /\ queue \in Seq(JobRecords)
  BY DEF Take, TypeOK
<1>2. Head(queue) \in JobRecords /\ Tail(queue) \in Seq(JobRecords)
  BY <1>1
<1> DEFINE job == [Idle EXCEPT !.at = "mark", !.execution = Head(queue).execution,
                               !.stalls = Head(queue).stalls]
<1>3. job \in WorkerStates /\ job.at = "mark" /\ job.execution = Head(queue).execution
      /\ job.execution \in Executions
  BY <1>2 DEF JobRecords, Idle, WorkerStates, WorkerPoints, Statuses
<1>4. worker' = [worker EXCEPT ![w] = job] /\ queue' = Tail(queue)
  BY DEF Take
<1> HIDE DEF job
<1> QED
  BY <1>2, <1>3, <1>4 DEF OthersStay, TypeOK

\* The job of a dead worker goes back to the queue or is given up.
LEMMA RecoverEffect ==
  ASSUME TypeOK, NEW w \in Workers, Recover(w)
  PROVE  /\ OthersStay(w)
         /\ worker'[w] = Idle
         /\ queue' \in Seq(JobRecords)
         /\ disturbed \subseteq disturbed' /\ disturbed' \subseteq Executions
<1>1. Running(w) \in Executions /\ worker[w].stalls \in 0..MaxStalled
  BY DEF Recover, At, TypeOK, Running, WorkerStates
<1>2. worker' = [worker EXCEPT ![w] = Idle]
  BY DEF Recover
<1>3. CASE worker[w].stalls < MaxStalled
  <2>1. worker[w].stalls + 1 \in 0..MaxStalled
    BY <1>1, <1>3, WorkflowAssumption
  <2>2. <<[execution |-> Running(w), stalls |-> worker[w].stalls + 1]>> \in Seq(JobRecords)
    BY <1>1, <2>1 DEF JobRecords
  <2>3. /\ queue' = <<[execution |-> Running(w), stalls |-> worker[w].stalls + 1]>> \o queue
        /\ UNCHANGED disturbed
    BY <1>3, <1>1, WorkflowAssumption DEF Recover
  <2>4. queue' \in Seq(JobRecords)
    BY <2>2, <2>3 DEF TypeOK
  <2> QED
    BY <1>2, <2>3, <2>4, WorkerIdle DEF OthersStay, TypeOK
<1>4. CASE ~(worker[w].stalls < MaxStalled)
  <2>1. disturbed' = disturbed \cup {Running(w)} /\ UNCHANGED queue
    BY <1>4 DEF Recover
  <2> QED
    BY <1>1, <1>2, <2>1, WorkerIdle DEF OthersStay, TypeOK
<1> QED
  BY <1>3, <1>4

LEMMA WorkerTypeStep ==
  ASSUME TypeOK, NEW w \in Workers, WorkerInv(w),
         WorkerStep(w) \/ WorkerReject(w) \/ Crash(w)
  PROVE  TypeOK' /\ OthersStay(w)
<1> USE Points DEF Statuses
<1>1. ASSUME ~At(w, "idle")
      PROVE  Running(w) \in Executions /\ worker[w].step \in Nat
  BY <1>1 DEF At, Running, TypeOK, WorkerStates
<1>2. CASE Take(w)
  <2>1. UNCHANGED <<status, caller, leftOpen, settled, disturbed, crashes>>
    BY <1>2 DEF Take
  <2> QED
    BY <1>2, <2>1, TakeEffect DEF OthersStay, TypeOK
<1>3. CASE MarkRunning(w)
  <2>1. ~At(w, "idle") /\ EnterStep(w, 1) /\ SetStatus(Running(w), "RUNNING")
        /\ UNCHANGED <<queue, caller, leftOpen, settled, disturbed, crashes>>
    BY <1>3 DEF MarkRunning, At
  <2>2. OthersStay(w)
    BY <2>1, WorkerEnter DEF OthersStay
  <2>3. status' \in [Executions -> Statuses]
    BY <1>1, <2>1, StatusType
  <2> QED
    BY <2>1, <2>2, <2>3 DEF OthersStay, TypeOK
<1>4. CASE CreateRow(w)
  <2>1. ~At(w, "idle") /\ UNCHANGED <<status, queue, caller, leftOpen, settled, disturbed, crashes>>
    BY <1>4 DEF CreateRow, At
  <2>2. PICK point \in {"start", "skip"} : GotoWithRow(w, point, "PENDING")
    BY <1>4 DEF CreateRow
  <2>3. OthersStay(w)
    BY <2>1, <2>2, WorkerGotoWithRow DEF OthersStay
  <2> QED
    BY <2>1, <2>3 DEF OthersStay, TypeOK
<1>5. CASE SkipAction(w)
  <2>1. /\ ~At(w, "idle") /\ EnterStep(w, worker[w].step + 1) /\ Settle(w)
        /\ worker[w].step \in Steps
        /\ UNCHANGED <<status, queue, caller, leftOpen, disturbed, crashes>>
    BY <1>5 DEF SkipAction, At, WorkerInv
  <2>2. OthersStay(w)
    BY <1>1, <2>1, WorkerEnter DEF OthersStay
  <2> QED
    BY <2>1, <2>2, SettleType DEF OthersStay, TypeOK
<1>6. CASE StartAction(w)
  <2>1. /\ ~At(w, "idle") /\ GotoWithRow(w, "perform", "RUNNING")
        /\ UNCHANGED <<status, queue, caller, leftOpen, settled, disturbed, crashes>>
    BY <1>6 DEF StartAction, At
  <2> QED
    BY <2>1, WorkerGotoWithRow DEF OthersStay, TypeOK
<1>7. CASE PerformAction(w)
  <2>1. /\ ~At(w, "idle") /\ Goto(w, "finish") /\ Settle(w) /\ worker[w].step \in Steps
        /\ UNCHANGED <<status, queue, caller, leftOpen, disturbed, crashes>>
    BY <1>7 DEF PerformAction, At, WorkerInv
  <2>2. OthersStay(w)
    BY <2>1, WorkerGoto DEF OthersStay
  <2> QED
    BY <2>1, <2>2, SettleType DEF OthersStay, TypeOK
<1>8. CASE FinishAction(w)
  <2>1. /\ ~At(w, "idle") /\ EnterStep(w, worker[w].step + 1)
        /\ UNCHANGED <<status, queue, caller, leftOpen, settled, disturbed, crashes>>
    BY <1>8 DEF FinishAction, At
  <2>2. OthersStay(w)
    BY <1>1, <2>1, WorkerEnter DEF OthersStay
  <2> QED
    BY <2>1, <2>2 DEF OthersStay, TypeOK
<1>9. CASE ActionThrows(w)
  <2>1. /\ ~At(w, "idle") /\ Goto(w, "rowfail")
        /\ UNCHANGED <<status, queue, caller, leftOpen, settled, disturbed, crashes>>
    BY <1>9 DEF ActionThrows, At
  <2> QED
    BY <2>1, WorkerGoto DEF OthersStay, TypeOK
<1>10. CASE FailAction(w)
  <2>1. /\ ~At(w, "idle") /\ GotoWithRow(w, "fail", "none")
        /\ UNCHANGED <<status, queue, caller, leftOpen, settled, disturbed, crashes>>
    BY <1>10 DEF FailAction, At
  <2> QED
    BY <2>1, WorkerGotoWithRow DEF OthersStay, TypeOK
<1>11. CASE Complete(w) \/ Fail(w)
  <2>1. /\ ~At(w, "idle") /\ Goto(w, "ack")
        /\ SetStatus(Running(w), "COMPLETED") \/ SetStatus(Running(w), "FAILED")
        /\ UNCHANGED <<queue, caller, leftOpen, settled, disturbed, crashes>>
    BY <1>11 DEF Complete, Fail, At
  <2>2. OthersStay(w)
    BY <2>1, WorkerGoto DEF OthersStay
  <2>3. status' \in [Executions -> Statuses]
    BY <1>1, <2>1, StatusType
  <2> QED
    BY <2>1, <2>2, <2>3 DEF OthersStay, TypeOK
<1>12. CASE Acknowledge(w)
  <2>1. /\ worker' = [worker EXCEPT ![w] = Idle]
        /\ UNCHANGED <<status, queue, caller, leftOpen, settled, disturbed, crashes>>
    BY <1>12 DEF Acknowledge
  <2> QED
    BY <2>1, WorkerIdle DEF OthersStay, TypeOK
<1>13. CASE Recover(w)
  <2>1. UNCHANGED <<status, caller, leftOpen, settled, crashes>>
    BY <1>13 DEF Recover
  <2> QED
    BY <1>13, <2>1, RecoverEffect DEF OthersStay, TypeOK
<1>14. CASE WorkerReject(w)
  <2>1. /\ ~At(w, "idle") /\ disturbed' = disturbed \cup {Running(w)}
        /\ UNCHANGED <<status, queue, caller, settled, crashes>>
    BY <1>14 DEF WorkerReject, At
  <2>2. OthersStay(w)
    <3>1. \/ \E at \in {"fail", "rowfail", "ack"} : Goto(w, at)
          \/ GotoWithRow(w, "fail", "none")
      BY <1>14 DEF WorkerReject
    <3> QED
      BY <2>1, <3>1, WorkerGoto, WorkerGotoWithRow DEF OthersStay
  <2>3. leftOpen' \in [Executions -> SUBSET {"PENDING", "RUNNING"}]
    BY <1>14, <2>1, OpenType DEF WorkerReject, TypeOK
  <2> QED
    BY <1>1, <2>1, <2>2, <2>3 DEF OthersStay, TypeOK
<1>15. CASE Crash(w)
  <2>1. /\ ~At(w, "idle") /\ GotoWithRow(w, "stopped", "none")
        /\ crashes' = crashes + 1
        /\ UNCHANGED <<status, queue, caller, settled, disturbed>>
    BY <1>15 DEF Crash, At
  <2>2. OthersStay(w)
    BY <2>1, WorkerGotoWithRow DEF OthersStay
  <2>3. leftOpen' \in [Executions -> SUBSET {"PENDING", "RUNNING"}]
    BY <1>15, <2>1, OpenType DEF Crash
  <2> QED
    BY <2>1, <2>2, <2>3 DEF OthersStay, TypeOK
<1> QED
  BY <1>2, <1>3, <1>4, <1>5, <1>6, <1>7, <1>8, <1>9, <1>10, <1>11, <1>12, <1>13, <1>14, <1>15
  DEF WorkerStep

-----------------------------------------------------------------------------
(* COMPLETED executions have every action behind them.                     *)

Grows == \A e \in Executions : settled[e] \subseteq settled'[e]

LEMMA DoneKept ==
  ASSUME TypeOK', CompletedMeansDone, Grows,
         \A e \in Executions : status'[e] = "COMPLETED" => status[e] = "COMPLETED"
  PROVE  CompletedMeansDone'
<1> SUFFICES ASSUME NEW e \in Executions, status'[e] = "COMPLETED"
             PROVE  settled'[e] = Steps
  BY DEF CompletedMeansDone
<1>1. settled[e] = Steps
  BY DEF CompletedMeansDone
<1>2. settled'[e] \subseteq Steps /\ settled[e] \subseteq settled'[e]
  BY DEF TypeOK, Grows
<1> QED
  BY <1>1, <1>2

\* A worker that stays where it is keeps what it has behind it.
LEMMA WorkerKept ==
  ASSUME TypeOK, NEW v \in Workers, WorkerInv(v), Grows, worker'[v].at = worker[v].at,
         worker'[v].step = worker[v].step, worker'[v].execution = worker[v].execution
  PROVE  WorkerInv(v)'
<1>1. Behind(v)' = Behind(v)
  BY DEF Behind
<1>2. CASE At(v, "idle")
  BY <1>2 DEF At, WorkerInv, Behind
<1>3. CASE ~At(v, "idle")
  <2>1. settled[Running(v)] \subseteq settled'[Running(v)]
    BY <1>3 DEF Grows, TypeOK, At, Running
  <2> QED
    BY <1>1, <2>1 DEF WorkerInv, Running
<1> QED
  BY <1>2, <1>3

\* A worker that no action is behind.
LEMMA WorkerFresh ==
  ASSUME NEW v \in Workers, worker'[v].at \in {"idle", "mark", "fail", "ack", "stopped"}
  PROVE  WorkerInv(v)'
  BY DEF WorkerInv, Behind

\* The loop goes on: everything before the next action is behind the worker.
LEMMA EnterBehind ==
  ASSUME TypeOK, NEW w \in Workers, ~At(w, "idle"), NEW step \in 1..(NumSteps + 1),
         EnterStep(w, step), \A s \in Nat : 1 <= s /\ s < step => s \in settled'[Running(w)]
  PROVE  WorkerInv(w)'
<1>1. /\ worker'[w].at = IF step \in Steps THEN "create" ELSE "complete"
      /\ worker'[w].step = step /\ worker'[w].execution = worker[w].execution
  BY WorkerEnter
<1>2. CASE step \in Steps
  <2>1. \A s \in 1..(step - 1) : s \in settled'[Running(w)]
    OBVIOUS
  <2> QED
    BY <1>1, <1>2, <2>1 DEF WorkerInv, Behind, Running
<1>3. CASE step \notin Steps
  <2>1. \A s \in Steps : s \in settled'[Running(w)]
    BY <1>3, WorkflowAssumption DEF Steps
  <2> QED
    BY <1>1, <1>3, <2>1 DEF WorkerInv, Behind, Running
<1> QED
  BY <1>2, <1>3

LEMMA CallerDoneStep ==
  ASSUME TypeOK, TypeOK', CompletedMeansDone, \A v \in Workers : WorkerInv(v), NEW c \in Callers,
         TriggerCreate(c) \/ CancelFind(c) \/ RetryFind(c) \/ CallerStep(c) \/ CallerReject(c)
  PROVE  CompletedMeansDone' /\ \A v \in Workers : WorkerInv(v)'
<1>1. UNCHANGED settled
  BY DEF TriggerCreate, CancelFind, RetryFind, CallerStep, CallerReject, AddJob, CancelMark,
         CancelRows, CancelJob, RetryReset, RetryClear
<1>2. Grows
  BY <1>1 DEF Grows
<1>3. \/ UNCHANGED status
      \/ \E e \in Executions, s \in {"PENDING", "CANCELLED"} : SetStatus(e, s)
  <2>1. ASSUME ~CallerAt(c, "idle") PROVE caller[c].execution \in Executions
    BY <2>1 DEF CallerAt, TypeOK
  <2>2. CASE TriggerCreate(c)
    BY <2>2 DEF TriggerCreate
  <2>3. CASE CancelMark(c)
    BY <2>1, <2>3 DEF CancelMark, CallerAt
  <2>4. CASE RetryReset(c)
    BY <2>1, <2>4 DEF RetryReset, CallerAt
  <2>5. CASE UNCHANGED status
    BY <2>5
  <2> QED
    BY <2>2, <2>3, <2>4, <2>5 DEF CancelFind, RetryFind, CallerStep, CallerReject, AddJob,
       CancelRows, CancelJob, RetryClear
<1>4. \A e \in Executions : status'[e] = "COMPLETED" => status[e] = "COMPLETED"
  BY <1>3, StatusType DEF Statuses
<1>5. ASSUME NEW v \in Workers PROVE WorkerInv(v)'
  <2>1. CASE UNCHANGED worker
    BY <1>2, <2>1, WorkerKept
  <2>2. CASE CancelRows(c)
    BY <1>2, <2>2, RowsCancelled, WorkerKept
  <2>3. CASE RetryClear(c)
    BY <1>2, <2>3, RowsCleared, WorkerKept
  <2>4. ASSUME NEW w \in Workers, worker' = [worker EXCEPT ![w] = Idle]
        PROVE  WorkerInv(v)'
    <3>1. worker'[w] = Idle /\ \A x \in Workers \ {w} : worker'[x] = worker[x]
      BY <2>4, WorkerIdle
    <3>2. CASE v = w
      BY <3>1, <3>2, WorkerFresh DEF Idle
    <3>3. CASE v # w
      BY <1>2, <3>1, <3>3, WorkerKept
    <3> QED
      BY <3>2, <3>3
  <2> QED
    BY <2>1, <2>2, <2>3, <2>4 DEF TriggerCreate, CancelFind, RetryFind, CallerStep,
       CallerReject, AddJob, CancelMark, CancelJob, RetryReset
<1> QED
  BY <1>2, <1>4, <1>5, DoneKept

LEMMA WorkerDoneStep ==
  ASSUME TypeOK, TypeOK', CompletedMeansDone, \A v \in Workers : WorkerInv(v), NEW w \in Workers,
         OthersStay(w), WorkerStep(w) \/ WorkerReject(w) \/ Crash(w)
  PROVE  CompletedMeansDone' /\ \A v \in Workers : WorkerInv(v)'
<1> USE Points DEF Statuses
<1>1. ASSUME ~At(w, "idle")
      PROVE  Running(w) \in Executions /\ worker[w].step \in Nat
  BY <1>1 DEF At, Running, TypeOK, WorkerStates
<1>2. Grows
  <2>1. CASE UNCHANGED settled
    BY <2>1 DEF Grows
  <2>2. CASE SkipAction(w) \/ PerformAction(w)
    <3>1. ~At(w, "idle") /\ worker[w].step \in Steps /\ Settle(w)
      BY <2>2 DEF SkipAction, PerformAction, At, WorkerInv
    <3> QED
      BY <3>1, SettleType DEF Grows
  <2> QED
    BY <2>1, <2>2 DEF WorkerStep, WorkerReject, Crash, Take, MarkRunning, CreateRow,
       StartAction, FinishAction, ActionThrows, FailAction, Complete, Fail, Acknowledge, Recover
<1>3. ASSUME NEW v \in Workers \ {w} PROVE WorkerInv(v)'
  BY <1>2, <1>3, WorkerKept DEF OthersStay
<1>4. WorkerInv(w)'
  <2>1. CASE Take(w) \/ Acknowledge(w) \/ Recover(w)
    <3>1. worker'[w].at \in {"mark", "idle"}
      BY <2>1, TakeEffect, RecoverEffect, WorkerIdle DEF Acknowledge, Idle
    <3> QED
      BY <3>1, WorkerFresh
  <2>2. CASE MarkRunning(w)
    BY <2>2, EnterBehind, WorkflowAssumption DEF MarkRunning, At
  <2>3. CASE CreateRow(w)
    <3>1. PICK point \in {"start", "skip"} : GotoWithRow(w, point, "PENDING")
      BY <2>3 DEF CreateRow
    <3>2. worker'[w].at = point /\ worker'[w].step = worker[w].step
          /\ worker'[w].execution = worker[w].execution
      BY <2>3, <3>1, WorkerGotoWithRow DEF CreateRow, At
    <3> QED
      BY <2>3, <3>2, <1>2, <1>1 DEF CreateRow, At, WorkerInv, Behind, Grows, Running
  <2>4. CASE SkipAction(w)
    <3>1. /\ ~At(w, "idle") /\ worker[w].step \in Steps /\ Settle(w) /\ At(w, "skip")
          /\ EnterStep(w, worker[w].step + 1)
      BY <2>4 DEF SkipAction, At, WorkerInv
    <3>2. worker[w].step \in settled'[Running(w)]
      BY <3>1, SettleType
    <3>3. \A s \in 1..(worker[w].step - 1) : s \in settled'[Running(w)]
      BY <1>1, <1>2, <3>1 DEF WorkerInv, Behind, At, Grows
    <3>4. \A s \in Nat : 1 <= s /\ s < worker[w].step + 1 => s \in settled'[Running(w)]
      BY <1>1, <3>1, <3>2, <3>3
    <3>5. worker[w].step + 1 \in 1..(NumSteps + 1)
      BY <3>1, WorkflowAssumption DEF Steps
    <3> QED
      BY <3>1, <3>4, <3>5, EnterBehind
  <2>5. CASE StartAction(w)
    <3>1. worker'[w].at = "perform" /\ worker'[w].step = worker[w].step
          /\ worker'[w].execution = worker[w].execution /\ At(w, "start")
      BY <2>5, WorkerGotoWithRow DEF StartAction, At
    <3> QED
      BY <3>1, <1>2, <1>1 DEF At, WorkerInv, Behind, Grows, Running
  <2>6. CASE PerformAction(w)
    <3>1. ~At(w, "idle") /\ worker[w].step \in Steps /\ Settle(w) /\ At(w, "perform")
      BY <2>6 DEF PerformAction, At, WorkerInv
    <3>2. worker'[w].at = "finish" /\ worker'[w].step = worker[w].step
          /\ worker'[w].execution = worker[w].execution
      BY <2>6, <3>1, WorkerGoto DEF PerformAction
    <3>3. worker[w].step \in settled'[Running(w)]
      BY <3>1, SettleType
    <3>4. \A s \in 1..(worker[w].step - 1) : s \in settled'[Running(w)]
      BY <1>1, <1>2, <3>1 DEF WorkerInv, Behind, At, Grows
    <3>5. \A s \in 1..worker[w].step : s \in settled'[Running(w)]
      BY <1>1, <3>1, <3>3, <3>4
    <3> QED
      BY <3>1, <3>2, <3>5 DEF WorkerInv, Behind, Running
  <2>7. CASE FinishAction(w)
    <3>1. /\ ~At(w, "idle") /\ worker[w].step \in Steps /\ At(w, "finish")
          /\ EnterStep(w, worker[w].step + 1)
      BY <2>7 DEF FinishAction, At, WorkerInv
    <3>2. \A s \in Nat : 1 <= s /\ s < worker[w].step + 1 => s \in settled'[Running(w)]
      BY <1>1, <1>2, <3>1 DEF WorkerInv, Behind, At, Grows
    <3>3. worker[w].step + 1 \in 1..(NumSteps + 1)
      BY <3>1, WorkflowAssumption DEF Steps
    <3> QED
      BY <3>1, <3>2, <3>3, EnterBehind
  <2>8. CASE ActionThrows(w) \/ (WorkerReject(w) /\ Goto(w, "rowfail"))
    <3>1. worker[w].at \in {"perform", "skip", "start", "finish"}
      BY <2>8, WorkerGoto DEF ActionThrows, WorkerReject, At, Goto, GotoWithRow, TypeOK
    <3>2. worker'[w].at = "rowfail" /\ worker'[w].step = worker[w].step
      BY <2>8, <3>1, WorkerGoto DEF ActionThrows, At
    <3> QED
      BY <3>1, <3>2 DEF WorkerInv, Behind
  <2>9. CASE FailAction(w) \/ Complete(w) \/ Fail(w) \/ Crash(w)
             \/ (WorkerReject(w) /\ ~Goto(w, "rowfail"))
    <3>1. ~At(w, "idle")
      BY <2>9 DEF FailAction, Complete, Fail, Crash, WorkerReject, At
    <3>2. \/ \E at \in {"fail", "ack"} : Goto(w, at)
          \/ \E at \in {"fail", "stopped"} : GotoWithRow(w, at, "none")
      BY <2>9 DEF FailAction, Complete, Fail, Crash, WorkerReject
    <3>3. worker'[w].at \in {"fail", "ack", "stopped"}
      BY <3>1, <3>2, WorkerGoto, WorkerGotoWithRow
    <3> QED
      BY <3>3, WorkerFresh
  <2> QED
    BY <2>1, <2>2, <2>3, <2>4, <2>5, <2>6, <2>7, <2>8, <2>9 DEF WorkerStep
<1>5. CompletedMeansDone'
  <2>1. CASE Complete(w)
    <3>1. SetStatus(Running(w), "COMPLETED") /\ UNCHANGED settled /\ At(w, "complete")
      BY <2>1 DEF Complete
    <3>2. Steps \subseteq settled[Running(w)] /\ Running(w) \in Executions
      BY <1>1, <3>1 DEF WorkerInv, Behind, At
    <3>3. settled[Running(w)] = Steps
      BY <3>2 DEF TypeOK
    <3> QED
      BY <3>1, <3>2, <3>3, StatusType DEF CompletedMeansDone
  <2>2. CASE ~Complete(w)
    <3>1. \/ UNCHANGED status
          \/ ~At(w, "idle") /\ \E s \in {"RUNNING", "FAILED"} : SetStatus(Running(w), s)
      BY <2>2 DEF WorkerStep, WorkerReject, Crash, Take, MarkRunning, CreateRow, SkipAction,
         PerformAction, StartAction, FinishAction, ActionThrows, FailAction, Fail,
         Acknowledge, Recover, At
    <3>2. \A e \in Executions : status'[e] = "COMPLETED" => status[e] = "COMPLETED"
      BY <1>1, <3>1, StatusType
    <3> QED
      BY <1>2, <3>2, DoneKept
  <2> QED
    BY <2>1, <2>2
<1> QED
  BY <1>3, <1>4, <1>5

-----------------------------------------------------------------------------
(* Nothing is forgotten.                                                   *)

WaitsFor(e) == Waiting(e) # {}
WorksFor(w, e) == Running(w) = e /\ worker[w].at \notin {"idle", "ack"}
CallsFor(c, e) == caller[c].execution = e /\ (CallerAt(c, "retry.clear") \/ CallerAt(c, "add"))

LEMMA SeenSplit ==
  ASSUME NEW e \in Executions
  PROVE  /\ SeenTo(e) <=> \/ WaitsFor(e)
                          \/ \E w \in Workers : WorksFor(w, e)
                          \/ \E c \in Callers : CallsFor(c, e)
         /\ SeenTo(e)' <=> \/ WaitsFor(e)'
                           \/ \E w \in Workers : WorksFor(w, e)'
                           \/ \E c \in Callers : CallsFor(c, e)'
  BY DEF SeenTo, WaitsFor, WorksFor, CallsFor

\* A step keeps the promise for an execution that it neither puts back to work
\* nor takes the last help from.
LEMMA SeenKept ==
  ASSUME NeverForgotten, disturbed \subseteq disturbed', NEW e \in Executions \ disturbed',
         status'[e] \in Active => status[e] \in Active,
         WaitsFor(e) => SeenTo(e)',
         \A w \in Workers : WorksFor(w, e) => SeenTo(e)',
         \A c \in Callers : CallsFor(c, e) => SeenTo(e)'
  PROVE  status'[e] \in Active => SeenTo(e)'
  BY SeenSplit DEF NeverForgotten

\* The places of jobs in a queue that grows, shrinks or loses one job.
LEMMA WaitingAppended ==
  ASSUME TypeOK, NEW job \in JobRecords, queue' = Append(queue, job), NEW e \in Executions
  PROVE  /\ job.execution = e => WaitsFor(e)'
         /\ WaitsFor(e) => WaitsFor(e)'
<1>1. queue \in Seq(JobRecords)
  BY DEF TypeOK
<1>2. /\ Len(queue) + 1 \in DOMAIN queue' /\ queue'[Len(queue) + 1] = job
      /\ \A i \in DOMAIN queue : i \in DOMAIN queue' /\ queue'[i] = queue[i]
  BY <1>1
<1> QED
  BY <1>2 DEF WaitsFor, Waiting

LEMMA WaitingPrepended ==
  ASSUME TypeOK, NEW job \in JobRecords, queue' = <<job>> \o queue, NEW e \in Executions
  PROVE  /\ job.execution = e => WaitsFor(e)'
         /\ WaitsFor(e) => WaitsFor(e)'
<1>1. queue \in Seq(JobRecords)
  BY DEF TypeOK
<1>2. /\ 1 \in DOMAIN queue' /\ queue'[1] = job
      /\ \A i \in DOMAIN queue : i + 1 \in DOMAIN queue' /\ queue'[i + 1] = queue[i]
  BY <1>1
<1> QED
  BY <1>2 DEF WaitsFor, Waiting

LEMMA WaitingTaken ==
  ASSUME TypeOK, queue # <<>>, queue' = Tail(queue), NEW e \in Executions
  PROVE  WaitsFor(e) => Head(queue).execution = e \/ WaitsFor(e)'
<1>1. queue \in Seq(JobRecords)
  BY DEF TypeOK
<1>2. \A i \in DOMAIN queue : i = 1 \/ (i - 1 \in DOMAIN queue' /\ queue'[i - 1] = queue[i])
  BY <1>1
<1>3. Head(queue) = queue[1]
  BY <1>1
<1> QED
  BY <1>2, <1>3 DEF WaitsFor, Waiting

LEMMA WaitingRemoved ==
  ASSUME TypeOK, NEW i \in DOMAIN queue, queue' = RemoveAt(queue, i), NEW e \in Executions
  PROVE  WaitsFor(e) => queue[i].execution = e \/ WaitsFor(e)'
<1>1. queue \in Seq(JobRecords) /\ Len(queue) \in Nat /\ i \in 1..Len(queue)
  BY DEF TypeOK
<1> DEFINE front == SubSeq(queue, 1, i - 1)
           back == SubSeq(queue, i + 1, Len(queue))
<1>2. /\ front \in Seq(JobRecords) /\ Len(front) = i - 1
      /\ \A j \in 1..(i - 1) : front[j] = queue[j]
  BY <1>1
<1>3. /\ back \in Seq(JobRecords) /\ Len(back) = Len(queue) - i
      /\ \A j \in 1..(Len(queue) - i) : back[j] = queue[j + i]
  BY <1>1
<1>4. queue' = front \o back
  BY DEF RemoveAt
<1> HIDE DEF front, back
<1>5. ASSUME NEW j \in DOMAIN queue, j # i
      PROVE  \E k \in DOMAIN queue' : queue'[k] = queue[j]
  <2>1. CASE j < i
    <3>1. j \in DOMAIN queue' /\ queue'[j] = queue[j]
      BY <1>1, <1>2, <1>3, <1>4, <2>1
    <3> QED
      BY <3>1
  <2>2. CASE j > i
    <3>1. j - i \in 1..(Len(queue) - i) /\ (j - i) + i = j
      BY <1>1, <2>2
    <3>2. back[j - i] = queue[j]
      BY <1>3, <3>1
    <3>3. j - 1 \in DOMAIN queue' /\ queue'[j - 1] = back[j - i]
      BY <1>1, <1>2, <1>3, <1>4, <2>2
    <3> QED
      BY <3>2, <3>3
  <2> QED
    BY <1>1, <1>5, <2>1, <2>2
<1> QED
  BY <1>5 DEF WaitsFor, Waiting

LEMMA CallerSeenStep ==
  ASSUME TypeOK, NeverForgotten, NEW c \in Callers,
         TriggerCreate(c) \/ CancelFind(c) \/ RetryFind(c) \/ CallerStep(c) \/ CallerReject(c)
  PROVE  NeverForgotten'
<1> USE DEF CallerPoints
<1>1. ASSUME ~CallerAt(c, "idle") PROVE caller[c].execution \in Executions
  BY <1>1 DEF CallerAt, TypeOK
\* Whatever the others do for an execution they go on doing.
<1>2. ASSUME \A d \in Callers \ {c} : caller'[d] = caller[d], NEW e \in Executions,
             NEW d \in Callers \ {c}
      PROVE  CallsFor(d, e) => SeenTo(e)'
  BY <1>2, SeenSplit DEF CallsFor, CallerAt
<1>3. ASSUME \A v \in Workers : /\ worker'[v].at = worker[v].at
                                /\ worker'[v].execution = worker[v].execution,
             NEW e \in Executions, NEW w \in Workers
      PROVE  WorksFor(w, e) => SeenTo(e)'
  BY <1>3, SeenSplit DEF WorksFor, Running, At
<1>4. ASSUME UNCHANGED queue, NEW e \in Executions
      PROVE  WaitsFor(e) => SeenTo(e)'
  BY <1>4, SeenSplit DEF WaitsFor, Waiting
<1>5. SUFFICES ASSUME NEW e \in Executions \ disturbed'
               PROVE  status'[e] \in Active => SeenTo(e)'
  BY DEF NeverForgotten
<1>6. CASE TriggerCreate(c)
  <2>1. PICK x \in Executions : SetStatus(x, "PENDING") /\ CallBegin(c, x, "add")
    BY <1>6 DEF TriggerCreate
  <2>2. CallerAt(c, "idle") /\ UNCHANGED <<queue, worker>>
    BY <1>6 DEF TriggerCreate
  <2>3. /\ caller'[c] = [at |-> "add", execution |-> x] /\ disturbed \subseteq disturbed'
        /\ \A d \in Callers \ {c} : caller'[d] = caller[d]
    BY <2>1, CallerBegins
  <2>4. CASE e = x
    BY <2>3, <2>4, SeenSplit DEF CallsFor, CallerAt
  <2>5. CASE e # x
    <3>1. status'[e] = status[e]
      BY <2>1, <2>5, StatusType DEF Statuses
    <3>2. ~CallsFor(c, e)
      BY <2>2 DEF CallsFor, CallerAt
    <3> QED
      BY <1>2, <1>3, <1>4, <2>2, <2>3, <3>1, <3>2, SeenKept
  <2> QED
    BY <2>4, <2>5
<1>7. CASE CancelFind(c) \/ RetryFind(c)
  <2>1. PICK x \in Executions, point \in {"cancel.mark", "retry.reset"} : CallBegin(c, x, point)
    BY <1>7 DEF CancelFind, RetryFind
  <2>2. CallerAt(c, "idle") /\ UNCHANGED <<status, queue, worker>>
    BY <1>7 DEF CancelFind, RetryFind
  <2>3. disturbed \subseteq disturbed' /\ \A d \in Callers \ {c} : caller'[d] = caller[d]
    <3>1. point \in CallerPoints
      OBVIOUS
    <3> HIDE DEF CallerPoints
    <3> QED
      BY <2>1, <3>1, CallerBegins
  <2>4. ~CallsFor(c, e)
    BY <2>2 DEF CallsFor, CallerAt
  <2> QED
    BY <1>2, <1>3, <1>4, <2>2, <2>3, <2>4, SeenKept
<1>8. CASE AddJob(c)
  <2> DEFINE job == [execution |-> caller[c].execution, stalls |-> 0]
  <2>1. /\ CallerAt(c, "add") /\ CallReturn(c) /\ queue' = Append(queue, job)
        /\ UNCHANGED <<status, worker, disturbed>>
    BY <1>8 DEF AddJob
  <2>2. job \in JobRecords /\ job.execution = caller[c].execution
    BY <1>1, <2>1, WorkflowAssumption DEF JobRecords, CallerAt
  <2> HIDE DEF job
  <2>3. \A d \in Callers \ {c} : caller'[d] = caller[d]
    BY <2>1, CallerReturns
  <2>4. /\ CallsFor(c, e) => SeenTo(e)'
        /\ WaitsFor(e) => SeenTo(e)'
    BY <2>1, <2>2, WaitingAppended, SeenSplit DEF CallsFor
  <2> QED
    BY <1>2, <1>3, <2>1, <2>3, <2>4, SeenKept
<1>9. CASE CancelMark(c) \/ CancelRows(c)
  <2>1. /\ CallerAt(c, "cancel.mark") \/ CallerAt(c, "cancel.rows")
        /\ CallGoto(c, "cancel.rows") \/ CallGoto(c, "cancel.job")
        /\ UNCHANGED <<queue, disturbed>>
    BY <1>9 DEF CancelMark, CancelRows
  <2>2. \A d \in Callers \ {c} : caller'[d] = caller[d]
    BY <2>1, CallerGoes DEF CallerAt
  <2>3. ~CallsFor(c, e)
    BY <2>1 DEF CallsFor, CallerAt
  <2>4. \A v \in Workers : /\ worker'[v].at = worker[v].at
                           /\ worker'[v].execution = worker[v].execution
    BY <1>9, RowsCancelled DEF CancelMark
  <2>5. status'[e] \in Active => status[e] \in Active
    <3>1. CASE CancelMark(c)
      <4>1. SetStatus(caller[c].execution, "CANCELLED") /\ ~CallerAt(c, "idle")
        BY <3>1 DEF CancelMark, CallerAt
      <4> QED
        BY <1>1, <4>1, StatusType DEF Statuses, Active
    <3>2. CASE CancelRows(c)
      BY <3>2 DEF CancelRows
    <3> QED
      BY <1>9, <3>1, <3>2
  <2> QED
    BY <1>2, <1>3, <1>4, <2>1, <2>2, <2>3, <2>4, <2>5, SeenKept
<1>10. CASE CancelJob(c)
  <2> DEFINE x == caller[c].execution
  <2>1. CallerAt(c, "cancel.job") /\ CallReturn(c) /\ UNCHANGED status /\ x \in Executions
    BY <1>1, <1>10 DEF CancelJob, CallerAt
  <2>2. /\ \A d \in Callers \ {c} : caller'[d] = caller[d]
        /\ ~CallsFor(c, e)
    BY <2>1, CallerReturns DEF CallsFor, CallerAt
  <2>3. CASE UNCHANGED <<queue, worker, disturbed>>
    BY <1>2, <1>3, <1>4, <2>1, <2>2, <2>3, SeenKept
  <2>4. CASE disturbed' = IF status[x] = "CANCELLED" THEN disturbed ELSE disturbed \cup {x}
    <3>1. disturbed \subseteq disturbed'
      BY <2>4
    <3>2. CASE e = x
      <4>1. status[x] = "CANCELLED"
        BY <2>4, <3>2
      <4> QED
        BY <2>1, <3>2, <4>1 DEF Active
    <3>3. CASE e # x /\ \E i \in Waiting(x) : queue' = RemoveAt(queue, i) /\ UNCHANGED worker
      <4>1. PICK i \in Waiting(x) : queue' = RemoveAt(queue, i) /\ UNCHANGED worker
        BY <3>3
      <4>2. i \in DOMAIN queue /\ queue[i].execution = x
        BY DEF Waiting
      <4>3. WaitsFor(e) => SeenTo(e)'
        BY <3>3, <4>1, <4>2, WaitingRemoved, SeenSplit
      <4> QED
        BY <1>2, <1>3, <2>1, <2>2, <3>1, <4>1, <4>3, SeenKept
    <3>4. CASE e # x /\ UNCHANGED queue /\ \E w \in Workers :
                 Running(w) = x /\ worker' = [worker EXCEPT ![w] = Idle]
      <4>1. PICK w \in Workers : Running(w) = x /\ worker' = [worker EXCEPT ![w] = Idle]
        BY <3>4
      <4>2. \A v \in Workers \ {w} : worker'[v] = worker[v]
        BY <4>1, WorkerIdle
      <4>3. \A v \in Workers : WorksFor(v, e) => SeenTo(e)'
        BY <3>4, <4>1, <4>2, SeenSplit DEF WorksFor, Running
      <4> QED
        BY <1>2, <1>4, <2>1, <2>2, <3>1, <3>4, <4>3, SeenKept
    <3> QED
      BY <1>10, <2>3, <3>1, <3>2, <3>3, <3>4 DEF CancelJob
  <2> QED
    BY <1>10, <2>3, <2>4 DEF CancelJob
<1>11. CASE RetryReset(c)
  <2>1. /\ CallerAt(c, "retry.reset") /\ CallGoto(c, "retry.clear") /\ UNCHANGED <<queue, worker, disturbed>>
        /\ SetStatus(caller[c].execution, "PENDING") /\ ~CallerAt(c, "idle")
    BY <1>11 DEF RetryReset, CallerAt
  <2>2. /\ \A d \in Callers \ {c} : caller'[d] = caller[d]
        /\ caller'[c].at = "retry.clear" /\ caller'[c].execution = caller[c].execution
    BY <2>1, CallerGoes
  <2>3. CASE e = caller[c].execution
    BY <2>2, <2>3, SeenSplit DEF CallsFor, CallerAt
  <2>4. CASE e # caller[c].execution
    <3>1. status'[e] = status[e]
      BY <1>1, <2>1, <2>4, StatusType DEF Statuses
    <3>2. ~CallsFor(c, e)
      BY <2>4 DEF CallsFor
    <3> QED
      BY <1>2, <1>3, <1>4, <2>1, <2>2, <3>1, <3>2, SeenKept
  <2> QED
    BY <2>3, <2>4
<1>12. CASE RetryClear(c)
  <2>1. CallerAt(c, "retry.clear") /\ CallGoto(c, "add") /\ UNCHANGED <<status, queue, disturbed>>
    BY <1>12 DEF RetryClear
  <2>2. /\ \A d \in Callers \ {c} : caller'[d] = caller[d]
        /\ caller'[c].at = "add" /\ caller'[c].execution = caller[c].execution
    BY <2>1, CallerGoes DEF CallerAt
  <2>3. CallsFor(c, e) => SeenTo(e)'
    BY <2>2, SeenSplit DEF CallsFor, CallerAt
  <2>4. \A v \in Workers : /\ worker'[v].at = worker[v].at
                           /\ worker'[v].execution = worker[v].execution
    BY <1>12, RowsCleared
  <2> QED
    BY <1>2, <1>3, <1>4, <2>1, <2>2, <2>3, <2>4, SeenKept
<1>13. CASE CallerReject(c)
  <2>1. /\ CallReturn(c) /\ UNCHANGED <<status, queue, worker>>
        /\ disturbed' = disturbed \cup {caller[c].execution}
    BY <1>13 DEF CallerReject
  <2>2. \A d \in Callers \ {c} : caller'[d] = caller[d]
    BY <2>1, CallerReturns
  <2>3. ~CallsFor(c, e)
    BY <2>1 DEF CallsFor
  <2> QED
    BY <1>2, <1>3, <1>4, <2>1, <2>2, <2>3, SeenKept
<1> QED
  BY <1>6, <1>7, <1>8, <1>9, <1>10, <1>11, <1>12, <1>13 DEF CallerStep

LEMMA WorkerSeenStep ==
  ASSUME TypeOK, NeverForgotten, NEW w \in Workers, OthersStay(w),
         WorkerStep(w) \/ WorkerReject(w) \/ Crash(w)
  PROVE  NeverForgotten'
<1> USE Points DEF Statuses
<1>1. SUFFICES ASSUME NEW e \in Executions \ disturbed'
               PROVE  status'[e] \in Active => SeenTo(e)'
  BY DEF NeverForgotten
<1>2. UNCHANGED caller
  BY DEF WorkerStep, WorkerReject, Crash, Take, MarkRunning, CreateRow, SkipAction,
     PerformAction, StartAction, FinishAction, ActionThrows, FailAction, Complete, Fail,
     Acknowledge, Recover
<1>3. \A c \in Callers : CallsFor(c, e) => SeenTo(e)'
  BY <1>2, SeenSplit DEF CallsFor, CallerAt
<1>4. \A v \in Workers \ {w} : WorksFor(v, e) => SeenTo(e)'
  BY SeenSplit DEF OthersStay, WorksFor, Running
<1>5. ASSUME UNCHANGED queue PROVE WaitsFor(e) => SeenTo(e)'
  BY <1>5, SeenSplit DEF WaitsFor, Waiting
<1>6. ASSUME ~At(w, "idle") PROVE Running(w) \in Executions /\ worker[w].step \in Nat
  BY <1>6 DEF At, Running, TypeOK, WorkerStates
<1>7. CASE Take(w)
  <2>1. At(w, "idle") /\ queue # <<>> /\ queue' = Tail(queue) /\ UNCHANGED <<status, disturbed>>
    BY <1>7 DEF Take
  <2>2. worker'[w].at = "mark" /\ worker'[w].execution = Head(queue).execution
    BY <1>7, TakeEffect
  <2>3. WaitsFor(e) => SeenTo(e)'
    BY <2>1, <2>2, WaitingTaken, SeenSplit DEF WorksFor, Running
  <2>4. ~WorksFor(w, e)
    BY <2>1 DEF WorksFor, At
  <2> QED
    BY <1>3, <1>4, <2>1, <2>3, <2>4, SeenKept
\* The worker goes on with its job, whatever becomes of the status.
<1>8. ASSUME UNCHANGED <<queue, disturbed>>, worker'[w].execution = worker[w].execution,
             worker'[w].at \notin {"idle", "ack"}, ~At(w, "idle"),
             UNCHANGED status \/ SetStatus(Running(w), "RUNNING")
      PROVE  status'[e] \in Active => SeenTo(e)'
  <2>1. CASE Running(w) = e
    BY <1>8, <2>1, SeenSplit DEF WorksFor, Running
  <2>2. CASE Running(w) # e
    <3>1. status'[e] = status[e]
      BY <1>6, <1>8, <2>2, StatusType
    <3>2. ~WorksFor(w, e)
      BY <2>2 DEF WorksFor
    <3> QED
      BY <1>3, <1>4, <1>5, <1>8, <3>1, <3>2, SeenKept
  <2> QED
    BY <2>1, <2>2
<1>9. CASE MarkRunning(w) \/ SkipAction(w) \/ FinishAction(w)
  <2>1. /\ ~At(w, "idle") /\ UNCHANGED <<queue, disturbed>>
        /\ UNCHANGED status \/ SetStatus(Running(w), "RUNNING")
        /\ EnterStep(w, 1) \/ EnterStep(w, worker[w].step + 1)
    BY <1>9 DEF MarkRunning, SkipAction, FinishAction, At
  <2>2. worker'[w].execution = worker[w].execution /\ worker'[w].at \notin {"idle", "ack"}
    BY <1>6, <2>1, WorkerEnter
  <2> QED
    BY <1>8, <2>1, <2>2
<1>10. CASE \/ CreateRow(w) \/ StartAction(w) \/ PerformAction(w) \/ ActionThrows(w)
            \/ FailAction(w) \/ Crash(w)
  <2>1. ~At(w, "idle") /\ UNCHANGED <<queue, disturbed, status>>
    BY <1>10 DEF CreateRow, StartAction, PerformAction, ActionThrows, FailAction, Crash, At
  <2>2. \/ \E at \in {"finish", "rowfail"} : Goto(w, at)
        \/ \E at \in {"start", "skip", "perform", "fail", "stopped"},
              row \in {"none", "PENDING", "RUNNING"} : GotoWithRow(w, at, row)
    BY <1>10 DEF CreateRow, StartAction, PerformAction, ActionThrows, FailAction, Crash
  <2>3. worker'[w].execution = worker[w].execution /\ worker'[w].at \notin {"idle", "ack"}
    BY <2>1, <2>2, WorkerGoto, WorkerGotoWithRow
  <2> QED
    BY <1>8, <2>1, <2>3
<1>11. CASE Complete(w) \/ Fail(w)
  <2>1. /\ ~At(w, "idle") /\ UNCHANGED <<queue, disturbed>>
        /\ SetStatus(Running(w), "COMPLETED") \/ SetStatus(Running(w), "FAILED")
    BY <1>11 DEF Complete, Fail, At
  <2>2. CASE Running(w) = e
    BY <2>1, <2>2, StatusType DEF Active
  <2>3. CASE Running(w) # e
    <3>1. status'[e] = status[e] /\ ~WorksFor(w, e)
      BY <1>6, <2>1, <2>3, StatusType DEF WorksFor
    <3> QED
      BY <1>3, <1>4, <1>5, <2>1, <3>1, SeenKept
  <2> QED
    BY <2>2, <2>3
<1>12. CASE Acknowledge(w)
  <2>1. UNCHANGED <<queue, disturbed, status>> /\ ~WorksFor(w, e)
    BY <1>12 DEF Acknowledge, WorksFor, At
  <2> QED
    BY <1>3, <1>4, <1>5, <2>1, SeenKept
<1>13. CASE Recover(w)
  <2>1. At(w, "stopped") /\ UNCHANGED status /\ worker[w].stalls \in 0..MaxStalled
    BY <1>13 DEF Recover, TypeOK, WorkerStates
  <2>2. Running(w) \in Executions
    BY <1>6, <2>1 DEF At
  <2>3. CASE worker[w].stalls < MaxStalled
    <3> DEFINE job == [execution |-> Running(w), stalls |-> worker[w].stalls + 1]
    <3>1. queue' = <<job>> \o queue /\ UNCHANGED disturbed
      BY <1>13, <2>1, <2>3, WorkflowAssumption DEF Recover
    <3>2. worker[w].stalls + 1 \in 0..MaxStalled
      BY <2>1, <2>3, WorkflowAssumption
    <3>3. job \in JobRecords /\ job.execution = Running(w)
      BY <2>2, <3>2 DEF JobRecords
    <3> HIDE DEF job
    <3>4. /\ WaitsFor(e) => SeenTo(e)'
          /\ WorksFor(w, e) => SeenTo(e)'
      BY <3>1, <3>3, WaitingPrepended, SeenSplit DEF WorksFor
    <3> QED
      BY <1>3, <1>4, <2>1, <3>1, <3>4, SeenKept
  <2>4. CASE ~(worker[w].stalls < MaxStalled)
    <3>1. disturbed' = disturbed \cup {Running(w)} /\ UNCHANGED queue
      BY <1>13, <2>4 DEF Recover
    <3>2. ~WorksFor(w, e)
      BY <3>1 DEF WorksFor
    <3> QED
      BY <1>3, <1>4, <1>5, <2>1, <3>1, <3>2, SeenKept
  <2> QED
    BY <2>3, <2>4
<1>14. CASE WorkerReject(w)
  <2>1. disturbed' = disturbed \cup {Running(w)} /\ UNCHANGED <<queue, status>>
    BY <1>14 DEF WorkerReject
  <2>2. ~WorksFor(w, e)
    BY <2>1 DEF WorksFor
  <2> QED
    BY <1>3, <1>4, <1>5, <2>1, <2>2, SeenKept
<1> QED
  BY <1>7, <1>9, <1>10, <1>11, <1>12, <1>13, <1>14 DEF WorkerStep

-----------------------------------------------------------------------------
(* The theorems.                                                           *)

LEMMA WorkflowInit == Init => WorkflowInv
<1> SUFFICES ASSUME Init PROVE WorkflowInv
  OBVIOUS
<1>1. Idle \in WorkerStates /\ Idle.at = "idle" /\ Free \in CallerStates /\ Free.at = "idle"
  BY WorkflowAssumption
  DEF Idle, WorkerStates, WorkerPoints, Statuses, Free, CallerStates, CallerPoints
<1>2. TypeOK
  BY <1>1 DEF Init, TypeOK, Statuses
<1>3. CompletedMeansDone /\ NeverForgotten
  BY DEF Init, CompletedMeansDone, NeverForgotten, Active
<1>4. \A w \in Workers : WorkerInv(w)
  BY <1>1 DEF Init, WorkerInv, Behind
<1> QED
  BY <1>2, <1>3, <1>4 DEF WorkflowInv

LEMMA WorkflowStep == WorkflowInv /\ [Next]_vars => WorkflowInv'
<1> SUFFICES ASSUME WorkflowInv, [Next]_vars PROVE WorkflowInv'
  OBVIOUS
<1> USE DEF WorkflowInv
<1>1. ASSUME NEW c \in Callers, TriggerCreate(c) \/ CancelFind(c) \/ RetryFind(c)
                                \/ CallerStep(c) \/ CallerReject(c)
      PROVE  WorkflowInv'
  BY <1>1, CallerTypeStep, CallerDoneStep, CallerSeenStep
<1>2. ASSUME NEW w \in Workers, WorkerStep(w) \/ WorkerReject(w) \/ Crash(w)
      PROVE  WorkflowInv'
  BY <1>2, WorkerTypeStep, WorkerDoneStep, WorkerSeenStep
<1>3. CASE UNCHANGED vars
  BY <1>3 DEF vars, TypeOK, CompletedMeansDone, NeverForgotten, SeenTo, WorkerInv, Behind,
     Running, At, CallerAt, Waiting
<1> QED
  BY <1>1, <1>2, <1>3 DEF Next

\* The inductive invariant holds whatever fails and overlaps.
THEOREM WorkflowInvariant == Spec => []WorkflowInv
  BY WorkflowInit, WorkflowStep, PTL DEF Spec

\* A COMPLETED execution has performed or skipped every action.
THEOREM CompletedIsDone == Spec => []CompletedMeansDone
<1>1. WorkflowInv => CompletedMeansDone
  BY DEF WorkflowInv
<1> QED
  BY <1>1, WorkflowInvariant, PTL

\* An execution that is not over has a job, a worker or a caller that will see
\* to it, unless one of the named failures has hit it.
THEOREM NothingIsForgotten == Spec => []NeverForgotten
<1>1. WorkflowInv => NeverForgotten
  BY DEF WorkflowInv
<1> QED
  BY <1>1, WorkflowInvariant, PTL

=============================================================================
