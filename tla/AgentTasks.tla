------------------------------ MODULE AgentTasks ------------------------------
(* One task of the agent service: its row, its job in the in-memory scheduler, *)
(* its executions, the coroutines that run them, and the HTTP requests that    *)
(* pause, resume, change, delete, stop.  Agent and workflow runs are outcomes  *)
(* here (WorkflowEngine has the workflow).  Every statement commits on its own *)
(* session; coroutines interleave at each of them.                             *)
EXTENDS Naturals

CONSTANTS
  Requests,          \* requests on the task ever made
  Ops,               \* what they ask for
  Triggers,          \* trigger types the task may have
  Targets,           \* what it may run
  Starters,          \* who starts executions: the scheduler (cron), a user (manual), a webhook
  MaxContinuations,  \* trigger_config.max_continuations
  MaxExecs,          \* bound of the model: executions ever created
  MaxRunners,        \* bound of the model: coroutines at a time
  MaxRestarts        \* bound of the model: restarts of the service

OpNames == {"pause", "resume", "patch", "delete", "stop", "drop"}

ASSUME TasksAssumption ==
  /\ Ops \subseteq OpNames
  /\ Triggers \subseteq {"cron", "one_time", "webhook"} /\ Triggers # {}
  /\ Targets \subseteq {"agent", "workflow"} /\ Targets # {}
  /\ Starters \subseteq {"cron", "manual", "webhook"}
  /\ MaxContinuations \in Nat /\ MaxExecs \in Nat /\ MaxRunners \in Nat /\ MaxRestarts \in Nat

VARIABLES
  task,      \* agent_tasks: does the row exist, status, trigger type, schedule, target
  job,       \* the scheduler has the job task_{id}
  exec,      \* task_executions, in the order of their creation
  runner,    \* coroutines that create and run an execution
  req,       \* requests on the task and its executions
  restarts,  \* restarts so far
  late,      \* history: scheduled executions created since the task was paused
  broken     \* history: a run failed or was lost with the process

vars == <<task, job, exec, runner, req, restarts, late, broken>>

Execs   == 1..MaxExecs
Runners == 1..MaxRunners
TaskStatuses == {"active", "paused", "completed"}
(* What trigger_config has for the scheduler: a cron expression or date it     *)
(* takes, an expression it refuses although the schemas let it pass (minute    *)
(* 99), or nothing.                                                            *)
Schedules == {"valid", "refused", "missing"}
(* succeeded is completed, and timeout is failed.                              *)
Statuses == {"none", "pending", "running", "completed", "failed", "stopped", "awaiting_human", "gone"}
Terminal == {"completed", "failed", "stopped"}
Places   == {"free", "look", "create", "start", "link", "run", "update", "after", "chain", "end"}
Kinds    == {"none", "cron", "manual", "webhook", "chained"}
Outcomes == {"none", "completed", "failed", "stopped", "awaiting_human"}

NoExec == [status |-> "none", source |-> "none", depth |-> 0, parent |-> 0, halted |-> FALSE]
Free   == [kind |-> "none", at |-> "free", exec |-> 0, depth |-> 0, mark |-> FALSE, back |-> FALSE, out |-> "none"]
NoReq  == [op |-> "pause", step |-> "none", view |-> "active", schedule |-> "valid", exec |-> 0, before |-> {}, cuts |-> FALSE]

TaskTypeOK ==
  /\ task \in [exists: BOOLEAN, status: TaskStatuses, type: Triggers, schedule: Schedules, target: Targets]
  /\ job \in BOOLEAN
  /\ exec \in [Execs -> [status: Statuses, source: {"none", "cron", "manual", "webhook", "continuation"},
                         depth: 0..MaxContinuations, parent: 0..MaxExecs, halted: BOOLEAN]]
  /\ runner \in [Runners -> [kind: Kinds, at: Places, exec: 0..MaxExecs, depth: 0..MaxContinuations,
                             mark: BOOLEAN, back: BOOLEAN, out: Outcomes]]
  /\ req \in [Requests -> [op: OpNames, step: {"none", "read", "write", "refresh", "cancel", "register", "done"},
                           view: TaskStatuses, schedule: Schedules, exec: 0..MaxExecs,
                           before: SUBSET Requests, cuts: BOOLEAN]]
  /\ restarts \in 0..MaxRestarts /\ late \in Nat /\ broken \in BOOLEAN

(* create_agent_task: the row, then the job.                                   *)
Init ==
  /\ \E t \in Triggers, g \in Targets, s \in Schedules :
       /\ s = "valid" \/ (t = "cron" /\ s = "refused")
       /\ task = [exists |-> TRUE, status |-> "active", type |-> t, schedule |-> s, target |-> g]
  /\ job = (task.type # "webhook" /\ task.schedule = "valid")
  /\ exec = [e \in Execs |-> NoExec]
  /\ runner = [r \in Runners |-> Free]
  /\ req = [q \in Requests |-> NoReq]
  /\ restarts = 0 /\ late = 0 /\ broken = FALSE

Row(e)    == exec[e].status \notin {"none", "gone"}
New(e)    == exec[e].status = "none" /\ \A f \in 1..(e - 1) : exec[f].status # "none"
Slot(r)   == runner[r].at = "free" /\ \A s \in 1..(r - 1) : runner[s].at # "free"
(* UPDATE of an execution; without its row it changes nothing.                 *)
SetExec(e, s) == exec' = IF Row(e) THEN [exec EXCEPT ![e].status = s] ELSE exec
Insert(e, source, depth, parent) ==
  exec' = [exec EXCEPT ![e] = [NoExec EXCEPT !.status = "pending", !.source = source, !.depth = depth, !.parent = parent]]

At(r, p) == runner[r].at = p
Go(r, p) == runner' = [runner EXCEPT ![r].at = p]
Leave(r) == runner' = [runner EXCEPT ![r] = Free]
(* The callback ends; the coroutine that started the run may still be waiting. *)
Done(r)  == runner' = [runner EXCEPT ![r] = IF runner[r].mark THEN [runner[r] EXCEPT !.at = "end"] ELSE Free]

------------------------------------------------------------------------------
(* The scheduler runs one instance of a job at a time and drops a date job     *)
(* when it has fired; a user runs the task, or a webhook does.                 *)
Enter(k) == k \in Starters /\ \E r \in Runners : Slot(r) /\ runner' = [runner EXCEPT ![r] = [Free EXCEPT !.kind = k, !.at = "look"]]

(* Mutant: instances of the job overlap.                                       *)
FireAgain ==
  /\ job /\ job' = (task.type = "cron")
  /\ Enter("cron")
  /\ UNCHANGED <<task, exec, req, restarts, late, broken>>

Fire ==
  /\ job /\ job' = (task.type = "cron")
  /\ \A r \in Runners : runner[r].kind # "cron"
  /\ Enter("cron")
  /\ UNCHANGED <<task, exec, req, restarts, late, broken>>

Trigger ==
  /\ Enter("manual") \/ (task.type = "webhook" /\ Enter("webhook"))
  /\ UNCHANGED <<task, job, exec, req, restarts, late, broken>>

Allowed(k) ==
  /\ task.exists
  /\ \/ k \in {"cron", "manual"} /\ task.status = "active"
     \/ k = "manual" /\ task.status = "paused"
     \/ k = "webhook" /\ task.status = "active"

Look(r) ==
  /\ At(r, "look")
  /\ IF Allowed(runner[r].kind) THEN Go(r, "create") ELSE Leave(r)
  /\ UNCHANGED <<task, job, exec, req, restarts, late, broken>>

(* The execution refers to the task's row.                                     *)
Create(r) ==
  /\ At(r, "create")
  /\ \/ /\ task.exists
        /\ \E e \in Execs :
             /\ New(e) /\ Insert(e, runner[r].kind, 0, 0)
             /\ runner' = [runner EXCEPT ![r].exec = e, ![r].at = IF runner[r].kind = "cron" THEN "run" ELSE "start"]
        /\ late' = IF runner[r].kind = "cron" /\ task.status = "paused" THEN late + 1 ELSE late
     \/ ~ task.exists /\ Leave(r) /\ UNCHANGED <<exec, late>>
  /\ UNCHANGED <<task, job, req, restarts, broken>>

(* create_run_background starts the run and returns; status running is written *)
(* afterwards (Mark).  A workflow is linked to its execution first, and only a *)
(* manual run starts one.                                                      *)
Start(r) ==
  /\ At(r, "start")
  /\ \/ /\ task.target = "agent"
        /\ runner' = [runner EXCEPT ![r].at = "run", ![r].mark = TRUE, ![r].back = TRUE]
        /\ UNCHANGED <<exec, broken>>
     \/ /\ runner[r].kind = "manual"
        /\ runner' = [runner EXCEPT ![r].at = "update", ![r].out = "failed"]
        /\ UNCHANGED exec /\ broken' = TRUE
     \/ /\ runner[r].kind # "manual" /\ task.target = "agent"
        /\ Leave(r) /\ SetExec(runner[r].exec, "failed") /\ broken' = TRUE
     \/ /\ task.target = "workflow"
        /\ IF runner[r].kind = "manual" THEN Go(r, "link") ELSE Leave(r)
        /\ UNCHANGED <<exec, broken>>
  /\ UNCHANGED <<task, job, req, restarts, late>>

Link(r) ==
  /\ At(r, "link")
  /\ SetExec(runner[r].exec, "running")
  /\ runner' = [runner EXCEPT ![r].at = "run", ![r].back = TRUE]
  /\ UNCHANGED <<task, job, req, restarts, late, broken>>

(* Whatever the status is by now.                                              *)
Mark(r) ==
  /\ runner[r].mark
  /\ SetExec(runner[r].exec, "running")
  /\ runner' = [runner EXCEPT ![r] = IF At(r, "end") THEN Free ELSE [runner[r] EXCEPT !.mark = FALSE]]
  /\ UNCHANGED <<task, job, req, restarts, late, broken>>

(* Mutant: the depth of the run is compared, not that of the next one.         *)
QueueOneMore(r) ==
  /\ At(r, "run") /\ task.target = "agent"
  /\ runner[r].depth <= MaxContinuations
  /\ task.exists /\ task.status = "active"
  /\ \E e \in Execs : New(e) /\ Insert(e, "continuation", runner[r].depth + 1, runner[r].exec)
  /\ UNCHANGED <<task, job, runner, req, restarts, late, broken>>

(* trigger_task_run, called by the agent any number of times.                  *)
Queue(r) ==
  /\ At(r, "run") /\ task.target = "agent"
  /\ runner[r].depth + 1 <= MaxContinuations
  /\ task.exists /\ task.status = "active"
  /\ \E e \in Execs : New(e) /\ Insert(e, "continuation", runner[r].depth + 1, runner[r].exec)
  /\ UNCHANGED <<task, job, runner, req, restarts, late, broken>>

(* A linked workflow that was asked to stop may stop, or have ended.           *)
Ended(r) ==
  {"completed", "failed"}
    \cup (IF task.target = "workflow" THEN {"awaiting_human"} ELSE {})
    \cup (IF task.target = "workflow" /\ exec[runner[r].exec].halted THEN {"stopped"} ELSE {})

Finish(r) ==
  /\ At(r, "run")
  /\ \E o \in Ended(r) :
       /\ runner' = [runner EXCEPT ![r].at = "update", ![r].out = o]
       /\ broken' = (broken \/ o # "completed")
  /\ UNCHANGED <<task, job, exec, req, restarts, late>>

Update(r) ==
  /\ At(r, "update")
  /\ SetExec(runner[r].exec, runner[r].out)
  /\ Go(r, "after")
  /\ UNCHANGED <<task, job, req, restarts, late, broken>>

(* update_task_after_execution; a callback makes it only for an execution that *)
(* is still there.  Counts and times of the last run decide nothing.           *)
After(r) ==
  /\ At(r, "after")
  /\ IF task.exists /\ task.type = "one_time" /\ (runner[r].back => Row(runner[r].exec))
     THEN task' = [task EXCEPT !.status = "completed"] ELSE UNCHANGED task
  /\ IF runner[r].back /\ task.target = "agent" /\ runner[r].out = "completed" THEN Go(r, "chain") ELSE Done(r)
  /\ UNCHANGED <<job, exec, req, restarts, late, broken>>

Pending == {e \in Execs : exec[e].status = "pending" /\ exec[e].source = "continuation"}

(* Mutants: the depth of a continuation is not handed on; none is started.     *)
ChainedAnew(e) == [Free EXCEPT !.kind = "chained", !.at = "start", !.exec = e]
Chained(e) == [Free EXCEPT !.kind = "chained", !.at = "start", !.exec = e, !.depth = exec[e].depth]
ChainNothing(r) == At(r, "chain") /\ Done(r) /\ UNCHANGED <<task, job, exec, req, restarts, late, broken>>

(* _on_bg_complete and _on_continuation_complete start the oldest pending      *)
(* continuation of the task, whoever queued it, without claiming it.           *)
Chain(r) ==
  /\ At(r, "chain")
  /\ IF Pending = {} \/ ~ task.exists THEN Done(r)
     ELSE \E e \in Pending :
            /\ \A f \in Pending : e <= f
            /\ IF runner[r].mark
               THEN \E s \in Runners : Slot(s) /\ runner' = [runner EXCEPT ![r].at = "end", ![s] = Chained(e)]
               ELSE runner' = [runner EXCEPT ![r] = Chained(e)]
  /\ UNCHANGED <<task, job, exec, req, restarts, late, broken>>

------------------------------------------------------------------------------
(* A request reads its rows, writes, reads the task again (refresh) and then   *)
(* changes the scheduler.                                                      *)
Active   == {q \in Requests : req[q].step \notin {"none", "done"}}
Finished == {q \in Requests : req[q].step = "done"}
In(q, ops, s) == req[q].op \in ops /\ req[q].step = s
Step(q, s) == req' = [req EXCEPT ![q].step = s]
(* cuts: the request took the job away.                                        *)
Over(q, cuts) == [NoReq EXCEPT !.op = req[q].op, !.step = "done", !.before = req[q].before, !.cuts = cuts]
Answer(q) == req' = [req EXCEPT ![q] = Over(q, FALSE)]
Cut(q) == job' = FALSE /\ req' = [req EXCEPT ![q] = Over(q, TRUE)]
(* Set on the object the request has read: no UPDATE if it has that value.     *)
Written(q, s) == IF req[q].view = s THEN task.status ELSE s
WriteTask(q, s, n) ==
  /\ task' = [task EXCEPT !.status = Written(q, s), !.schedule = n]
  /\ late' = IF Written(q, s) = task.status THEN late ELSE 0

Begin(q) ==
  /\ req[q].step = "none"
  /\ \E op \in Ops : req' = [req EXCEPT ![q].op = op, ![q].step = "read", ![q].before = Finished]
  /\ UNCHANGED <<task, job, exec, runner, restarts, late, broken>>

(* resume_task answers with the task when it is not paused.                    *)
ReadTask(q) ==
  /\ In(q, {"pause", "resume", "patch", "delete"}, "read")
  /\ IF task.exists
     THEN req' = [req EXCEPT ![q].view = task.status, ![q].schedule = task.schedule,
                             ![q].step = IF req[q].op = "resume" /\ task.status # "paused" THEN "register" ELSE "write"]
     ELSE Answer(q)
  /\ UNCHANGED <<task, job, exec, runner, restarts, late, broken>>

(* The schedules a patch of trigger_config may leave: a cron expression is     *)
(* merged in or taken out, run_at taken out.                                   *)
NewSchedules ==
  {task.schedule} \cup (CASE task.type = "cron" -> Schedules [] task.type = "one_time" -> {"missing"} [] OTHER -> {})

WriteStatus(q) ==
  /\ In(q, {"pause", "resume", "patch"}, "write")
  /\ \/ /\ task.exists
        /\ \/ req[q].op = "pause" /\ WriteTask(q, "paused", task.schedule)
           \/ req[q].op = "resume" /\ WriteTask(q, "active", task.schedule)
           \/ req[q].op = "patch" /\ \E s \in TaskStatuses, n \in NewSchedules : WriteTask(q, s, n)
        /\ Step(q, "refresh")
     \/ ~ task.exists /\ Answer(q) /\ UNCHANGED <<task, late>>
  /\ UNCHANGED <<job, exec, runner, restarts, broken>>

Refresh(q) ==
  /\ In(q, {"pause", "resume", "patch"}, "refresh")
  /\ IF task.exists
     THEN req' = [req EXCEPT ![q].view = task.status, ![q].schedule = task.schedule,
                             ![q].step = IF req[q].op = "pause" THEN "cancel" ELSE "register"]
     ELSE Answer(q)
  /\ UNCHANGED <<task, job, exec, runner, restarts, late, broken>>

(* The executions go with the task.                                            *)
DeleteTask(q) ==
  /\ In(q, {"delete"}, "write")
  /\ task' = [task EXCEPT !.exists = FALSE]
  /\ exec' = [e \in Execs |-> IF Row(e) THEN [exec[e] EXCEPT !.status = "gone"] ELSE exec[e]]
  /\ Step(q, "cancel")
  /\ UNCHANGED <<job, runner, restarts, late, broken>>

Cancel(q) ==
  /\ In(q, {"pause", "delete"}, "cancel")
  /\ Cut(q)
  /\ UNCHANGED <<task, exec, runner, restarts, late, broken>>

(* Mutant: a resumed or changed task is not registered anew.                   *)
RegisterNothing(q) ==
  /\ In(q, {"resume", "patch"}, "register")
  /\ Answer(q)
  /\ UNCHANGED <<task, job, exec, runner, restarts, late, broken>>

(* _hot_register_task, with the refreshed object.  Nothing happens unless it   *)
(* is active and has a schedule; then the old job goes first, and a schedule   *)
(* that is refused leaves none: the failure is logged and the request          *)
(* succeeds.                                                                   *)
Register(q) ==
  /\ In(q, {"resume", "patch"}, "register")
  /\ LET timed == req[q].view = "active" /\ task.type # "webhook" IN
       \/ timed /\ req[q].schedule = "valid" /\ job' = TRUE /\ Answer(q)
       \/ timed /\ req[q].schedule = "refused" /\ Cut(q)
       \/ ~ (timed /\ req[q].schedule # "missing") /\ Answer(q) /\ UNCHANGED job
  /\ UNCHANGED <<task, exec, runner, restarts, late, broken>>

(* stop_task_execution stops what has not ended, delete_task_execution deletes *)
(* what has.                                                                   *)
ReadExec(q) ==
  /\ In(q, {"stop", "drop"}, "read")
  /\ \/ \E e \in Execs :
          /\ Row(e) /\ (req[q].op = "drop" <=> exec[e].status \in Terminal)
          /\ req' = [req EXCEPT ![q].step = "write", ![q].exec = e]
     \/ Answer(q)
  /\ UNCHANGED <<task, job, exec, runner, restarts, late, broken>>

(* A workflow that is linked by now is stopped with its execution.             *)
StopExec(q) ==
  /\ In(q, {"stop"}, "write")
  /\ LET e == req[q].exec IN
       exec' = IF Row(e) THEN [exec EXCEPT ![e].status = "stopped",
                                           ![e].halted = (task.target = "workflow" /\ exec[e].status = "running")]
               ELSE exec
  /\ Answer(q)
  /\ UNCHANGED <<task, job, runner, restarts, late, broken>>

DropExec(q) ==
  /\ In(q, {"drop"}, "write")
  /\ SetExec(req[q].exec, "gone")
  /\ Answer(q)
  /\ UNCHANGED <<task, job, runner, restarts, late, broken>>

(* The process stops and starts again: restore_task_schedules.                 *)
Restart ==
  /\ restarts < MaxRestarts /\ restarts' = restarts + 1
  /\ runner' = [r \in Runners |-> Free]
  /\ req' = [q \in Requests |-> IF q \in Active THEN Over(q, FALSE) ELSE req[q]]
  /\ job' = (task.exists /\ task.status = "active" /\ task.type = "cron" /\ task.schedule = "valid")
  /\ broken' = TRUE
  /\ UNCHANGED <<task, exec, late>>

Proceed(r) ==
  \/ Look(r) \/ Create(r) \/ Start(r) \/ Link(r) \/ Mark(r)
  \/ Finish(r) \/ Update(r) \/ After(r) \/ Chain(r)

Serve(q) ==
  \/ Begin(q) \/ ReadTask(q) \/ WriteStatus(q) \/ Refresh(q) \/ DeleteTask(q) \/ Cancel(q) \/ Register(q)
  \/ ReadExec(q) \/ StopExec(q) \/ DropExec(q)

Next ==
  \/ Fire \/ Trigger \/ Restart
  \/ \E r \in Runners : Proceed(r) \/ Queue(r)
  \/ \E q \in Requests : Serve(q)

(* Coroutines go on, and agent and workflow runs end (they have time limits).  *)
Spec == Init /\ [][Next]_vars /\ \A r \in Runners : WF_vars(Proceed(r))
==============================================================================
