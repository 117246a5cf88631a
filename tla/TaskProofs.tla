------------------------------ MODULE TaskProofs ------------------------------
(* Proofs about AgentTasks: types, the effect of a pause, the job of an active *)
(* task, and the length of chains of continuations.                            *)
EXTENDS TaskProperties, WellFoundedInduction, TLAPS

USE TasksAssumption

(* Only the scheduler, a user and a webhook create executions.                 *)
TypeInv == TaskTypeOK /\ \A r \in Runners : runner[r].at \in {"look", "create"} => runner[r].kind # "chained"

RunnerType == [kind: Kinds, at: Places, exec: 0..MaxExecs, depth: 0..MaxContinuations,
               mark: BOOLEAN, back: BOOLEAN, out: Outcomes]
ExecType == [status: Statuses, source: {"none", "cron", "manual", "webhook", "continuation"},
             depth: 0..MaxContinuations, parent: 0..MaxExecs, halted: BOOLEAN]
ReqType == [op: OpNames, step: {"none", "read", "write", "refresh", "cancel", "register", "done"},
            view: TaskStatuses, schedule: Schedules, exec: 0..MaxExecs, before: SUBSET Requests, cuts: BOOLEAN]
Creates(x) == x.at \in {"look", "create"} => x.kind # "chained"

LEMMA ConstantTypes ==
  /\ NoExec \in ExecType /\ Free \in RunnerType /\ NoReq \in ReqType
  /\ Creates(Free) /\ Free.kind = "none" /\ Free.at = "free"
<1>1. 0 \in 0..MaxExecs /\ 0 \in 0..MaxContinuations
  BY DEF TasksAssumption
<1>2. NoExec \in ExecType
  BY <1>1 DEF NoExec, ExecType, Statuses
<1>3. Free \in RunnerType /\ Creates(Free) /\ Free.kind = "none" /\ Free.at = "free"
  BY <1>1 DEF Free, RunnerType, Creates, Kinds, Places, Outcomes
<1>4. NoReq \in ReqType
  BY <1>1 DEF NoReq, ReqType, OpNames, TaskStatuses, Schedules
<1> QED BY <1>2, <1>3, <1>4

LEMMA OverType ==
  ASSUME req \in [Requests -> ReqType], NEW q \in Requests, NEW c \in BOOLEAN
  PROVE  /\ Over(q, c) \in ReqType /\ Over(q, c).step = "done" /\ Over(q, c).op = req[q].op
         /\ Over(q, c).before = req[q].before /\ Over(q, c).cuts = c
<1>1. req[q].op \in OpNames /\ req[q].before \in SUBSET Requests
  BY DEF ReqType
<1> QED BY <1>1, ConstantTypes DEF Over, ReqType

LEMMA SetExecType ==
  ASSUME TypeInv, NEW e \in 0..MaxExecs, NEW s \in Statuses, SetExec(e, s)
  PROVE  exec' \in [Execs -> ExecType]
<1>1. exec \in [Execs -> ExecType]
  BY DEF TypeInv, TaskTypeOK, ExecType
<1>2. exec' = exec \/ exec' = [exec EXCEPT ![e].status = s]
  BY DEF SetExec
<1>3. \A f \in Execs : [exec[f] EXCEPT !.status = s] \in ExecType
  BY <1>1 DEF ExecType
<1>4. CASE exec' = [exec EXCEPT ![e].status = s]
  <2>1. /\ exec' = [f \in Execs |-> IF f = e THEN [exec[f] EXCEPT !.status = s] ELSE exec[f]]
    BY <1>1, <1>4
  <2> QED BY <1>1, <1>3, <2>1
<1> QED BY <1>1, <1>2, <1>4

LEMMA InsertType ==
  ASSUME TypeInv, NEW e \in Execs, NEW d \in 0..MaxContinuations, NEW p \in 0..MaxExecs,
         NEW s \in {"none", "cron", "manual", "webhook", "continuation"}, Insert(e, s, d, p)
  PROVE  exec' \in [Execs -> ExecType]
<1>1. [NoExec EXCEPT !.status = "pending", !.source = s, !.depth = d, !.parent = p] \in ExecType
  BY ConstantTypes DEF ExecType, Statuses
<1> QED BY <1>1 DEF TypeInv, TaskTypeOK, Insert, ExecType

(* One runner changes, within its type.                                        *)
LEMMA RunnerChange ==
  ASSUME TypeInv, NEW r \in Runners, NEW x \in RunnerType, runner' = [runner EXCEPT ![r] = x]
  PROVE  /\ runner' \in [Runners -> RunnerType]
         /\ \A s \in Runners : runner'[s] = IF s = r THEN x ELSE runner[s]
         /\ Creates(x) => \A s \in Runners : Creates(runner'[s])
  BY DEF TypeInv, TaskTypeOK, RunnerType, Creates

LEMMA RunnerFields ==
  ASSUME TypeInv, NEW r \in Runners
  PROVE  runner[r] \in RunnerType /\ Creates(runner[r])
  BY DEF TypeInv, TaskTypeOK, RunnerType, Creates

(* What the steps of a coroutine do to it.                                     *)
LEMMA GoType ==
  ASSUME TypeInv, NEW r \in Runners, NEW p \in Places, Go(r, p), p # "look", p = "create" => runner[r].kind # "chained"
  PROVE  /\ runner' \in [Runners -> RunnerType] /\ \A s \in Runners : Creates(runner'[s])
         /\ runner'[r].kind = runner[r].kind /\ runner'[r].at = p
         /\ \A s \in Runners \ {r} : runner'[s] = runner[s]
  BY RunnerFields DEF Go, TypeInv, TaskTypeOK, RunnerType, Creates

LEMMA LeaveType ==
  ASSUME TypeInv, NEW r \in Runners, Leave(r)
  PROVE  /\ runner' \in [Runners -> RunnerType] /\ \A s \in Runners : Creates(runner'[s])
         /\ runner'[r] = Free /\ \A s \in Runners \ {r} : runner'[s] = runner[s]
  BY ConstantTypes, RunnerChange DEF Leave

LEMMA DoneType ==
  ASSUME TypeInv, NEW r \in Runners, Done(r)
  PROVE  /\ runner' \in [Runners -> RunnerType] /\ \A s \in Runners : Creates(runner'[s])
         /\ runner'[r] = Free \/ (runner'[r].kind = runner[r].kind /\ runner'[r].at = "end")
         /\ \A s \in Runners \ {r} : runner'[s] = runner[s]
<1> DEFINE x == IF runner[r].mark THEN [runner[r] EXCEPT !.at = "end"] ELSE Free
<1>1. x \in RunnerType /\ Creates(x)
  BY ConstantTypes, RunnerFields DEF RunnerType, Places, Creates
<1>2. runner' = [runner EXCEPT ![r] = x]
  BY DEF Done
<1>3. x = Free \/ (x.kind = runner[r].kind /\ x.at = "end")
  BY RunnerFields DEF RunnerType
<1> HIDE DEF x
<1> QED BY <1>1, <1>2, <1>3, RunnerChange
(* What the scheduler does at most once at a time, and never for a task that   *)
(* was not active when the job looked.                                         *)
OneInstance == \A r, s \in Runners : runner[r].kind = "cron" /\ runner[s].kind = "cron" => r = s
PauseInv ==
  /\ OneInstance
  /\ late <= 1
  /\ late > 0 => task.status # "active" /\ \A r \in Runners : ~ (runner[r].kind = "cron" /\ At(r, "create"))
Inv == TypeInv /\ PauseInv

LEMMA TypeParts ==
  ASSUME task \in [exists: BOOLEAN, status: TaskStatuses, type: Triggers, schedule: Schedules, target: Targets], job \in BOOLEAN,
         exec \in [Execs -> ExecType], runner \in [Runners -> RunnerType], \A s \in Runners : Creates(runner[s]),
         req \in [Requests -> ReqType], restarts \in 0..MaxRestarts, late \in Nat, broken \in BOOLEAN
  PROVE  TypeInv
  BY DEF TypeInv, TaskTypeOK, ExecType, RunnerType, ReqType, Creates

LEMMA NextTypeParts ==
  ASSUME task' \in [exists: BOOLEAN, status: TaskStatuses, type: Triggers, schedule: Schedules, target: Targets], job' \in BOOLEAN,
         exec' \in [Execs -> ExecType], runner' \in [Runners -> RunnerType], \A s \in Runners : Creates(runner'[s]),
         req' \in [Requests -> ReqType], restarts' \in 0..MaxRestarts, late' \in Nat, broken' \in BOOLEAN
  PROVE  TypeInv'
  BY DEF TypeInv, TaskTypeOK, ExecType, RunnerType, ReqType, Creates

LEMMA PartsOfType ==
  ASSUME TypeInv
  PROVE  /\ task \in [exists: BOOLEAN, status: TaskStatuses, type: Triggers, schedule: Schedules, target: Targets] /\ job \in BOOLEAN
         /\ exec \in [Execs -> ExecType] /\ runner \in [Runners -> RunnerType] /\ \A s \in Runners : Creates(runner[s])
         /\ req \in [Requests -> ReqType] /\ restarts \in 0..MaxRestarts /\ late \in Nat /\ broken \in BOOLEAN
  BY DEF TypeInv, TaskTypeOK, ExecType, RunnerType, ReqType, Creates

(* A coroutine that goes on as what it is, or ends, is no new instance.        *)
LEMMA PauseKept ==
  ASSUME Inv, NEW r \in Runners,
         \A s \in Runners \ {r} : runner'[s] = runner[s],
         runner'[r].kind # "cron" \/ (runner'[r].kind = runner[r].kind /\ runner'[r].at # "create"),
         late' = late, task'.status = task.status \/ task'.status # "active"
  PROVE  PauseInv'
  BY DEF Inv, PauseInv, OneInstance, At

LEMMA InvStep == Inv /\ [Next]_vars => Inv'
<1> SUFFICES ASSUME Inv, [Next]_vars PROVE Inv'
  OBVIOUS
<1> USE DEF Inv
<1>a. /\ task \in [exists: BOOLEAN, status: TaskStatuses, type: Triggers, schedule: Schedules, target: Targets] /\ job \in BOOLEAN
      /\ exec \in [Execs -> ExecType] /\ runner \in [Runners -> RunnerType] /\ \A s \in Runners : Creates(runner[s])
      /\ req \in [Requests -> ReqType] /\ restarts \in 0..MaxRestarts /\ late \in Nat /\ broken \in BOOLEAN
  BY PartsOfType
<1>b. ASSUME UNCHANGED <<task, runner, late>> PROVE PauseInv'
  BY <1>b DEF PauseInv, OneInstance, At
(* Entering as k, for a job only when no other instance of it is there.        *)
<1>c. ASSUME NEW k \in {"cron", "manual", "webhook"}, Enter(k),
             k = "cron" => \A r \in Runners : runner[r].kind # "cron",
             UNCHANGED <<task, exec, req, restarts, late, broken>>, job' \in BOOLEAN
      PROVE  Inv'
  <2>1. PICK r \in Runners : runner' = [runner EXCEPT ![r] = [Free EXCEPT !.kind = k, !.at = "look"]]
    BY <1>c DEF Enter
  <2> DEFINE x == [Free EXCEPT !.kind = k, !.at = "look"]
  <2>2. x \in RunnerType /\ Creates(x) /\ x.kind = k /\ x.at = "look"
    BY ConstantTypes DEF RunnerType, Kinds, Places, Creates
  <2> HIDE DEF x
  <2>3. /\ runner' \in [Runners -> RunnerType] /\ \A s \in Runners : Creates(runner'[s])
        /\ \A s \in Runners : runner'[s] = IF s = r THEN x ELSE runner[s]
    <3>1. runner' = [runner EXCEPT ![r] = x]
      BY <2>1 DEF x
    <3> QED BY <2>2, <3>1, RunnerChange
  <2>4. PauseInv'
    BY <1>c, <2>2, <2>3 DEF PauseInv, OneInstance, At
  <2> QED BY <1>a, <1>c, <2>3, <2>4, NextTypeParts
<1>1. CASE Fire
  BY <1>1, <1>c DEF Fire
<1>2. CASE Trigger
  BY <1>2, <1>a, <1>c DEF Trigger
<1>3. CASE Restart
  <2>1. \A r \in Runners : runner'[r] = Free
    BY <1>3 DEF Restart
  <2>2. runner' \in [Runners -> RunnerType] /\ \A s \in Runners : Creates(runner'[s])
    BY <1>3, ConstantTypes DEF Restart
  <2>3. req' \in [Requests -> ReqType]
    <3>1. \A q \in Requests : Over(q, FALSE) \in ReqType
      BY <1>a, OverType
    <3> QED BY <1>3, <1>a, <3>1 DEF Restart
  <2>4. restarts' \in 0..MaxRestarts /\ job' \in BOOLEAN /\ broken' \in BOOLEAN /\ UNCHANGED <<task, exec, late>>
    <3>1. job' \in BOOLEAN /\ broken' \in BOOLEAN
      <4>1. /\ job' = (task.exists /\ task.status = "active" /\ task.type = "cron" /\ task.schedule = "valid")
            /\ broken' = TRUE
        BY <1>3 DEF Restart
      <4>2. (task.exists /\ task.status = "active" /\ task.type = "cron" /\ task.schedule = "valid") \in BOOLEAN
        OBVIOUS
      <4>3. job' \in BOOLEAN
        BY <4>1, <4>2, Zenon
      <4> QED BY <4>1, <4>3
    <3>2. restarts' \in 0..MaxRestarts /\ UNCHANGED <<task, exec, late>>
      <4>1. restarts < MaxRestarts /\ restarts' = restarts + 1 /\ UNCHANGED <<task, exec, late>>
        BY <1>3 DEF Restart
      <4>2. restarts \in Nat /\ MaxRestarts \in Nat
        BY <1>a DEF TasksAssumption
      <4> QED BY <4>1, <4>2
    <3> QED BY <3>1, <3>2
  <2>5. PauseInv'
    BY <2>1, <2>4, ConstantTypes DEF PauseInv, OneInstance, At
  <2> QED BY <1>a, <2>2, <2>3, <2>4, <2>5, NextTypeParts
<1>4. ASSUME NEW r \in Runners, Proceed(r) \/ Queue(r) PROVE Inv'
  <2>r. runner[r] \in RunnerType /\ Creates(runner[r]) /\ runner[r].exec \in 0..MaxExecs
    BY RunnerFields DEF RunnerType
  (* The runner itself changes to x, which is no new instance.                 *)
  <2>x. ASSUME NEW x \in RunnerType, Creates(x), x.kind # "cron" \/ (x.kind = runner[r].kind /\ x.at # "create"),
               runner' = [runner EXCEPT ![r] = x],
               late' = late, task'.status = task.status \/ task'.status # "active"
        PROVE  /\ runner' \in [Runners -> RunnerType] /\ \A s \in Runners : Creates(runner'[s])
               /\ PauseInv'
    BY <2>x, RunnerChange, PauseKept
  <2>g. ASSUME NEW p \in Places \ {"look", "create"}, Go(r, p), late' = late,
               task'.status = task.status \/ task'.status # "active"
        PROVE  /\ runner' \in [Runners -> RunnerType] /\ \A s \in Runners : Creates(runner'[s])
               /\ PauseInv'
    BY <2>g, GoType, PauseKept
  <2>l. ASSUME Leave(r), late' = late, task'.status = task.status \/ task'.status # "active"
        PROVE  /\ runner' \in [Runners -> RunnerType] /\ \A s \in Runners : Creates(runner'[s])
               /\ PauseInv'
    BY <2>l, LeaveType, PauseKept, ConstantTypes
  <2>d. ASSUME Done(r), late' = late, task'.status = task.status \/ task'.status # "active"
        PROVE  /\ runner' \in [Runners -> RunnerType] /\ \A s \in Runners : Creates(runner'[s])
               /\ PauseInv'
    BY <2>d, DoneType, PauseKept, ConstantTypes
  <2>1. CASE Look(r)
    <3>1. CASE Leave(r)
      BY <1>a, <2>1, <2>l, <3>1, NextTypeParts DEF Look
    <3>2. CASE Allowed(runner[r].kind) /\ Go(r, "create")
      <4>1. runner[r].kind # "chained" /\ "create" \in Places /\ (runner[r].kind = "cron" => late = 0)
        BY <2>1, <3>2, <1>a DEF Allowed, PauseInv, Places
      <4>2. /\ runner' \in [Runners -> RunnerType] /\ \A s \in Runners : Creates(runner'[s])
            /\ runner'[r].kind = runner[r].kind /\ \A s \in Runners \ {r} : runner'[s] = runner[s]
        BY <3>2, <4>1, GoType
      <4>3. PauseInv'
        BY <2>1, <4>1, <4>2, <1>a DEF Look, PauseInv, OneInstance, At
      <4> QED BY <1>a, <2>1, <4>2, <4>3, NextTypeParts DEF Look
    <3> QED BY <2>1, <3>1, <3>2 DEF Look
  <2>2. CASE Create(r)
    <3>1. CASE Leave(r) /\ UNCHANGED <<exec, late>>
      BY <1>a, <2>2, <2>l, <3>1, NextTypeParts DEF Create
    <3>2. ASSUME NEW e \in Execs, Insert(e, runner[r].kind, 0, 0),
                 runner' = [runner EXCEPT ![r].exec = e, ![r].at = IF runner[r].kind = "cron" THEN "run" ELSE "start"],
                 late' = IF runner[r].kind = "cron" /\ task.status = "paused" THEN late + 1 ELSE late
          PROVE  Inv'
      <4>1. At(r, "create") /\ UNCHANGED <<task, job, req, restarts, broken>>
        BY <2>2 DEF Create
      <4>2. runner[r].kind \in {"none", "cron", "manual", "webhook"}
        BY <4>1, <2>r DEF Creates, RunnerType, Kinds, At
      <4>3. exec' \in [Execs -> ExecType]
        BY <3>2, <4>2, InsertType DEF TasksAssumption
      <4>4. /\ runner' \in [Runners -> RunnerType] /\ \A s \in Runners : Creates(runner'[s])
            /\ runner'[r].kind = runner[r].kind /\ runner'[r].at # "create"
            /\ \A s \in Runners \ {r} : runner'[s] = runner[s]
        <5> DEFINE p == IF runner[r].kind = "cron" THEN "run" ELSE "start"
                   x == [runner[r] EXCEPT !.exec = e, !.at = p]
        <5>1. p \in Places \ {"look", "create"} /\ e \in 0..MaxExecs
          BY DEF Places, Execs, TasksAssumption
        <5>2. runner' = [runner EXCEPT ![r] = x]
          BY <3>2, <1>a DEF RunnerType
        <5> HIDE DEF p
        <5>3. x \in RunnerType /\ Creates(x) /\ x.kind = runner[r].kind /\ x.at # "create"
          BY <2>r, <5>1 DEF RunnerType, Creates
        <5> HIDE DEF x
        <5> QED BY <5>2, <5>3, RunnerChange
      <4>5. PauseInv' /\ late' \in Nat
        <5>1. CASE runner[r].kind = "cron"
          <6>1. late = 0
            BY <4>1, <5>1, <1>a DEF PauseInv
          <6>2. \A s \in Runners : ~ (runner'[s].kind = "cron" /\ runner'[s].at = "create")
            BY <4>4, <5>1 DEF PauseInv, OneInstance
          <6>3. late' \in {0, 1} /\ (late' > 0 => task.status = "paused")
            BY <3>2, <6>1
          <6> QED BY <4>1, <4>4, <6>2, <6>3 DEF PauseInv, OneInstance, At
        <5>2. CASE runner[r].kind # "cron"
          BY <1>a, <3>2, <4>1, <4>4, <5>2, PauseKept
        <5> QED BY <5>1, <5>2
      <4> QED BY <1>a, <4>1, <4>3, <4>4, <4>5, NextTypeParts
    <3> QED BY <2>2, <3>1, <3>2 DEF Create
  <2>3. CASE Start(r)
    <3>1. UNCHANGED <<task, job, req, restarts, late>> /\ broken' \in BOOLEAN /\ exec' \in [Execs -> ExecType]
      <4>1. "failed" \in Statuses
        BY DEF Statuses
      <4> QED BY <2>3, <1>a, <2>r, <4>1, SetExecType DEF Start
    <3>2. CASE Leave(r)
      BY <1>a, <2>l, <3>1, <3>2, NextTypeParts
    <3>3. CASE Go(r, "link")
      BY <1>a, <2>g, <3>1, <3>3, NextTypeParts DEF Places
    <3>4. CASE runner' = [runner EXCEPT ![r].at = "run", ![r].mark = TRUE, ![r].back = TRUE]
      <4> DEFINE x == [runner[r] EXCEPT !.at = "run", !.mark = TRUE, !.back = TRUE]
      <4>1. x \in RunnerType /\ Creates(x) /\ x.kind = runner[r].kind /\ x.at # "create"
        BY <2>r DEF RunnerType, Places, Creates
      <4>2. runner' = [runner EXCEPT ![r] = x]
        BY <3>4, <1>a DEF RunnerType
      <4> HIDE DEF x
      <4> QED BY <1>a, <2>x, <3>1, <4>1, <4>2, NextTypeParts
    <3>5. CASE runner' = [runner EXCEPT ![r].at = "update", ![r].out = "failed"]
      <4> DEFINE x == [runner[r] EXCEPT !.at = "update", !.out = "failed"]
      <4>1. x \in RunnerType /\ Creates(x) /\ x.kind = runner[r].kind /\ x.at # "create"
        BY <2>r DEF RunnerType, Places, Outcomes, Creates
      <4>2. runner' = [runner EXCEPT ![r] = x]
        BY <3>5, <1>a DEF RunnerType
      <4> HIDE DEF x
      <4> QED BY <1>a, <2>x, <3>1, <4>1, <4>2, NextTypeParts
    <3> QED BY <2>3, <3>2, <3>3, <3>4, <3>5 DEF Start
  <2>4. CASE Link(r)
    <3> DEFINE x == [runner[r] EXCEPT !.at = "run", !.back = TRUE]
    <3>1. x \in RunnerType /\ Creates(x) /\ x.kind = runner[r].kind /\ x.at # "create"
      BY <2>r DEF RunnerType, Places, Creates
    <3>2. runner' = [runner EXCEPT ![r] = x]
      BY <2>4, <1>a DEF Link, RunnerType
    <3>3. exec' \in [Execs -> ExecType]
      BY <2>4, <2>r, SetExecType DEF Link, Statuses
    <3> HIDE DEF x
    <3> QED BY <1>a, <2>4, <2>x, <3>1, <3>2, <3>3, NextTypeParts DEF Link
  <2>5. CASE Mark(r)
    <3> DEFINE x == IF At(r, "end") THEN Free ELSE [runner[r] EXCEPT !.mark = FALSE]
    <3>1. x \in RunnerType /\ Creates(x) /\ ((x.kind = runner[r].kind /\ x.at = runner[r].at) \/ x = Free)
      BY <2>r, ConstantTypes DEF RunnerType, Creates
    <3>2. runner' = [runner EXCEPT ![r] = x]
      BY <2>5 DEF Mark
    <3>3. exec' \in [Execs -> ExecType]
      BY <2>5, <2>r, SetExecType DEF Mark, Statuses
    <3>4. UNCHANGED <<task, job, req, restarts, late, broken>>
      BY <2>5 DEF Mark
    <3> HIDE DEF x
    <3>5. /\ runner' \in [Runners -> RunnerType] /\ \A s \in Runners : Creates(runner'[s])
          /\ \A s \in Runners : runner'[s] = IF s = r THEN x ELSE runner[s]
      BY <3>1, <3>2, RunnerChange
    <3>6. PauseInv'
      BY <3>1, <3>4, <3>5, ConstantTypes DEF PauseInv, OneInstance, At
    <3> QED BY <1>a, <3>3, <3>4, <3>5, <3>6, NextTypeParts
  <2>6. CASE Finish(r)
    <3>1. PICK o \in Ended(r) : /\ runner' = [runner EXCEPT ![r].at = "update", ![r].out = o]
                                /\ broken' = (broken \/ o # "completed")
      BY <2>6 DEF Finish
    <3> DEFINE x == [runner[r] EXCEPT !.at = "update", !.out = o]
    <3>2. o \in Outcomes
      BY DEF Ended, Outcomes
    <3>3. x \in RunnerType /\ Creates(x) /\ x.kind = runner[r].kind /\ x.at # "create"
      BY <2>r, <3>2 DEF RunnerType, Places, Creates
    <3>4. runner' = [runner EXCEPT ![r] = x]
      BY <3>1, <1>a DEF RunnerType
    <3> HIDE DEF x
    <3> QED BY <1>a, <2>6, <2>x, <3>1, <3>3, <3>4, NextTypeParts DEF Finish
  <2>7. CASE Update(r)
    <3>1. runner[r].out \in Statuses /\ "after" \in Places \ {"look", "create"}
      BY <2>r DEF RunnerType, Outcomes, Statuses, Places
    <3>2. exec' \in [Execs -> ExecType]
      BY <2>7, <2>r, <3>1, SetExecType DEF Update
    <3> QED BY <1>a, <2>7, <2>g, <3>1, <3>2, NextTypeParts DEF Update
  <2>8. CASE After(r)
    <3>1. /\ task' \in [exists: BOOLEAN, status: TaskStatuses, type: Triggers, schedule: Schedules, target: Targets]
          /\ task'.status = task.status \/ task'.status # "active"
      BY <2>8, <1>a DEF After, TaskStatuses
    <3>2. UNCHANGED <<job, exec, req, restarts, late, broken>>
      BY <2>8 DEF After
    <3>3. CASE Go(r, "chain")
      BY <1>a, <2>g, <3>1, <3>2, <3>3, NextTypeParts DEF Places
    <3>4. CASE Done(r)
      BY <1>a, <2>d, <3>1, <3>2, <3>4, NextTypeParts
    <3> QED BY <2>8, <3>3, <3>4 DEF After
  <2>9. CASE Chain(r)
    <3>1. UNCHANGED <<task, job, exec, req, restarts, late, broken>>
      BY <2>9 DEF Chain
    <3>2. CASE Done(r)
      BY <1>a, <2>d, <3>1, <3>2, NextTypeParts
    <3>3. ASSUME NEW e \in Pending,
                 \/ runner' = [runner EXCEPT ![r] = Chained(e)]
                 \/ \E s \in Runners : Slot(s) /\ runner' = [runner EXCEPT ![r].at = "end", ![s] = Chained(e)]
          PROVE  Inv'
      <4>1. Chained(e) \in RunnerType /\ Chained(e).kind = "chained" /\ Creates(Chained(e))
        <5>1. e \in 0..MaxExecs /\ exec[e].depth \in 0..MaxContinuations
          BY <1>a DEF Pending, Execs, ExecType, TasksAssumption
        <5> QED BY <5>1, ConstantTypes DEF Chained, RunnerType, Kinds, Places, Creates
      <4>2. CASE runner' = [runner EXCEPT ![r] = Chained(e)]
        BY <1>a, <2>x, <3>1, <4>1, <4>2, NextTypeParts
      <4>3. ASSUME NEW s \in Runners, Slot(s), runner' = [runner EXCEPT ![r].at = "end", ![s] = Chained(e)]
            PROVE  Inv'
        <5> DEFINE x == [runner[r] EXCEPT !.at = "end"]
        <5>1. x \in RunnerType /\ Creates(x) /\ x.kind = runner[r].kind /\ x.at = "end"
          BY <2>r DEF RunnerType, Places, Creates
        <5>2. \A u \in Runners : runner'[u] = IF u = s THEN Chained(e) ELSE IF u = r THEN x ELSE runner[u]
          BY <4>3, <1>a DEF RunnerType
        <5>3. runner' \in [Runners -> RunnerType]
          <6>1. runner' = [[runner EXCEPT ![r] = x] EXCEPT ![s] = Chained(e)]
            BY <4>3, <1>a DEF RunnerType
          <6> HIDE DEF x
          <6> QED BY <1>a, <4>1, <5>1, <6>1
        <5> HIDE DEF x
        <5>4. \A u \in Runners : Creates(runner'[u])
          BY <1>a, <4>1, <5>1, <5>2
        <5>5. PauseInv'
          BY <3>1, <4>1, <5>1, <5>2 DEF PauseInv, OneInstance, At
        <5> QED BY <1>a, <3>1, <5>3, <5>4, <5>5, NextTypeParts
      <4> QED BY <3>3, <4>2, <4>3
    <3> QED BY <2>9, <3>2, <3>3 DEF Chain
  <2>10. CASE Queue(r)
    <3>1. PICK e \in Execs : Insert(e, "continuation", runner[r].depth + 1, runner[r].exec)
      BY <2>10 DEF Queue
    <3>2. runner[r].depth + 1 \in 0..MaxContinuations
      BY <2>10, <2>r DEF Queue, RunnerType, TasksAssumption
    <3>3. exec' \in [Execs -> ExecType]
      BY <2>r, <3>1, <3>2, InsertType
    <3> QED BY <1>a, <1>b, <2>10, <3>3, NextTypeParts DEF Queue
  <2> QED BY <1>4, <2>1, <2>2, <2>3, <2>4, <2>5, <2>6, <2>7, <2>8, <2>9, <2>10 DEF Proceed
<1>5. ASSUME NEW q \in Requests, Serve(q) PROVE Inv'
  <2>q. req[q] \in ReqType
    BY <1>a
  <2>s. ASSUME NEW x \in ReqType, req' = [req EXCEPT ![q] = x] PROVE req' \in [Requests -> ReqType]
    BY <1>a, <2>s
  <2>t. ASSUME NEW p \in {"none", "read", "write", "refresh", "cancel", "register", "done"}, Step(q, p)
        PROVE  req' \in [Requests -> ReqType]
    BY <1>a, <2>t DEF Step, ReqType
  <2>a. ASSUME Answer(q) \/ Cut(q) PROVE req' \in [Requests -> ReqType]
    <3>1. Over(q, FALSE) \in ReqType /\ Over(q, TRUE) \in ReqType
      BY <1>a, OverType
    <3>2. \E c \in BOOLEAN : req' = [req EXCEPT ![q] = Over(q, c)]
      BY <2>a DEF Answer, Cut
    <3> QED BY <2>s, <3>1, <3>2
  <2>w. ASSUME NEW s \in TaskStatuses, NEW n \in Schedules, WriteTask(q, s, n), UNCHANGED runner
        PROVE  /\ task' \in [exists: BOOLEAN, status: TaskStatuses, type: Triggers, schedule: Schedules, target: Targets]
               /\ late' \in Nat /\ PauseInv'
    <3>1. Written(q, s) \in TaskStatuses
      BY <1>a DEF Written
    <3>2. /\ task' \in [exists: BOOLEAN, status: TaskStatuses, type: Triggers, schedule: Schedules, target: Targets]
          /\ task'.status = Written(q, s)
      BY <1>a, <2>w, <3>1 DEF WriteTask
    <3>3. late' = IF task'.status = task.status THEN late ELSE 0
      BY <2>w, <3>2 DEF WriteTask
    <3> QED BY <1>a, <2>w, <3>2, <3>3 DEF PauseInv, OneInstance, At
  <2>1. CASE Begin(q)
    <3>1. req' \in [Requests -> ReqType]
      <4>1. PICK op \in Ops : req' = [req EXCEPT ![q].op = op, ![q].step = "read", ![q].before = Finished]
        BY <2>1 DEF Begin
      <4>2. op \in OpNames /\ Finished \in SUBSET Requests
        BY DEF TasksAssumption, Finished
      <4> DEFINE x == [req[q] EXCEPT !.op = op, !.step = "read", !.before = Finished]
      <4>3. x \in ReqType
        BY <2>q, <4>2 DEF ReqType
      <4>4. req' = [req EXCEPT ![q] = x]
        BY <1>a, <4>1 DEF ReqType
      <4> HIDE DEF x
      <4> QED BY <2>s, <4>3, <4>4
    <3> QED BY <1>a, <1>b, <2>1, <3>1, NextTypeParts DEF Begin
  <2>2. CASE ReadTask(q)
    <3>1. req' \in [Requests -> ReqType]
      <4>1. task.status \in TaskStatuses /\ task.schedule \in Schedules
        BY <1>a
      <4>2. CASE Answer(q)
        BY <2>a, <4>2
      <4>3. ASSUME NEW p \in {"register", "write"},
                   req' = [req EXCEPT ![q].view = task.status, ![q].schedule = task.schedule, ![q].step = p]
            PROVE  req' \in [Requests -> ReqType]
        <5> DEFINE x == [req[q] EXCEPT !.view = task.status, !.schedule = task.schedule, !.step = p]
        <5>1. x \in ReqType
          BY <2>q, <4>1 DEF ReqType
        <5>2. req' = [req EXCEPT ![q] = x]
          BY <1>a, <4>3 DEF ReqType
        <5> HIDE DEF x
        <5> QED BY <2>s, <5>1, <5>2
      <4>4. (IF req[q].op = "resume" /\ task.status # "paused" THEN "register" ELSE "write") \in {"register", "write"}
        OBVIOUS
      <4> QED BY <2>2, <4>2, <4>3, <4>4 DEF ReadTask
    <3> QED BY <1>a, <1>b, <2>2, <3>1, NextTypeParts DEF ReadTask
  <2>3. CASE WriteStatus(q)
    <3>1. UNCHANGED <<job, exec, runner, restarts, broken>>
      BY <2>3 DEF WriteStatus
    <3>2. req' \in [Requests -> ReqType]
      BY <2>3, <2>a, <2>t DEF WriteStatus
    <3>3. UNCHANGED <<task, late>> \/ \E s \in TaskStatuses, n \in Schedules : WriteTask(q, s, n)
      <4>1. task.schedule \in Schedules /\ NewSchedules \subseteq Schedules
        BY <1>a DEF NewSchedules, Schedules
      <4> QED BY <2>3, <4>1 DEF WriteStatus, TaskStatuses
    <3>4. /\ task' \in [exists: BOOLEAN, status: TaskStatuses, type: Triggers, schedule: Schedules, target: Targets]
          /\ late' \in Nat /\ PauseInv'
      BY <1>a, <1>b, <2>w, <3>1, <3>3
    <3> QED BY <1>a, <3>1, <3>2, <3>4, NextTypeParts
  <2>4. CASE Refresh(q)
    <3>1. req' \in [Requests -> ReqType]
      <4>1. task.status \in TaskStatuses /\ task.schedule \in Schedules
        BY <1>a
      <4>2. CASE Answer(q)
        BY <2>a, <4>2
      <4>3. ASSUME NEW p \in {"cancel", "register"},
                   req' = [req EXCEPT ![q].view = task.status, ![q].schedule = task.schedule, ![q].step = p]
            PROVE  req' \in [Requests -> ReqType]
        <5> DEFINE x == [req[q] EXCEPT !.view = task.status, !.schedule = task.schedule, !.step = p]
        <5>1. x \in ReqType
          BY <2>q, <4>1 DEF ReqType
        <5>2. req' = [req EXCEPT ![q] = x]
          BY <1>a, <4>3 DEF ReqType
        <5> HIDE DEF x
        <5> QED BY <2>s, <5>1, <5>2
      <4>4. (IF req[q].op = "pause" THEN "cancel" ELSE "register") \in {"cancel", "register"}
        OBVIOUS
      <4> QED BY <2>4, <4>2, <4>3, <4>4 DEF Refresh
    <3> QED BY <1>a, <1>b, <2>4, <3>1, NextTypeParts DEF Refresh
  <2>5. CASE DeleteTask(q)
    <3>1. /\ task' \in [exists: BOOLEAN, status: TaskStatuses, type: Triggers, schedule: Schedules, target: Targets]
          /\ task'.status = task.status /\ UNCHANGED <<job, runner, restarts, late, broken>>
      BY <1>a, <2>5 DEF DeleteTask
    <3>2. exec' \in [Execs -> ExecType]
      <4>1. \A e \in Execs : [exec[e] EXCEPT !.status = "gone"] \in ExecType
        BY <1>a DEF ExecType, Statuses
      <4> QED BY <1>a, <2>5, <4>1 DEF DeleteTask
    <3>3. req' \in [Requests -> ReqType]
      BY <2>5, <2>t DEF DeleteTask
    <3>4. PauseInv'
      BY <3>1 DEF PauseInv, OneInstance, At
    <3> QED BY <1>a, <3>1, <3>2, <3>3, <3>4, NextTypeParts
  <2>6. CASE Cancel(q) \/ Register(q)
    <3>1. job' \in BOOLEAN /\ UNCHANGED <<task, exec, runner, restarts, late, broken>> /\ req' \in [Requests -> ReqType]
      BY <1>a, <2>6, <2>a DEF Cancel, Register, Cut
    <3> QED BY <1>a, <1>b, <3>1, NextTypeParts
  <2>7. CASE ReadExec(q)
    <3>1. UNCHANGED <<task, job, exec, runner, restarts, late, broken>>
      BY <2>7 DEF ReadExec
    <3>2. req' \in [Requests -> ReqType]
      <4>1. ASSUME NEW e \in Execs, req' = [req EXCEPT ![q].step = "write", ![q].exec = e]
            PROVE  req' \in [Requests -> ReqType]
        <5>1. e \in 0..MaxExecs
          BY DEF Execs, TasksAssumption
        <5> DEFINE x == [req[q] EXCEPT !.step = "write", !.exec = e]
        <5>2. x \in ReqType
          BY <2>q, <5>1 DEF ReqType
        <5>3. req' = [req EXCEPT ![q] = x]
          BY <1>a, <4>1 DEF ReqType
        <5> HIDE DEF x
        <5> QED BY <2>s, <5>2, <5>3
      <4> QED BY <2>7, <2>a, <4>1 DEF ReadExec
    <3> QED BY <1>a, <1>b, <3>1, <3>2, NextTypeParts
  <2>8. CASE StopExec(q)
    <3>1. UNCHANGED <<task, job, runner, restarts, late, broken>> /\ req' \in [Requests -> ReqType]
      BY <2>8, <2>a DEF StopExec
    <3>2. exec' \in [Execs -> ExecType]
      <4> DEFINE e == req[q].exec
                 Stopped(h) == [exec EXCEPT ![e].status = "stopped", ![e].halted = h]
      <4>1. exec' = exec \/ \E h \in BOOLEAN : exec' = Stopped(h)
        <5>1. (task.target = "workflow" /\ exec[e].status = "running") \in BOOLEAN
          OBVIOUS
        <5> QED BY <2>8, <5>1, Zenon DEF StopExec
      <4>2. ASSUME NEW h \in BOOLEAN PROVE Stopped(h) \in [Execs -> ExecType]
        <5> HIDE DEF e
        <5>1. \A f \in Execs : [exec[f] EXCEPT !.status = "stopped", !.halted = h] \in ExecType
          <6>1. "stopped" \in Statuses
            BY DEF Statuses
          <6>2. SUFFICES ASSUME NEW f \in Execs PROVE [exec[f] EXCEPT !.status = "stopped", !.halted = h] \in ExecType
            OBVIOUS
          <6>3. exec[f] \in ExecType
            BY <1>a
          <6> QED BY <6>1, <6>3, Zenon DEF ExecType
        <5>2. Stopped(h) = [f \in Execs |-> IF f = e THEN [exec[f] EXCEPT !.status = "stopped", !.halted = h] ELSE exec[f]]
          BY <1>a
        <5> QED BY <1>a, <5>1, <5>2
      <4> HIDE DEF Stopped
      <4> QED BY <1>a, <4>1, <4>2
    <3> QED BY <1>a, <1>b, <3>1, <3>2, NextTypeParts
  <2>9. CASE DropExec(q)
    <3>1. exec' \in [Execs -> ExecType]
      BY <2>9, <2>q, SetExecType DEF DropExec, ReqType, Statuses
    <3> QED BY <1>a, <1>b, <2>9, <2>a, <3>1, NextTypeParts DEF DropExec
  <2> QED BY <1>5, <2>1, <2>2, <2>3, <2>4, <2>5, <2>6, <2>7, <2>8, <2>9 DEF Serve
<1>6. CASE UNCHANGED vars
  BY <1>6, <1>a, <1>b, NextTypeParts DEF vars
<1> QED BY <1>1, <1>2, <1>3, <1>4, <1>5, <1>6 DEF Next

LEMMA InvInit == Init => Inv
<1> SUFFICES ASSUME Init PROVE Inv
  OBVIOUS
<1>1. \A r \in Runners : runner[r] = Free
  BY DEF Init
<1>2. TypeInv
  <2>1. /\ task \in [exists: BOOLEAN, status: TaskStatuses, type: Triggers, schedule: Schedules, target: Targets]
        /\ job \in BOOLEAN
    BY DEF Init, TaskStatuses, Schedules
  <2>2. /\ exec \in [Execs -> ExecType] /\ runner \in [Runners -> RunnerType] /\ req \in [Requests -> ReqType]
        /\ \A s \in Runners : Creates(runner[s])
    BY <1>1, ConstantTypes DEF Init
  <2>3. restarts \in 0..MaxRestarts /\ late \in Nat /\ broken \in BOOLEAN
    <3>1. broken \in BOOLEAN
      BY DEF Init
    <3>2. restarts \in 0..MaxRestarts /\ late \in Nat
      BY DEF Init, TasksAssumption
    <3> QED BY <3>1, <3>2
  <2> QED BY <2>1, <2>2, <2>3, TypeParts
<1>3. PauseInv
  BY <1>1, ConstantTypes DEF Init, PauseInv, OneInstance, At
<1> QED BY <1>2, <1>3 DEF Inv

LEMMA InvHolds == Spec => []Inv
  BY InvInit, InvStep, PTL DEF Spec

(* Every reachable state is well typed, whatever the task and the requests.    *)
THEOREM TaskTypeCorrect == Spec => []TaskTypeOK
<1>1. Inv => TaskTypeOK
  BY DEF Inv, TypeInv
<1> QED BY <1>1, InvHolds, PTL

(* However requests, jobs and runs interleave, at most one scheduled execution *)
(* begins after a pause and before the next change of the task's status.       *)
THEOREM PauseHonoured == Spec => []PauseTakesEffect
<1>1. Inv => PauseTakesEffect
  BY DEF Inv, PauseInv, PauseTakesEffect
<1> QED BY <1>1, InvHolds, PTL
------------------------------------------------------------------------------
(* A request that will still register the task with a schedule the scheduler   *)
(* takes, and one that will still take its job away: a pause, or a             *)
(* registration of a schedule that is refused.                                 *)
Holds(q) ==
  /\ req[q].op \in {"resume", "patch"}
  /\ \/ req[q].step = "refresh"
     \/ req[q].step = "register" /\ req[q].view = "active" /\ req[q].schedule = "valid"
Ends(p) ==
  \/ /\ req[p].op = "pause"
     /\ req[p].step \in {"refresh", "cancel"} \/ (req[p].step = "write" /\ req[p].view = "paused")
  \/ /\ req[p].op \in {"resume", "patch"} /\ req[p].step = "register"
     /\ req[p].view = "active" /\ req[p].schedule = "refused"
(* What became of the request that gave the task its status and schedule while *)
(* p was under way.                                                            *)
Answered(p) ==
  \E q \in Requests : req[q].op \in {"resume", "patch"} /\ Overlap(p, q) /\ (Holds(q) \/ q \in Finished)

BeforeInv == \A q \in Requests : req[q].before \subseteq Finished
GoneInv   == \A q \in Requests : In(q, {"delete"}, "cancel") => ~ task.exists
JobInv    ==
  Scheduled =>
    /\ job \/ Crossed \/ \E q \in Requests : Holds(q)
    /\ \A p \in Requests : Ends(p) => Answered(p)
SchedInv == BeforeInv /\ GoneInv /\ JobInv

(* A request keeps its kind and what it came after, and what is finished stays *)
(* finished: two requests that overlapped did so for good.                     *)
LEMMA RequestGoesOn ==
  ASSUME Inv, BeforeInv, NEW q \in Active, NEW x \in ReqType, req' = [req EXCEPT ![q] = x],
         x.op = req[q].op, x.before = req[q].before, x.step # "none"
  PROVE  /\ req'[q] = x /\ \A s \in Requests \ {q} : req'[s] = req[s]
         /\ Finished \subseteq Finished' /\ q \notin Finished
         /\ \A a, b \in Requests : Overlap(a, b)' <=> Overlap(a, b)
         /\ \A a \in Requests : q \notin req[a].before
         /\ Crossed => Crossed'
         /\ BeforeInv'
<1>1. q \in Requests /\ q \notin Finished /\ req \in [Requests -> ReqType]
  BY PartsOfType DEF Active, Finished, Inv
<1>2. req'[q] = x /\ \A s \in Requests \ {q} : req'[s] = req[s]
  BY <1>1
<1>3. \A s \in Requests : req'[s].op = req[s].op /\ req'[s].before = req[s].before
  BY <1>2
<1>4. Finished \subseteq Finished' /\ \A s \in Finished : req'[s] = req[s]
  BY <1>1, <1>2 DEF Finished
<1>5. \A a, b \in Requests : Overlap(a, b)' <=> Overlap(a, b)
  BY <1>3 DEF Overlap
<1>6. Crossed => Crossed'
  <2> SUFFICES ASSUME Crossed PROVE Crossed'
    OBVIOUS
  <2>1. PICK a, b \in Finished : req[a].cuts /\ req[b].op \in {"resume", "patch"} /\ Overlap(a, b)
    BY DEF Crossed
  <2>2. a \in Requests /\ b \in Requests
    BY DEF Finished
  <2>3. a \in Finished' /\ b \in Finished' /\ req'[a].cuts /\ req'[b].op \in {"resume", "patch"} /\ Overlap(a, b)'
    BY <1>4, <1>5, <2>1, <2>2
  <2> QED BY <2>3 DEF Crossed
<1>7. BeforeInv'
  BY <1>3, <1>4 DEF BeforeInv
<1>8. \A a \in Requests : q \notin req[a].before
  BY <1>1 DEF BeforeInv
<1> QED BY <1>1, <1>2, <1>4, <1>5, <1>6, <1>7, <1>8

(* A request that leaves the job to another, or will still register it.        *)
LEMMA SchedMove ==
  ASSUME Inv, SchedInv, NEW q \in Active, NEW x \in ReqType, req' = [req EXCEPT ![q] = x],
         x.op = req[q].op, x.before = req[q].before, x.step # "none",
         x.op = "delete" /\ x.step = "cancel" => ~ task'.exists,
         task'.exists => task.exists,
         Scheduled' =>
           \/ Holds(q)'
           \/ /\ Scheduled
              /\ job => job'
              /\ Holds(q) => q \in Finished' /\ job'
              /\ Ends(q)' => Ends(q)
  PROVE  SchedInv'
<1>1. q \in Requests
  BY DEF Active
<1>2. /\ req'[q] = x /\ \A s \in Requests \ {q} : req'[s] = req[s]
      /\ Finished \subseteq Finished' /\ q \notin Finished
      /\ \A a, b \in Requests : Overlap(a, b)' <=> Overlap(a, b)
      /\ \A a \in Requests : q \notin req[a].before
      /\ Crossed => Crossed'
      /\ BeforeInv'
  BY RequestGoesOn DEF SchedInv
<1>3. GoneInv'
  <2> SUFFICES ASSUME NEW s \in Requests, req'[s].op = "delete", req'[s].step = "cancel" PROVE ~ task'.exists
    BY DEF GoneInv, In
  <2>1. CASE s = q
    BY <1>2, <2>1
  <2>2. CASE s # q
    BY <1>2, <2>2 DEF SchedInv, GoneInv, In
  <2> QED BY <2>1, <2>2
<1>4. \A s \in Requests \ {q} : (Holds(s)' <=> Holds(s)) /\ (Ends(s)' <=> Ends(s))
  BY <1>2 DEF Holds, Ends
<1>5. ASSUME Scheduled'
      PROVE  /\ job' \/ Crossed' \/ \E s \in Requests : Holds(s)'
             /\ \A p \in Requests : Ends(p)' => Answered(p)'
  <2>1. CASE Holds(q)'
    <3>1. ASSUME NEW p \in Requests, Ends(p)' PROVE Answered(p)'
      <4>1. p # q /\ req'[q].op \in {"resume", "patch"}
        BY <2>1, <3>1 DEF Ends, Holds
      <4>2. p \in Active
        BY <1>1, <1>2, <3>1, <4>1 DEF Ends, Active
      <4>3. Overlap(p, q)
        BY <1>1, <1>2, <4>1, <4>2 DEF SchedInv, BeforeInv, Overlap, Active, Finished
      <4>4. Overlap(p, q)'
        BY <1>1, <1>2, <4>3
      <4> QED BY <1>1, <2>1, <4>1, <4>4 DEF Answered
    <3> QED BY <1>1, <2>1, <3>1
  <2>2. CASE Scheduled /\ (job => job') /\ (Holds(q) => q \in Finished' /\ job') /\ (Ends(q)' => Ends(q))
    <3>1. job' \/ Crossed' \/ \E s \in Requests : Holds(s)'
      BY <1>1, <1>2, <1>4, <2>2 DEF SchedInv, JobInv
    <3>2. ASSUME NEW p \in Requests, Ends(p)' PROVE Answered(p)'
      <4>1. Ends(p)
        BY <1>4, <2>2, <3>2
      <4>2. PICK s \in Requests : req[s].op \in {"resume", "patch"} /\ Overlap(p, s) /\ (Holds(s) \/ s \in Finished)
        BY <2>2, <4>1 DEF SchedInv, JobInv, Answered
      <4>3. req'[s].op \in {"resume", "patch"} /\ Overlap(p, s)' /\ (Holds(s)' \/ s \in Finished')
        BY <1>2, <1>4, <2>2, <4>2
      <4> QED BY <4>3 DEF Answered
    <3> QED BY <3>1, <3>2
  <2> QED BY <1>5, <2>1, <2>2
<1> QED BY <1>2, <1>3, <1>5 DEF SchedInv, JobInv

(* A request takes the job away and ends: whoever gave the task its schedule   *)
(* meanwhile overlapped with it, and is finished or will still register.       *)
LEMMA CutMove ==
  ASSUME Inv, SchedInv, NEW q \in Active, Cut(q), task' = task, Ends(q)
  PROVE  SchedInv'
<1> DEFINE x == Over(q, TRUE)
<1>0. q \in Requests /\ req \in [Requests -> ReqType]
  BY PartsOfType DEF Active, Inv
<1>1. /\ x \in ReqType /\ x.op = req[q].op /\ x.before = req[q].before /\ x.step = "done" /\ x.cuts
      /\ req' = [req EXCEPT ![q] = x]
  BY <1>0, OverType, Zenon DEF Cut
<1> HIDE DEF x
<1>2. /\ req'[q] = x /\ \A s \in Requests \ {q} : req'[s] = req[s]
      /\ Finished \subseteq Finished' /\ q \notin Finished
      /\ \A a, b \in Requests : Overlap(a, b)' <=> Overlap(a, b)
      /\ Crossed => Crossed'
      /\ BeforeInv'
  BY <1>1, RequestGoesOn DEF SchedInv
<1>3. \A s \in Requests \ {q} : (Holds(s)' <=> Holds(s)) /\ (Ends(s)' <=> Ends(s))
  BY <1>2 DEF Holds, Ends
<1>4. ~ Holds(q) /\ ~ Ends(q)' /\ q \in Finished' /\ req'[q].cuts
  BY <1>0, <1>1, <1>2 DEF Ends, Holds, Finished
<1>5. GoneInv'
  BY <1>1, <1>2 DEF SchedInv, GoneInv, In
<1>6. ASSUME NEW p \in Requests, Answered(p)
      PROVE  \E s \in Requests : req'[s].op \in {"resume", "patch"} /\ Overlap(p, s)' /\ (Holds(s)' \/ s \in Finished')
  <2>1. PICK s \in Requests : req[s].op \in {"resume", "patch"} /\ Overlap(p, s) /\ (Holds(s) \/ s \in Finished)
    BY <1>6 DEF Answered
  <2>2. s # q
    BY <1>2, <1>4, <2>1
  <2>3. req'[s].op \in {"resume", "patch"} /\ Overlap(p, s)' /\ (Holds(s)' \/ s \in Finished')
    BY <1>2, <1>3, <2>1, <2>2
  <2> QED BY <2>3
<1>7. ASSUME Scheduled PROVE Crossed' \/ \E s \in Requests : Holds(s)'
  <2>1. Answered(q)
    BY <1>0, <1>7 DEF SchedInv, JobInv
  <2>2. PICK s \in Requests : req'[s].op \in {"resume", "patch"} /\ Overlap(q, s)' /\ (Holds(s)' \/ s \in Finished')
    BY <1>0, <1>6, <2>1
  <2>3. CASE s \in Finished'
    BY <1>4, <2>2, <2>3 DEF Crossed
  <2> QED BY <2>2, <2>3
<1>8. Scheduled' => Scheduled
  BY DEF Scheduled
<1>9. ASSUME Scheduled, NEW p \in Requests, Ends(p)' PROVE Answered(p)'
  <2>1. Ends(p)
    BY <1>3, <1>4, <1>9
  <2>2. Answered(p)
    BY <1>9, <2>1 DEF SchedInv, JobInv
  <2> QED BY <1>6, <2>2 DEF Answered
<1> QED BY <1>2, <1>5, <1>7, <1>8, <1>9 DEF SchedInv, JobInv

(* Nothing happens to the requests.                                            *)
LEMMA SchedFrame ==
  ASSUME SchedInv, req' = req, Scheduled' => Scheduled /\ (job => job'), task'.exists = task.exists
  PROVE  SchedInv'
<1>1. /\ Finished' = Finished /\ (Crossed' <=> Crossed) /\ BeforeInv' /\ GoneInv'
  BY DEF SchedInv, Finished, Crossed, Overlap, BeforeInv, GoneInv, In
<1>2. \A s \in Requests : (Holds(s)' <=> Holds(s)) /\ (Ends(s)' <=> Ends(s)) /\ (Answered(s)' <=> Answered(s))
  BY DEF Holds, Ends, Answered, Finished, Overlap
<1> QED BY <1>1, <1>2 DEF SchedInv, JobInv

LEMMA SchedStep == Inv /\ SchedInv /\ [Next]_vars => SchedInv'
<1> SUFFICES ASSUME Inv, SchedInv, [Next]_vars PROVE SchedInv'
  OBVIOUS
<1>a. /\ task \in [exists: BOOLEAN, status: TaskStatuses, type: Triggers, schedule: Schedules, target: Targets]
      /\ job \in BOOLEAN /\ req \in [Requests -> ReqType]
  BY PartsOfType DEF Inv
<1>b. task' = task => (Scheduled' <=> Scheduled)
  BY DEF Scheduled
<1>1. CASE Fire \/ Trigger \/ UNCHANGED vars
  <2>1. task' = task /\ req' = req /\ (job' = job \/ job' = (task.type = "cron"))
    BY <1>1 DEF Fire, Trigger, vars
  <2>2. Scheduled' => Scheduled /\ (job => job')
    BY <2>1 DEF Scheduled
  <2> QED BY <2>1, <2>2, SchedFrame
<1>2. CASE Restart
  <2>1. /\ task' = task /\ job' = Scheduled
        /\ \A s \in Requests : req'[s] = IF s \in Active THEN Over(s, FALSE) ELSE req[s]
    BY <1>2 DEF Restart, Scheduled
  <2>2. \A s \in Requests : /\ req'[s].before = req[s].before
                            /\ req'[s].step \in {"none", "done"} /\ (req[s].step = "done" => req'[s].step = "done")
    <3> SUFFICES ASSUME NEW s \in Requests
                 PROVE  /\ req'[s].before = req[s].before
                        /\ req'[s].step \in {"none", "done"} /\ (req[s].step = "done" => req'[s].step = "done")
      OBVIOUS
    <3>1. CASE s \in Active
      <4>1. req'[s] = Over(s, FALSE)
        BY <2>1, <3>1
      <4>2. Over(s, FALSE).step = "done" /\ Over(s, FALSE).before = req[s].before
        BY <1>a, OverType
      <4> QED BY <4>1, <4>2
    <3>2. CASE s \notin Active
      BY <2>1, <3>2 DEF Active
    <3> QED BY <3>1, <3>2
  <2>3. BeforeInv' /\ GoneInv'
    BY <2>2 DEF SchedInv, BeforeInv, GoneInv, In, Finished
  <2>4. JobInv'
    BY <1>b, <2>1, <2>2 DEF JobInv, Ends
  <2> QED BY <2>3, <2>4 DEF SchedInv
<1>3. ASSUME NEW r \in Runners, Proceed(r) \/ Queue(r) PROVE SchedInv'
  <2>1. /\ req' = req /\ job' = job
        /\ task' = task \/ task' = [task EXCEPT !.status = "completed"]
    BY <1>3 DEF Proceed, Queue, Look, Create, Start, Link, Mark, Finish, Update, After, Chain
  <2>2. task'.exists = task.exists /\ (Scheduled' => Scheduled)
    BY <1>a, <2>1 DEF Scheduled
  <2> QED BY <2>1, <2>2, SchedFrame
<1>4. ASSUME NEW q \in Requests, Serve(q) PROVE SchedInv'
  <2>q. req[q] \in ReqType
    BY <1>a
  <2>n. ASSUME Answer(q), q \in Active, task' = task, job => job', Holds(q) /\ Scheduled => job'
        PROVE  SchedInv'
    <3> DEFINE x == Over(q, FALSE)
    <3>1. x \in ReqType /\ x.op = req[q].op /\ x.before = req[q].before /\ x.step = "done" /\ req' = [req EXCEPT ![q] = x]
      BY <1>a, <2>n, OverType, Zenon DEF Answer
    <3> HIDE DEF x
    <3>2. ~ Ends(q)' /\ q \in Finished'
      BY <1>a, <3>1 DEF Ends, Finished
    <3> QED BY <1>b, <2>n, <3>1, <3>2, SchedMove
  <2>1. CASE Begin(q)
    <3>1. PICK op \in Ops : req' = [req EXCEPT ![q].op = op, ![q].step = "read", ![q].before = Finished]
      BY <2>1 DEF Begin
    <3>2. /\ req[q].step = "none" /\ req'[q].step = "read" /\ req'[q].before = Finished
          /\ \A s \in Requests \ {q} : req'[s] = req[s]
          /\ task' = task /\ job' = job
      BY <1>a, <2>1, <3>1 DEF Begin, ReqType
    <3>3. Finished' = Finished /\ q \notin Finished
      BY <3>2 DEF Finished
    <3>4. BeforeInv' /\ GoneInv'
      BY <3>2, <3>3 DEF SchedInv, BeforeInv, GoneInv, In
    <3>5. \A s \in Requests \ {q} : (Holds(s)' <=> Holds(s)) /\ (Ends(s)' <=> Ends(s))
      BY <3>2 DEF Holds, Ends
    <3>6. ~ Holds(q) /\ ~ Ends(q)'
      BY <3>2 DEF Holds, Ends
    <3>7. \A a, b \in Requests \ {q} : Overlap(a, b)' <=> Overlap(a, b)
      BY <3>2 DEF Overlap
    <3>8. Crossed => Crossed'
      <4> SUFFICES ASSUME Crossed PROVE Crossed'
        OBVIOUS
      <4>1. PICK a, b \in Finished : req[a].cuts /\ req[b].op \in {"resume", "patch"} /\ Overlap(a, b)
        BY DEF Crossed
      <4>2. a \in Requests \ {q} /\ b \in Requests \ {q}
        BY <3>3 DEF Finished
      <4> QED BY <3>2, <3>3, <3>7, <4>1, <4>2 DEF Crossed
    <3>9. ASSUME NEW p \in Requests \ {q}, Answered(p) PROVE Answered(p)'
      <4>1. PICK s \in Requests : req[s].op \in {"resume", "patch"} /\ Overlap(p, s) /\ (Holds(s) \/ s \in Finished)
        BY <3>9 DEF Answered
      <4>2. s # q
        BY <3>3, <3>6, <4>1
      <4>3. req'[s].op \in {"resume", "patch"} /\ Overlap(p, s)' /\ (Holds(s)' \/ s \in Finished')
        BY <3>2, <3>3, <3>5, <3>7, <4>1, <4>2
      <4> QED BY <4>3 DEF Answered
    <3> QED BY <1>b, <3>2, <3>4, <3>5, <3>6, <3>8, <3>9 DEF SchedInv, JobInv
  <2>2. CASE ReadTask(q)
    <3>1. q \in Active /\ ~ Holds(q) /\ task' = task /\ job' = job
      BY <2>2 DEF ReadTask, In, Active, Holds
    <3>2. CASE task.exists
      <4> DEFINE p == IF req[q].op = "resume" /\ task.status # "paused" THEN "register" ELSE "write"
                 x == [req[q] EXCEPT !.view = task.status, !.schedule = task.schedule, !.step = p]
      <4>1. p \in {"register", "write"}
        OBVIOUS
      <4>2. req' = [req EXCEPT ![q] = x]
        BY <1>a, <2>2, <3>2 DEF ReadTask, ReqType
      <4> HIDE DEF p
      <4>3. /\ x \in ReqType /\ x.op = req[q].op /\ x.before = req[q].before /\ x.step \in {"register", "write"}
            /\ x.view = task.status /\ x.schedule = task.schedule
        BY <1>a, <2>q, <4>1 DEF ReqType
      <4> HIDE DEF x
      <4>4. Scheduled => ~ Ends(q)'
        BY <1>a, <4>2, <4>3 DEF Ends, Scheduled
      <4> QED BY <1>b, <3>1, <4>2, <4>3, <4>4, SchedMove
    <3>3. CASE ~ task.exists
      BY <2>2, <2>n, <3>1, <3>3 DEF ReadTask
    <3> QED BY <3>2, <3>3
  <2>3. CASE WriteStatus(q)
    <3>1. q \in Active /\ ~ Holds(q) /\ job' = job /\ req[q].op \in {"pause", "resume", "patch"} /\ req[q].step = "write"
      BY <2>3 DEF WriteStatus, In, Active, Holds
    <3>2. CASE ~ task.exists
      BY <2>3, <2>n, <3>1, <3>2 DEF WriteStatus
    <3>3. CASE task.exists
      <4> DEFINE x == [req[q] EXCEPT !.step = "refresh"]
      <4>1. /\ x \in ReqType /\ x.op = req[q].op /\ x.before = req[q].before /\ x.step = "refresh"
            /\ req' = [req EXCEPT ![q] = x]
        BY <1>a, <2>3, <2>q, <3>3 DEF WriteStatus, Step, ReqType
      <4> HIDE DEF x
      <4>2. task'.exists = task.exists
        BY <1>a, <2>3, <3>3 DEF WriteStatus, WriteTask
      <4>3. CASE req[q].op = "pause"
        <5>1. Scheduled' => Scheduled /\ req[q].view = "paused"
          BY <1>a, <2>3, <3>3, <4>3 DEF WriteStatus, WriteTask, Written, Scheduled
        <5>2. Scheduled' => Ends(q)
          BY <3>1, <4>3, <5>1 DEF Ends
        <5> QED BY <3>1, <4>1, <4>2, <5>1, <5>2, SchedMove
      <4>4. CASE req[q].op \in {"resume", "patch"}
        <5>1. Holds(q)'
          BY <1>a, <4>1, <4>4 DEF Holds
        <5> QED BY <3>1, <4>1, <4>2, <5>1, SchedMove
      <4> QED BY <3>1, <4>3, <4>4
    <3> QED BY <3>2, <3>3
  <2>4. CASE Refresh(q)
    <3>1. q \in Active /\ task' = task /\ job' = job /\ req[q].op \in {"pause", "resume", "patch"} /\ req[q].step = "refresh"
      BY <2>4 DEF Refresh, In, Active
    <3>2. CASE ~ task.exists
      BY <2>4, <2>n, <3>1, <3>2 DEF Refresh, Scheduled
    <3>3. CASE task.exists
      <4> DEFINE p == IF req[q].op = "pause" THEN "cancel" ELSE "register"
                 x == [req[q] EXCEPT !.view = task.status, !.schedule = task.schedule, !.step = p]
      <4>1. req' = [req EXCEPT ![q] = x]
        BY <1>a, <2>4, <3>3 DEF Refresh, ReqType
      <4>2. p \in {"cancel", "register"} /\ (req[q].op # "pause" => p = "register")
        OBVIOUS
      <4> HIDE DEF p
      <4>3. /\ x \in ReqType /\ x.op = req[q].op /\ x.before = req[q].before /\ x.step = p
            /\ x.view = task.status /\ x.schedule = task.schedule
        BY <1>a, <2>q, <4>2 DEF ReqType
      <4> HIDE DEF x
      <4>4. CASE req[q].op = "pause"
        <5>1. Ends(q) /\ ~ Holds(q)
          BY <3>1, <4>4 DEF Ends, Holds
        <5> QED BY <1>b, <3>1, <4>1, <4>2, <4>3, <4>4, <5>1, SchedMove
      <4>5. CASE req[q].op # "pause"
        <5>1. Scheduled => Holds(q)'
          BY <1>a, <3>1, <4>1, <4>2, <4>3, <4>5 DEF Holds, Scheduled
        <5> QED BY <1>b, <3>1, <4>1, <4>2, <4>3, <4>5, <5>1, SchedMove
      <4> QED BY <4>4, <4>5
    <3> QED BY <3>2, <3>3
  <2>5. CASE DeleteTask(q)
    <3> DEFINE x == [req[q] EXCEPT !.step = "cancel"]
    <3>1. /\ x \in ReqType /\ x.op = req[q].op /\ x.before = req[q].before /\ x.step = "cancel"
          /\ req' = [req EXCEPT ![q] = x] /\ q \in Active
      BY <1>a, <2>5, <2>q DEF DeleteTask, Step, ReqType, In, Active
    <3>2. ~ task'.exists /\ ~ Scheduled'
      BY <1>a, <2>5 DEF DeleteTask, Scheduled
    <3> HIDE DEF x
    <3> QED BY <3>1, <3>2, SchedMove
  <2>6. CASE Cancel(q)
    <3>1. q \in Active /\ task' = task /\ Cut(q) /\ req[q].op \in {"pause", "delete"} /\ req[q].step = "cancel"
      BY <2>6 DEF Cancel, In, Active
    <3>2. CASE req[q].op = "delete"
      <4>1. ~ task.exists /\ ~ Scheduled
        BY <3>1, <3>2 DEF SchedInv, GoneInv, In, Scheduled
      <4> DEFINE x == Over(q, TRUE)
      <4>2. x \in ReqType /\ x.op = req[q].op /\ x.before = req[q].before /\ x.step = "done" /\ req' = [req EXCEPT ![q] = x]
        BY <1>a, <3>1, OverType, Zenon DEF Cut
      <4> HIDE DEF x
      <4> QED BY <1>b, <3>1, <4>1, <4>2, SchedMove
    <3>3. CASE req[q].op = "pause"
      BY <3>1, <3>3, CutMove DEF Ends
    <3> QED BY <3>1, <3>2, <3>3
  <2>7. CASE Register(q)
    <3>1. q \in Active /\ task' = task /\ req[q].op \in {"resume", "patch"} /\ req[q].step = "register"
      BY <2>7 DEF Register, In, Active
    <3>2. CASE Answer(q) /\ job' = TRUE
      BY <2>n, <3>1, <3>2
    <3>3. CASE Cut(q) /\ req[q].view = "active" /\ req[q].schedule = "refused"
      BY <3>1, <3>3, CutMove DEF Ends
    <3>4. CASE Answer(q) /\ job' = job /\ ~ (req[q].view = "active" /\ task.type # "webhook" /\ req[q].schedule # "missing")
      <4>1. ~ (Holds(q) /\ Scheduled)
        BY <3>1, <3>4 DEF Holds, Scheduled
      <4> QED BY <2>n, <3>1, <3>4, <4>1
    <3> QED BY <2>7, <3>2, <3>3, <3>4 DEF Register
  <2>8. CASE ReadExec(q)
    <3>1. q \in Active /\ ~ Holds(q) /\ task' = task /\ job' = job /\ req[q].op \in {"stop", "drop"}
      BY <2>8 DEF ReadExec, In, Active, Holds
    <3>2. ASSUME NEW e \in Execs, req' = [req EXCEPT ![q].step = "write", ![q].exec = e] PROVE SchedInv'
      <4> DEFINE x == [req[q] EXCEPT !.step = "write", !.exec = e]
      <4>1. e \in 0..MaxExecs
        BY DEF Execs, TasksAssumption
      <4>2. /\ x \in ReqType /\ x.op = req[q].op /\ x.before = req[q].before /\ x.step = "write"
            /\ req' = [req EXCEPT ![q] = x]
        BY <1>a, <2>q, <3>2, <4>1 DEF ReqType
      <4> HIDE DEF x
      <4>3. ~ Ends(q)'
        BY <1>a, <3>1, <4>2 DEF Ends
      <4> QED BY <1>b, <3>1, <4>2, <4>3, SchedMove
    <3> QED BY <2>8, <2>n, <3>1, <3>2 DEF ReadExec
  <2>9. CASE StopExec(q) \/ DropExec(q)
    <3>1. q \in Active /\ ~ Holds(q) /\ task' = task /\ job' = job /\ Answer(q)
      BY <2>9 DEF StopExec, DropExec, In, Active, Holds
    <3> QED BY <2>n, <3>1
  <2> QED BY <1>4, <2>1, <2>2, <2>3, <2>4, <2>5, <2>6, <2>7, <2>8, <2>9 DEF Serve
<1> QED BY <1>1, <1>2, <1>3, <1>4 DEF Next

LEMMA SchedInit == Init => SchedInv
<1> SUFFICES ASSUME Init PROVE SchedInv
  OBVIOUS
<1>1. \A q \in Requests : req[q].step = "none" /\ req[q].before = {}
  BY DEF Init, NoReq
<1>2. Scheduled => job
  BY DEF Init, Scheduled
<1> QED BY <1>1, <1>2 DEF SchedInv, BeforeInv, GoneInv, JobInv, In, Ends

(* An active cron task whose expression the scheduler takes has its job when   *)
(* its requests have all answered, whatever was paused, resumed, changed,      *)
(* refused and restarted, unless a request that took the job away overlapped   *)
(* with a resume or a patch: it may have come last.                            *)
THEOREM ActiveStaysScheduled == Spec => []ActiveIsScheduled
<1>1. Inv /\ SchedInv => ActiveIsScheduled
  <2> SUFFICES ASSUME Inv, SchedInv, Scheduled, Active = {}, ~ Crossed
               PROVE  job
    BY DEF ActiveIsScheduled
  <2>1. \A q \in Requests : ~ Holds(q)
    BY DEF Holds, Active
  <2> QED BY <2>1 DEF SchedInv, JobInv
<1>2. Spec => []SchedInv
  BY InvHolds, SchedInit, SchedStep, PTL DEF Spec
<1> QED BY <1>1, <1>2, InvHolds, PTL
------------------------------------------------------------------------------
(* Executions are created in order, and a continuation is one deeper than the  *)
(* execution it continues, which was there before it.                          *)
ExecInv ==
  /\ \A e, f \in Execs : f < e /\ exec[e].status # "none" => exec[f].status # "none"
  /\ \A e \in Execs :
       IF exec[e].parent = 0 THEN exec[e].depth = 0
       ELSE /\ exec[e].parent \in Execs /\ exec[e].parent < e
            /\ exec[exec[e].parent].status # "none" /\ exec[e].depth = exec[exec[e].parent].depth + 1

(* A coroutine past the creation of its execution runs at that one's depth.    *)
Fits(x, ex) ==
  /\ IF x.at \in {"free", "look", "create"} THEN x.exec = 0 /\ x.depth = 0
     ELSE x.exec \in Execs /\ ex[x.exec].status # "none" /\ x.depth = ex[x.exec].depth
  /\ x.at = "update" => x.out # "none"
ChainInv == ExecInv /\ \A r \in Runners : Fits(runner[r], exec)

Grows ==
  \A e \in Execs : exec[e].status # "none" =>
    exec'[e].status # "none" /\ exec'[e].depth = exec[e].depth /\ exec'[e].parent = exec[e].parent

LEMMA FitsStays ==
  ASSUME NEW x, Fits(x, exec), Grows
  PROVE  Fits(x, exec')
  BY DEF Fits, Grows

LEMMA SetExecGrows ==
  ASSUME Inv, ExecInv, NEW e \in 0..MaxExecs, NEW s \in Statuses \ {"none"}, SetExec(e, s)
  PROVE  Grows /\ ExecInv'
<1>1. exec \in [Execs -> ExecType]
  BY PartsOfType DEF Inv
<1>2. \A f \in Execs : /\ exec'[f].depth = exec[f].depth /\ exec'[f].parent = exec[f].parent
                       /\ exec'[f].status = "none" <=> exec[f].status = "none"
  BY <1>1 DEF SetExec, Row, ExecType
<1> QED BY <1>2 DEF Grows, ExecInv

LEMMA SameExecGrows ==
  ASSUME ExecInv, exec' = exec
  PROVE  Grows /\ ExecInv'
  BY DEF Grows, ExecInv

LEMMA InsertGrows ==
  ASSUME Inv, ExecInv, NEW e \in Execs, New(e), NEW s, NEW d \in Nat, NEW p \in 0..MaxExecs, Insert(e, s, d, p),
         IF p = 0 THEN d = 0 ELSE p \in Execs /\ exec[p].status # "none" /\ d = exec[p].depth + 1
  PROVE  /\ Grows /\ ExecInv'
         /\ exec'[e].status = "pending" /\ exec'[e].depth = d
<1>1. exec \in [Execs -> ExecType]
  BY PartsOfType DEF Inv
<1>2. /\ exec'[e].status = "pending" /\ exec'[e].depth = d /\ exec'[e].parent = p
      /\ \A f \in Execs \ {e} : exec'[f] = exec[f]
  BY <1>1 DEF Insert, NoExec
<1>3. exec[e].status = "none" /\ \A f \in Execs : f < e => exec[f].status # "none"
  <2>1. \A f \in Execs : f < e => f \in 1..(e - 1)
    BY DEF Execs, TasksAssumption
  <2> QED BY <2>1 DEF New
<1>4. Grows
  BY <1>2, <1>3 DEF Grows
<1>5. \A f, g \in Execs : g < f /\ exec'[f].status # "none" => exec'[g].status # "none"
  <2> SUFFICES ASSUME NEW f \in Execs, NEW g \in Execs, g < f, exec'[f].status # "none" PROVE exec'[g].status # "none"
    OBVIOUS
  <2>1. CASE f = e
    BY <1>2, <1>3, <2>1
  <2>2. CASE f # e
    BY <1>2, <2>2 DEF ExecInv
  <2> QED BY <2>1, <2>2
<1>6. ASSUME NEW f \in Execs
      PROVE  IF exec'[f].parent = 0 THEN exec'[f].depth = 0
             ELSE /\ exec'[f].parent \in Execs /\ exec'[f].parent < f
                  /\ exec'[exec'[f].parent].status # "none" /\ exec'[f].depth = exec'[exec'[f].parent].depth + 1
  <2>1. CASE f # e
    BY <1>2, <1>3, <2>1 DEF ExecInv
  <2>2. CASE f = e /\ p = 0
    BY <1>2, <2>2
  <2>3. CASE f = e /\ p # 0
    <3>1. p \in Execs /\ p # e /\ ~ (e < p)
      BY <1>3, <2>3 DEF ExecInv
    <3>2. p < e
      BY <3>1 DEF Execs, TasksAssumption
    <3> QED BY <1>2, <2>3, <3>1, <3>2
  <2> QED BY <2>1, <2>2, <2>3
<1> QED BY <1>2, <1>4, <1>5, <1>6 DEF ExecInv

(* One runner changes.                                                         *)
LEMMA ChainMove ==
  ASSUME ChainInv, Grows, ExecInv', NEW r \in Runners, NEW x, Fits(x, exec'),
         \A s \in Runners : runner'[s] = IF s = r THEN x ELSE runner[s]
  PROVE  ChainInv'
<1>1. \A s \in Runners : Fits(runner'[s], exec')
  BY FitsStays DEF ChainInv
<1> QED BY <1>1 DEF ChainInv

LEMMA ChainFrame ==
  ASSUME ChainInv, Grows, ExecInv', runner' = runner
  PROVE  ChainInv'
<1>1. \A s \in Runners : Fits(runner'[s], exec')
  BY FitsStays DEF ChainInv
<1> QED BY <1>1 DEF ChainInv

LEMMA ChainStep == Inv /\ ChainInv /\ [Next]_vars => ChainInv'
<1> SUFFICES ASSUME Inv, ChainInv, [Next]_vars PROVE ChainInv'
  OBVIOUS
<1>a. /\ exec \in [Execs -> ExecType] /\ runner \in [Runners -> RunnerType] /\ req \in [Requests -> ReqType]
  BY PartsOfType DEF Inv
<1>e. ExecInv /\ \A r \in Runners : Fits(runner[r], exec)
  BY DEF ChainInv
<1>f. Fits(Free, exec')
  BY DEF Fits, Free
<1>1. CASE Restart
  <2>1. exec' = exec /\ \A r \in Runners : runner'[r] = Free
    BY <1>1 DEF Restart
  <2>2. ExecInv'
    BY <1>e, <2>1, SameExecGrows
  <2> QED BY <1>f, <2>1, <2>2 DEF ChainInv
<1>2. CASE Fire \/ Trigger
  <2>1. exec' = exec /\ \E k \in {"cron", "manual", "webhook"} : Enter(k)
    BY <1>2 DEF Fire, Trigger
  <2>2. PICK k \in {"cron", "manual", "webhook"}, r \in Runners :
               runner' = [runner EXCEPT ![r] = [Free EXCEPT !.kind = k, !.at = "look"]]
    BY <2>1 DEF Enter
  <2>3. Fits([Free EXCEPT !.kind = k, !.at = "look"], exec')
    BY DEF Fits, Free
  <2> QED BY <1>a, <1>e, <2>1, <2>2, <2>3, SameExecGrows, ChainMove
<1>3. ASSUME NEW r \in Runners, Proceed(r) \/ Queue(r) PROVE ChainInv'
  <2>r. /\ runner[r] \in RunnerType /\ runner[r].exec \in 0..MaxExecs /\ Fits(runner[r], exec)
    BY <1>a, <1>e DEF RunnerType
  <2>l. ASSUME Leave(r), Grows, ExecInv' PROVE ChainInv'
    BY <1>a, <1>f, <2>l, ChainMove DEF Leave
  <2>g. ASSUME NEW p \in Places \ {"free", "look", "create", "update"}, Go(r, p), runner[r].exec # 0, Grows, ExecInv'
        PROVE  ChainInv'
    <3>1. Fits([runner[r] EXCEPT !.at = p], exec)
      BY <2>g, <2>r DEF Fits, RunnerType
    <3>2. runner' = [runner EXCEPT ![r] = [runner[r] EXCEPT !.at = p]]
      BY <1>a, <2>g DEF Go, RunnerType
    <3> QED BY <1>a, <2>g, <3>1, <3>2, FitsStays, ChainMove
  <2>d. ASSUME Done(r), runner[r].exec # 0, Grows, ExecInv' PROVE ChainInv'
    <3>1. Fits([runner[r] EXCEPT !.at = "end"], exec)
      BY <2>d, <2>r DEF Fits, RunnerType
    <3> QED BY <1>a, <1>f, <2>d, <3>1, FitsStays, ChainMove DEF Done
  (* The runner goes on as x, with the execution it has.                       *)
  <2>x. ASSUME NEW x, x.exec = runner[r].exec, x.depth = runner[r].depth, x.at \notin {"free", "look", "create"},
               x.at = "update" => x.out # "none", ~ At(r, "free"), ~ At(r, "look"), ~ At(r, "create"),
               runner' = [runner EXCEPT ![r] = x], Grows, ExecInv'
        PROVE  ChainInv'
    <3>1. Fits(x, exec)
      BY <2>x, <2>r DEF Fits, At
    <3> QED BY <1>a, <2>x, <3>1, FitsStays, ChainMove
  <2>1. CASE Look(r)
    <3>1. exec' = exec /\ At(r, "look")
      BY <2>1 DEF Look
    <3>2. CASE Leave(r)
      BY <1>e, <2>l, <3>1, <3>2, SameExecGrows
    <3>3. CASE Go(r, "create")
      <4>1. Fits([runner[r] EXCEPT !.at = "create"], exec')
        BY <2>r, <3>1 DEF Fits, At, RunnerType
      <4>2. runner' = [runner EXCEPT ![r] = [runner[r] EXCEPT !.at = "create"]]
        BY <1>a, <3>3 DEF Go, RunnerType
      <4> QED BY <1>a, <1>e, <3>1, <4>1, <4>2, SameExecGrows, ChainMove
    <3> QED BY <2>1, <3>2, <3>3 DEF Look
  <2>2. CASE Create(r)
    <3>1. CASE Leave(r) /\ UNCHANGED exec
      BY <1>e, <2>l, <3>1, SameExecGrows
    <3>2. ASSUME NEW e \in Execs, New(e), Insert(e, runner[r].kind, 0, 0),
                 runner' = [runner EXCEPT ![r].exec = e, ![r].at = IF runner[r].kind = "cron" THEN "run" ELSE "start"]
          PROVE  ChainInv'
      <4>1. Grows /\ ExecInv' /\ exec'[e].status = "pending" /\ exec'[e].depth = 0
        BY <1>e, <3>2, InsertGrows DEF TasksAssumption
      <4> DEFINE p == IF runner[r].kind = "cron" THEN "run" ELSE "start"
                 x == [runner[r] EXCEPT !.exec = e, !.at = p]
      <4>2. p \in {"run", "start"} /\ runner' = [runner EXCEPT ![r] = x]
        BY <1>a, <3>2 DEF RunnerType
      <4> HIDE DEF p
      <4>3. x.exec = e /\ x.depth = runner[r].depth /\ x.at = p
        BY <2>r DEF RunnerType
      <4>4. runner[r].depth = 0
        BY <2>2, <2>r DEF Create, At, Fits
      <4> HIDE DEF x
      <4>5. Fits(x, exec')
        BY <4>1, <4>2, <4>3, <4>4 DEF Fits
      <4> QED BY <1>a, <4>1, <4>2, <4>5, ChainMove
    <3> QED BY <2>2, <3>1, <3>2 DEF Create
  <2>3. CASE Start(r)
    <3>1. At(r, "start") /\ runner[r].exec # 0
      BY <2>3, <2>r DEF Start, At, Fits, Execs, TasksAssumption
    <3>2. exec' = exec \/ SetExec(runner[r].exec, "failed")
      BY <2>3 DEF Start
    <3>3. Grows /\ ExecInv'
      BY <1>e, <2>r, <3>2, SameExecGrows, SetExecGrows DEF Statuses
    <3>4. CASE Leave(r)
      BY <2>l, <3>3, <3>4
    <3>5. CASE Go(r, "link")
      BY <2>g, <3>1, <3>3, <3>5 DEF Places
    <3>6. CASE runner' = [runner EXCEPT ![r].at = "run", ![r].mark = TRUE, ![r].back = TRUE]
      <4> DEFINE x == [runner[r] EXCEPT !.at = "run", !.mark = TRUE, !.back = TRUE]
      <4>1. x.exec = runner[r].exec /\ x.depth = runner[r].depth /\ x.at = "run" /\ runner' = [runner EXCEPT ![r] = x]
        BY <1>a, <2>r, <3>6 DEF RunnerType
      <4> HIDE DEF x
      <4> QED BY <2>x, <3>1, <3>3, <4>1 DEF At
    <3>7. CASE runner' = [runner EXCEPT ![r].at = "update", ![r].out = "failed"]
      <4> DEFINE x == [runner[r] EXCEPT !.at = "update", !.out = "failed"]
      <4>1. /\ x.exec = runner[r].exec /\ x.depth = runner[r].depth /\ x.at = "update" /\ x.out = "failed"
            /\ runner' = [runner EXCEPT ![r] = x]
        BY <1>a, <2>r, <3>7 DEF RunnerType
      <4> HIDE DEF x
      <4> QED BY <2>x, <3>1, <3>3, <4>1 DEF At
    <3> QED BY <2>3, <3>4, <3>5, <3>6, <3>7 DEF Start
  <2>4. CASE Link(r)
    <3> DEFINE x == [runner[r] EXCEPT !.at = "run", !.back = TRUE]
    <3>1. /\ x.exec = runner[r].exec /\ x.depth = runner[r].depth /\ x.at = "run"
          /\ runner' = [runner EXCEPT ![r] = x] /\ At(r, "link")
      BY <1>a, <2>4, <2>r DEF Link, RunnerType
    <3>2. Grows /\ ExecInv'
      BY <1>e, <2>4, <2>r, SetExecGrows DEF Link, Statuses
    <3> HIDE DEF x
    <3> QED BY <2>x, <3>1, <3>2 DEF At
  <2>5. CASE Mark(r)
    <3>1. Grows /\ ExecInv'
      BY <1>e, <2>5, <2>r, SetExecGrows DEF Mark, Statuses
    <3>2. Fits([runner[r] EXCEPT !.mark = FALSE], exec)
      BY <2>r DEF Fits, RunnerType
    <3> QED BY <1>a, <1>f, <2>5, <3>1, <3>2, FitsStays, ChainMove DEF Mark
  <2>6. CASE Finish(r)
    <3>1. PICK o \in Ended(r) : runner' = [runner EXCEPT ![r].at = "update", ![r].out = o]
      BY <2>6 DEF Finish
    <3>2. o # "none" /\ exec' = exec /\ At(r, "run")
      BY <2>6 DEF Ended, Finish
    <3> DEFINE x == [runner[r] EXCEPT !.at = "update", !.out = o]
    <3>3. /\ x.exec = runner[r].exec /\ x.depth = runner[r].depth /\ x.at = "update" /\ x.out = o
          /\ runner' = [runner EXCEPT ![r] = x]
      BY <1>a, <2>r, <3>1 DEF RunnerType
    <3> HIDE DEF x
    <3> QED BY <1>e, <2>x, <3>2, <3>3, SameExecGrows DEF At
  <2>7. CASE Update(r)
    <3>1. runner[r].out \in Statuses \ {"none"} /\ runner[r].exec # 0
      BY <2>7, <2>r DEF Update, At, Fits, RunnerType, Outcomes, Statuses, Execs, TasksAssumption
    <3>2. Grows /\ ExecInv'
      BY <1>e, <2>7, <2>r, <3>1, SetExecGrows DEF Update
    <3> QED BY <2>7, <2>g, <3>1, <3>2 DEF Update, Places
  <2>8. CASE After(r)
    <3>1. exec' = exec /\ runner[r].exec # 0
      BY <2>8, <2>r DEF After, At, Fits, Execs, TasksAssumption
    <3>2. Grows /\ ExecInv'
      BY <1>e, <3>1, SameExecGrows
    <3>3. CASE Go(r, "chain")
      BY <2>g, <3>1, <3>2, <3>3 DEF Places
    <3>4. CASE Done(r)
      BY <2>d, <3>1, <3>2, <3>4
    <3> QED BY <2>8, <3>3, <3>4 DEF After
  <2>9. CASE Chain(r)
    <3>1. exec' = exec /\ runner[r].exec # 0 /\ At(r, "chain")
      BY <2>9, <2>r DEF Chain, At, Fits, Execs, TasksAssumption
    <3>2. Grows /\ ExecInv'
      BY <1>e, <3>1, SameExecGrows
    <3>3. CASE Done(r)
      BY <2>d, <3>1, <3>2, <3>3
    <3>4. ASSUME NEW e \in Pending,
                 \/ runner' = [runner EXCEPT ![r] = Chained(e)]
                 \/ \E s \in Runners : Slot(s) /\ runner' = [runner EXCEPT ![r].at = "end", ![s] = Chained(e)]
          PROVE  ChainInv'
      <4>1. Fits(Chained(e), exec')
        BY <3>1 DEF Fits, Chained, Free, Pending
      <4>2. CASE runner' = [runner EXCEPT ![r] = Chained(e)]
        BY <1>a, <3>2, <4>1, <4>2, ChainMove
      <4>3. ASSUME NEW s \in Runners, runner' = [runner EXCEPT ![r].at = "end", ![s] = Chained(e)]
            PROVE  ChainInv'
        <5> DEFINE x == [runner[r] EXCEPT !.at = "end"]
        <5>1. Fits(x, exec')
          BY <2>r, <3>1 DEF Fits, At, RunnerType
        <5>2. \A u \in Runners : runner'[u] = IF u = s THEN Chained(e) ELSE IF u = r THEN x ELSE runner[u]
          BY <4>3, <1>a DEF RunnerType
        <5> HIDE DEF x
        <5>3. \A u \in Runners : Fits(runner'[u], exec')
          BY <1>e, <3>1, <4>1, <5>1, <5>2
        <5> QED BY <3>2, <5>3 DEF ChainInv
      <4> QED BY <3>4, <4>2, <4>3
    <3> QED BY <2>9, <3>3, <3>4 DEF Chain
  <2>10. CASE Queue(r)
    <3>1. PICK e \in Execs : New(e) /\ Insert(e, "continuation", runner[r].depth + 1, runner[r].exec)
      BY <2>10 DEF Queue
    <3>2. /\ runner[r].exec \in Execs /\ exec[runner[r].exec].status # "none"
          /\ runner[r].depth = exec[runner[r].exec].depth /\ runner' = runner
      BY <2>10, <2>r DEF Queue, At, Fits
    <3>3. runner[r].depth + 1 \in Nat /\ runner[r].exec # 0
      BY <2>r, <3>2 DEF RunnerType, Execs, TasksAssumption
    <3>4. Grows /\ ExecInv'
      BY <1>e, <2>r, <3>1, <3>2, <3>3, InsertGrows
    <3> QED BY <3>2, <3>4, ChainFrame
  <2> QED BY <1>3, <2>1, <2>2, <2>3, <2>4, <2>5, <2>6, <2>7, <2>8, <2>9, <2>10 DEF Proceed
<1>4. ASSUME NEW q \in Requests, Serve(q) PROVE ChainInv'
  <2>1. runner' = runner
    BY <1>4 DEF Serve, Begin, ReadTask, WriteStatus, Refresh, DeleteTask, Cancel, Register, ReadExec, StopExec, DropExec
  <2>2. CASE exec' = exec
    BY <1>e, <2>1, <2>2, SameExecGrows, ChainFrame
  <2>3. CASE DeleteTask(q) \/ StopExec(q)
    <3>1. \A f \in Execs : /\ exec'[f].depth = exec[f].depth /\ exec'[f].parent = exec[f].parent
                           /\ exec'[f].status = "none" <=> exec[f].status = "none"
      BY <1>a, <2>3 DEF DeleteTask, StopExec, Row, ExecType
    <3>2. Grows /\ ExecInv'
      BY <1>e, <3>1 DEF Grows, ExecInv
    <3> QED BY <2>1, <3>2, ChainFrame
  <2>4. CASE DropExec(q)
    <3>1. SetExec(req[q].exec, "gone") /\ req[q].exec \in 0..MaxExecs
      BY <1>a, <2>4 DEF DropExec, ReqType
    <3> QED BY <1>e, <2>1, <3>1, SetExecGrows, ChainFrame DEF Statuses
  <2> QED BY <1>4, <2>2, <2>3, <2>4 DEF Serve, Begin, ReadTask, WriteStatus, Refresh, Cancel, Register, ReadExec
<1>5. CASE UNCHANGED vars
  BY <1>5, <1>e, SameExecGrows, ChainFrame DEF vars
<1> QED BY <1>1, <1>2, <1>3, <1>4, <1>5 DEF Next

LEMMA ChainInit == Init => ChainInv
<1> SUFFICES ASSUME Init PROVE ChainInv
  OBVIOUS
<1>1. \A e \in Execs : exec[e].status = "none" /\ exec[e].parent = 0 /\ exec[e].depth = 0
  BY DEF Init, NoExec
<1>2. \A r \in Runners : Fits(runner[r], exec)
  BY DEF Init, Free, Fits
<1> QED BY <1>1, <1>2 DEF ChainInv, ExecInv

(* Every set of naturals that is not empty has a least element.                *)
LEMMA LeastNatural ==
  ASSUME NEW T, T \subseteq Nat, T # {}
  PROVE  \E f \in T : \A g \in T : ~ (g < f)
<1> DEFINE R == OpToRel(<, Nat)
<1>1. IsWellFoundedOn(R, Nat)
  BY NatLessThanWellFounded
<1>2. R = {ss \in Nat \X Nat : ss[1] < ss[2]}
  BY DEF OpToRel
<1> HIDE DEF R
<1>3. \E f \in T : \A g \in T : <<g, f>> \notin R
  BY <1>1, WFMin, Zenon
<1>4. \A f, g \in T : g < f => <<g, f>> \in R
  BY <1>2
<1> QED BY <1>3, <1>4

(* The ancestors of an execution are as many as its depth says: the recursive  *)
(* count has a solution, and the least execution where one would differ from   *)
(* the depth is a continuation whose parent agrees.                            *)
LEMMA GenerationIsDepth ==
  ASSUME Inv, ExecInv
  PROVE  \A e \in Execs : Generation[e] = exec[e].depth
<1> DEFINE Counted(g) == g = [e \in 0..MaxExecs |->
                                IF e = 0 \/ exec[e].parent = 0 THEN 0 ELSE g[exec[e].parent] + 1]
           w == [e \in 0..MaxExecs |-> IF e = 0 \/ exec[e].parent = 0 THEN 0 ELSE exec[e].depth]
<1>1. exec \in [Execs -> ExecType] /\ \A e \in 0..MaxExecs : e # 0 => e \in Execs
  BY PartsOfType DEF Inv, Execs, TasksAssumption
<1>2. \A e \in Execs : e # 0 /\ e \in 0..MaxExecs
  BY DEF Execs, TasksAssumption
<1>3. Counted(w)
  <2>1. ASSUME NEW e \in 0..MaxExecs, e # 0, exec[e].parent # 0
        PROVE  exec[e].depth = w[exec[e].parent] + 1
    <3>1. exec[e].parent \in Execs /\ exec[e].depth = exec[exec[e].parent].depth + 1
      BY <1>1, <2>1 DEF ExecInv
    <3>2. w[exec[e].parent] = exec[exec[e].parent].depth
      BY <1>2, <3>1 DEF ExecInv
    <3> QED BY <3>1, <3>2
  <2> QED BY <2>1
<1>4. Generation = CHOOSE g : Counted(g)
  BY DEF Generation
<1>5. Counted(Generation)
  BY <1>3, <1>4
<1> HIDE DEF w
<1>6. ASSUME NEW e \in Execs PROVE Generation[e] = exec[e].depth
  <2> DEFINE T == {f \in Execs : Generation[f] # exec[f].depth}
  <2> SUFFICES ASSUME T # {} PROVE FALSE
    OBVIOUS
  <2>1. PICK f \in T : \A g \in T : ~ (g < f)
    <3>1. T \subseteq Nat
      BY DEF Execs
    <3> HIDE DEF T
    <3> QED BY <3>1, LeastNatural
  <2>2. f \in Execs /\ exec[f].depth # Generation[f]
    OBVIOUS
  <2>3. Generation[f] = IF exec[f].parent = 0 THEN 0 ELSE Generation[exec[f].parent] + 1
    BY <1>2, <1>5, <2>2
  <2>4. exec[f].parent \in Execs /\ exec[f].parent < f /\ exec[f].depth = exec[exec[f].parent].depth + 1
    BY <2>2, <2>3 DEF ExecInv
  <2>5. Generation[exec[f].parent] = exec[exec[f].parent].depth
    BY <2>1, <2>4
  <2> QED BY <1>2, <2>2, <2>3, <2>4, <2>5
<1> QED BY <1>6

(* No execution has more ancestors than max_continuations, however many runs   *)
(* of a task queue continuations and start each other's.                       *)
THEOREM ChainsAreBounded == Spec => []ChainBounded
<1>1. Inv /\ ChainInv => ChainBounded
  <2> SUFFICES ASSUME Inv, ChainInv, NEW e \in Execs PROVE Generation[e] <= MaxContinuations
    BY DEF ChainBounded
  <2>1. Generation[e] = exec[e].depth
    BY GenerationIsDepth DEF ChainInv
  <2>2. exec[e].depth \in 0..MaxContinuations
    BY PartsOfType DEF Inv, ExecType
  <2> QED BY <2>1, <2>2 DEF TasksAssumption
<1>2. Spec => []ChainInv
  BY InvHolds, ChainInit, ChainStep, PTL DEF Spec
<1> QED BY <1>1, <1>2, InvHolds, PTL
==============================================================================
