---------------------------- MODULE TaskProperties ----------------------------
(* What the agent service owes the owner of a task.                            *)
EXTENDS AgentTasks

(* "Pausing a task stops scheduled executions until resumed": at most the one  *)
(* instance of the job that had already looked at the status begins another.   *)
PauseTakesEffect == late <= 1

(* "Max 50 continuation depth per chain": an execution has no more ancestors   *)
(* than that, however the runs of a task overlap, because every continuation   *)
(* hands its depth on.                                                         *)
Generation == LET gen[e \in 0..MaxExecs] == IF e = 0 \/ exec[e].parent = 0 THEN 0 ELSE gen[exec[e].parent] + 1 IN gen
ChainBounded == \A e \in Execs : Generation[e] <= MaxContinuations

(* An active cron task whose expression the scheduler takes has its job when   *)
(* no request is under way, after any sequence of pauses, resumes, changes of  *)
(* status and expression, and restarts, an expression that was refused in the  *)
(* meantime included; unless a request that took the job away, a pause or the  *)
(* registration of a refused expression, overlapped with another one: it may   *)
(* come last.                                                                  *)
Overlap(a, b) == a # b /\ a \notin req[b].before /\ b \notin req[a].before
Crossed == \E p, q \in Finished : req[p].cuts /\ req[q].op \in {"resume", "patch"} /\ Overlap(p, q)
Scheduled == task.exists /\ task.status = "active" /\ task.type = "cron" /\ task.schedule = "valid"
ActiveIsScheduled == Scheduled /\ Active = {} /\ ~ Crossed => job

(* "start any pending continuation queued by trigger_task_run during this run. *)
(* This is what allows the depth-1, depth-2, ... chain to keep flowing": as    *)
(* long as no run fails or is lost, a continuation queued by a background run  *)
(* does not stay pending.                                                      *)
Waiting(e) == exec[e].source = "continuation" /\ exec[e].status = "pending"
ChainFlows ==
  \A e \in Execs : Waiting(e) /\ exec[exec[e].parent].source # "cron" ~> ~ Waiting(e) \/ broken
==============================================================================
