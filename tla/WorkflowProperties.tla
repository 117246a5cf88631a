-------------------------- MODULE WorkflowProperties --------------------------
(* What an execution of a workflow owes its owner.                             *)
EXTENDS WorkflowEngine, FiniteSets

(* "The workflow engine checks for stopped status between steps, so the        *)
(* currently running step will complete before the workflow stops": after a    *)
(* stop that nothing overwrites at most one more step begins, the one the      *)
(* coroutine had passed its check for.                                         *)
StopTakesEffect == late <= 1

(* A completed execution has done every step it began: neither a failed nested *)
(* step of a parallel or loop step nor one still running hides behind it.      *)
CompletedIsClean ==
  status = "completed" => run.pc = "done" /\ \A r \in records : r[3] = "completed"

(* Nested steps of a parallel step all pass check_before_step before any of    *)
(* them is counted: usage may exceed the limit by the others, but an execution *)
(* that exceeded it does not complete.                                         *)
Overrun == IF MaxSubs = 0 THEN 0 ELSE MaxSubs - 1
WithinLimit(used, limit, extra) == limit # NoLimit => used <= limit + extra
LimitsKept ==
  /\ WithinLimit(run.agent, AgentLimit, Overrun) /\ WithinLimit(run.tool, ToolLimit, Overrun)
  /\ status = "completed" => WithinLimit(run.agent, AgentLimit, 0) /\ WithinLimit(run.tool, ToolLimit, 0)

(* A workflow whose conditions jump back ends all the same if an agent or tool *)
(* call in the cycle is limited, whatever is stopped or approved meanwhile.    *)
RunEnds == <>(run.pc = "done")
==============================================================================
