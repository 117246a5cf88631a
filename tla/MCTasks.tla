------------------------------- MODULE MCTasks --------------------------------
(* Values of the constants of AgentTasks for TLC.                              *)
EXTENDS TaskProperties, TLC

CONSTANTS q1, q2

OneRequest    == {q1}
TwoRequests   == {q1, q2}
ScheduleOps   == {"pause", "resume", "patch", "delete", "drop"}
StopOnly      == {"stop"}
AllTriggers   == {"cron", "one_time", "webhook"}
WebhookOnly   == {"webhook"}
AllTargets    == {"agent", "workflow"}
AgentOnly     == {"agent"}
Automatic     == {"cron", "webhook"}
UserOnly      == {"manual"}

(* Requests are interchangeable: safety only.                                  *)
Symmetry == Permutations(Requests)
==============================================================================
