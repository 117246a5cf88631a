---------------------------- MODULE WorkflowEngine ----------------------------
(* One execution of a workflow in the agent service: the background coroutine  *)
(* that runs its steps (run_workflow_execution), and the stop and approval     *)
(* requests that reach the same row of workflow_executions meanwhile.          *)
(* Executions share nothing, so the module is about one.                       *)
EXTENDS Integers, Sequences

CONSTANTS
  Workflows,      \* definitions: sequences of steps
  Stoppers,       \* stop requests ever made
  Approvers,      \* approval requests ever made
  AgentLimit,     \* guardrails request_limit, or NoLimit
  ToolLimit,      \* guardrails tool_calls_limit, or NoLimit
  MaxItems,       \* bound of the model: items of a loop
  MaxSubs         \* bound of the model: nested steps of a parallel or loop step

NoLimit == -1
LeafTypes == {"tool", "agent", "condition", "human"}
StepTypes == LeafTypes \cup {"parallel", "loop"}

(* What validate_workflow_steps accepts, with leaves only as nested steps.  A  *)
(* then or else of 0 names no step of the workflow.                            *)
Definition(w) ==
  /\ w \in Seq([type: StepTypes, then: Nat, else: Nat, subs: Seq(LeafTypes)]) /\ Len(w) > 0
  /\ \A i \in 1..Len(w) :
       /\ w[i].then <= Len(w) /\ w[i].else <= Len(w)
       /\ Len(w[i].subs) <= MaxSubs
       /\ w[i].type \in {"parallel", "loop"} => w[i].subs # <<>>

ASSUME WorkflowAssumption ==
  /\ \A w \in Workflows : Definition(w)
  /\ AgentLimit \in Nat \cup {NoLimit} /\ ToolLimit \in Nat \cup {NoLimit}
  /\ MaxItems \in Nat /\ MaxSubs \in Nat

VARIABLES
  flow,      \* the definition the coroutine loaded
  status,    \* workflow_executions.status
  records,   \* step_executions: pairs of a step (and nested step) and a status it has had last or before
  run,       \* state of the coroutine
  asked,     \* state of each request
  late       \* history: steps begun since the execution was stopped and still is

vars == <<flow, status, records, run, asked, late>>

Statuses == {"pending", "running", "awaiting_human", "completed", "failed", "stopped"}
Phases   == {"idle", "start", "work", "wait", "ok", "bad", "ended", "failed"}
Requests == Stoppers \cup Approvers
Idle     == [k \in 0..MaxSubs |-> "idle"]

WorkflowTypeOK ==
  /\ flow \in Workflows
  /\ status \in Statuses
  /\ records \subseteq Nat \X (0..MaxSubs) \X {"running", "completed", "failed"}
  /\ run \in [pc: {"load", "mark", "exchange", "head", "step", "done"}, pos: Nat \ {0}, view: Statuses,
              phase: [0..MaxSubs -> Phases], next: Nat, item: Nat, agent: Nat, tool: Nat]
  /\ asked \in [Requests -> {"no", "granted", "answered"}]
  /\ late \in Nat

(* create_workflow_execution has committed and the coroutine is scheduled.     *)
Init ==
  /\ flow \in Workflows
  /\ status = "pending"
  /\ records = {}
  /\ run = [pc |-> "load", pos |-> 1, view |-> "pending", phase |-> Idle, next |-> 0, item |-> 0, agent |-> 0, tool |-> 0]
  /\ asked = [q \in Requests |-> "no"]
  /\ late = 0

(* The session of the coroutine keeps what it last read or wrote, and writes a *)
(* status only when it differs from that (expire_on_commit is off).            *)
SetStatus(s) ==
  /\ status' = IF run.view = s THEN status ELSE s
  /\ late' = IF status' = "stopped" THEN late ELSE 0

Step  == flow[run.pos]
Halt(s) == run' = [run EXCEPT !.pc = "done", !.view = s, !.phase = Idle]

Load ==
  /\ run.pc = "load"
  /\ run' = [run EXCEPT !.pc = "mark", !.view = status]
  /\ UNCHANGED <<flow, status, records, asked, late>>

(* The definition is gone.                                                     *)
Orphaned == run.pc = "mark" /\ SetStatus("failed") /\ Halt("failed") /\ UNCHANGED <<flow, records, asked>>

(* Whatever the status was by now.                                             *)
Mark ==
  /\ run.pc = "mark"
  /\ SetStatus("running")
  /\ run' = [run EXCEPT !.pc = "exchange", !.view = "running"]
  /\ UNCHANGED <<flow, records, asked>>

Exchange ==
  /\ run.pc = "exchange"
  /\ \/ run' = [run EXCEPT !.pc = "head"] /\ UNCHANGED <<status, late>>
     \/ SetStatus("failed") /\ Halt("failed")
  /\ UNCHANGED <<flow, records, asked>>

(* Mutant: no look at the status between steps.                                *)
CheckBlindly ==
  /\ run.pc = "head" /\ run.pos <= Len(flow)
  /\ run' = [run EXCEPT !.view = status, !.pc = "step", !.phase = [Idle EXCEPT ![0] = "start"]]
  /\ UNCHANGED <<flow, status, records, asked, late>>

(* Before each step the row is read anew.                                      *)
CheckStopped ==
  /\ run.pc = "head" /\ run.pos <= Len(flow)
  /\ IF status = "stopped" THEN Halt(status)
     ELSE run' = [run EXCEPT !.view = status, !.pc = "step", !.phase = [Idle EXCEPT ![0] = "start"]]
  /\ UNCHANGED <<flow, status, records, asked, late>>

Finish ==
  /\ run.pc = "head" /\ run.pos > Len(flow)
  /\ SetStatus("completed") /\ Halt("completed")
  /\ UNCHANGED <<flow, records, asked>>

------------------------------------------------------------------------------
(* execute_step, for the step itself (k = 0) and for its nested steps, which   *)
(* run one after the other in a loop and together in a parallel step.          *)
TypeOf(k) == IF k = 0 THEN Step.type ELSE Step.subs[k]
Subs == 1..Len(Step.subs)
In(k, p) == run.pc = "step" /\ run.phase[k] = p
Enter(k, p) == run' = [run EXCEPT !.phase[k] = p]
Record(k, s) == records' = (records \ {<<run.pos, k, "running">>}) \cup {<<run.pos, k, s>>}

Limit(t) == IF t = "agent" THEN AgentLimit ELSE IF t = "tool" THEN ToolLimit ELSE NoLimit
Used(t)  == IF t = "agent" THEN run.agent ELSE run.tool

(* Other nested steps under way, on the same database session.                 *)
Shared(k) == k # 0 /\ Step.type = "parallel" /\ \E j \in Subs \ {k} : run.phase[j] \notin {"ended", "failed"}

(* Its record, then check_before_step.  The session refuses a commit while     *)
(* another is in progress; the record is then left as it is.                   *)
Start(k) ==
  /\ In(k, "start")
  /\ Record(k, "running")
  /\ \/ Enter(k, IF Limit(TypeOf(k)) # NoLimit /\ Used(TypeOf(k)) >= Limit(TypeOf(k)) THEN "bad" ELSE "work")
     \/ Shared(k) /\ Enter(k, "failed")
  /\ late' = IF k = 0 /\ status = "stopped" THEN late + 1 ELSE late
  /\ UNCHANGED <<flow, status, asked>>

(* Mutants: the call is not counted; what was used is not compared.            *)
CountNothing(k) == Enter(k, "ok")
CountCall(k) ==
  LET t == TypeOf(k) IN
  IF Limit(t) = NoLimit THEN Enter(k, "ok")
  ELSE run' = [run EXCEPT !.phase[k] = "ok", !.agent = IF t = "agent" THEN @ + 1 ELSE @,
                          !.tool = IF t = "tool" THEN @ + 1 ELSE @]

(* UsageLimits.update after the call.  The counters of unlimited usage decide  *)
(* nothing and are left out.                                                   *)
Update(k) ==
  LET t == TypeOf(k) IN
  IF Limit(t) = NoLimit THEN Enter(k, "ok")
  ELSE run' = [run EXCEPT !.phase[k] = IF Used(t) + 1 > Limit(t) THEN "bad" ELSE "ok",
                          !.agent = IF t = "agent" THEN @ + 1 ELSE @, !.tool = IF t = "tool" THEN @ + 1 ELSE @]

(* A tool or agent answers or fails; tokens and cost may exceed their limits.  *)
Call(k) ==
  /\ In(k, "work") /\ TypeOf(k) \in {"tool", "agent"}
  /\ Update(k) \/ Enter(k, "bad")
  /\ UNCHANGED <<flow, status, records, asked, late>>

Condition(k) ==
  /\ In(k, "work") /\ TypeOf(k) = "condition"
  /\ \/ \E n \in {Step.then, Step.else} : run' = [run EXCEPT !.phase[k] = "ok", !.next = IF k = 0 THEN n ELSE 0]
     \/ Enter(k, "bad")
  /\ UNCHANGED <<flow, status, records, asked, late>>

Human(k) ==
  /\ In(k, "work") /\ TypeOf(k) = "human"
  /\ SetStatus("awaiting_human")
  /\ run' = [run EXCEPT !.phase[k] = "ok", !.view = "awaiting_human"]
  /\ UNCHANGED <<flow, records, asked>>

Fork ==
  /\ In(0, "work") /\ Step.type = "parallel"
  /\ run' = [run EXCEPT !.phase = [k \in 0..MaxSubs |-> IF k = 0 THEN "wait" ELSE IF k \in Subs THEN "start" ELSE "idle"]]
  /\ UNCHANGED <<flow, status, records, asked, late>>

(* Mutant: the failures gather returns are not looked at.                      *)
JoinAny ==
  /\ In(0, "wait") /\ Step.type = "parallel"
  /\ \A k \in Subs : run.phase[k] \in {"ended", "failed"}
  /\ Enter(0, "ok")
  /\ UNCHANGED <<flow, status, records, asked, late>>

Join ==
  /\ In(0, "wait") /\ Step.type = "parallel"
  /\ \A k \in Subs : run.phase[k] \in {"ended", "failed"}
  /\ Enter(0, IF \E k \in Subs : run.phase[k] = "failed" THEN "bad" ELSE "ok")
  /\ UNCHANGED <<flow, status, records, asked, late>>

(* The items the path resolves to, none if it resolves to nothing, an error if *)
(* to something that is no list.                                               *)
Loop ==
  /\ In(0, "work") /\ Step.type = "loop"
  /\ \/ \E n \in 1..MaxItems : run' = [run EXCEPT !.item = n, !.phase[0] = "wait", !.phase[1] = "start"]
     \/ Enter(0, "ok")
     \/ Enter(0, "bad")
  /\ UNCHANGED <<flow, status, records, asked, late>>

(* The next nested step, the first of the next item, or the end.               *)
Iterate(k) ==
  /\ k # 0 /\ In(k, "ended") /\ Step.type = "loop"
  /\ run' = IF k < Len(Step.subs) THEN [run EXCEPT !.phase[k] = "idle", !.phase[k + 1] = "start"]
            ELSE IF run.item > 1 THEN [run EXCEPT !.phase[k] = "idle", !.item = run.item - 1, !.phase[1] = "start"]
            ELSE [run EXCEPT !.phase[k] = "idle", !.item = 0, !.phase[0] = "ok"]
  /\ UNCHANGED <<flow, status, records, asked, late>>

Abort(k) ==
  /\ k # 0 /\ In(k, "failed") /\ Step.type = "loop"
  /\ run' = [run EXCEPT !.phase[k] = "idle", !.item = 0, !.phase[0] = "bad"]
  /\ UNCHANGED <<flow, status, records, asked, late>>

(* The record gets its result.                                                 *)
Save(k) ==
  /\ \/ In(k, "ok") /\ Record(k, "completed") /\ Enter(k, "ended")
     \/ /\ In(k, "bad") \/ (In(k, "ok") /\ Shared(k))
        /\ Record(k, "failed") /\ Enter(k, "failed")
  /\ UNCHANGED <<flow, status, asked, late>>

(* Mutant: a branch that names no step goes nowhere.                           *)
AdvanceTo ==
  /\ In(0, "ended")
  /\ IF Step.type = "human" THEN Halt(run.view)
     ELSE run' = [run EXCEPT !.pc = "head", !.phase = Idle, !.next = 0, !.pos = run.next]
  /\ UNCHANGED <<flow, status, records, asked, late>>

(* Back in run_workflow_execution.                                             *)
Advance ==
  /\ In(0, "ended")
  /\ IF Step.type = "human" THEN Halt(run.view)
     ELSE run' = [run EXCEPT !.pc = "head", !.phase = Idle, !.next = 0, !.pos = IF run.next # 0 THEN run.next ELSE @ + 1]
  /\ UNCHANGED <<flow, status, records, asked, late>>

Fail == In(0, "failed") /\ SetStatus("failed") /\ Halt("failed") /\ UNCHANGED <<flow, records, asked>>

Execute(k) == Start(k) \/ Call(k) \/ Condition(k) \/ Human(k) \/ Save(k) \/ Iterate(k) \/ Abort(k)

Run ==
  \/ Load \/ Orphaned \/ Mark \/ Exchange \/ CheckStopped \/ Finish
  \/ Fork \/ Join \/ Loop \/ Advance \/ Fail
  \/ \E k \in 0..MaxSubs : Execute(k)

------------------------------------------------------------------------------
(* stop_execution and approve_human_step read the row, and write it in a       *)
(* second statement.  Nothing resumes an approved execution.                   *)
Stoppable == {"pending", "running", "awaiting_human"}

Ask(q) ==
  /\ asked[q] = "no"
  /\ asked' = [asked EXCEPT ![q] = IF status \in (IF q \in Stoppers THEN Stoppable ELSE {"awaiting_human"})
                                   THEN "granted" ELSE "answered"]
  /\ UNCHANGED <<flow, status, records, run, late>>

Stop(q) ==
  /\ q \in Stoppers /\ asked[q] = "granted"
  /\ status' = "stopped"
  /\ asked' = [asked EXCEPT ![q] = "answered"]
  /\ UNCHANGED <<flow, records, run, late>>

Approve(q) ==
  /\ q \in Approvers /\ asked[q] = "granted"
  /\ status' = "running" /\ late' = 0
  /\ asked' = [asked EXCEPT ![q] = "answered"]
  /\ UNCHANGED <<flow, records, run>>

Next == Run \/ \E q \in Requests : Ask(q) \/ Stop(q) \/ Approve(q)

(* The event loop runs a coroutine that can go on, and every tool and agent    *)
(* call ends (the clients have timeouts).                                      *)
Spec == Init /\ [][Next]_vars /\ WF_vars(Run)
==============================================================================
