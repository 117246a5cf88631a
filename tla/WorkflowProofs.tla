---------------------------- MODULE WorkflowProofs ----------------------------
(* Proofs about WorkflowEngine: types, the effect of a stop, what a completed   *)
(* execution hides, and limits.                                                 *)
EXTENDS WorkflowProperties, FiniteSetTheorems, TLAPS

USE WorkflowAssumption DEF NoLimit

(* The coroutine is inside its workflow while it executes a step.              *)
TypeInv == WorkflowTypeOK /\ (run.pc = "step" => run.pos \in 1..Len(flow))

Runs == [pc: {"load", "mark", "exchange", "head", "step", "done"}, pos: Nat \ {0}, view: Statuses,
         phase: [0..MaxSubs -> Phases], next: Nat, item: Nat, agent: Nat, tool: Nat]

LEMMA StepType ==
  ASSUME TypeInv, run.pc = "step"
  PROVE  Step \in [type: StepTypes, then: Nat, else: Nat, subs: Seq(LeafTypes)]
<1> DEFINE S == [type: StepTypes, then: Nat, else: Nat, subs: Seq(LeafTypes)]
<1>1. flow \in Seq(S)
  BY DEF TypeInv, WorkflowTypeOK, WorkflowAssumption, Definition
<1>2. run.pos \in 1..Len(flow)
  BY DEF TypeInv
<1> HIDE DEF S
<1>3. flow[run.pos] \in S
  BY <1>1, <1>2
<1> QED BY <1>3 DEF S, Step

LEMMA StatusType ==
  ASSUME TypeInv, NEW s \in Statuses, SetStatus(s)
  PROVE  status' \in Statuses /\ late' \in Nat
  BY DEF TypeInv, WorkflowTypeOK, SetStatus

LEMMA RecordType ==
  ASSUME TypeInv, NEW k \in 0..MaxSubs, NEW s \in {"running", "completed", "failed"}, Record(k, s)
  PROVE  records' \subseteq Nat \X (0..MaxSubs) \X {"running", "completed", "failed"}
  BY DEF TypeInv, WorkflowTypeOK, Record

LEMMA IdleType == Idle \in [0..MaxSubs -> Phases]
  BY DEF Idle, Phases

LEMMA CallType ==
  ASSUME TypeInv, run.pc = "step", NEW k \in 0..MaxSubs, Update(k)
  PROVE  run' \in Runs /\ run'.pc = "step" /\ run'.pos = run.pos
<1>1. run \in Runs /\ run.agent + 1 \in Nat /\ run.tool + 1 \in Nat
  BY DEF TypeInv, WorkflowTypeOK, Runs
<1>2. {"ok", "bad"} \subseteq Phases
  BY DEF Phases
<1>3. CASE Enter(k, "ok")
  BY <1>1, <1>2, <1>3 DEF Enter, Runs
<1>4. ASSUME NEW p \in {"ok", "bad"}, NEW a \in {run.agent, run.agent + 1}, NEW t \in {run.tool, run.tool + 1},
             run' = [run EXCEPT !.phase[k] = p, !.agent = a, !.tool = t]
      PROVE  run' \in Runs /\ run'.pc = "step" /\ run'.pos = run.pos
  BY <1>1, <1>2, <1>4 DEF Runs
<1> QED BY <1>3, <1>4 DEF Update

LEMMA TypeStep == TypeInv /\ [Next]_vars => TypeInv'
<1> SUFFICES ASSUME TypeInv, [Next]_vars PROVE TypeInv'
  OBVIOUS
<1> USE DEF TypeInv, WorkflowTypeOK
<1>e. ASSUME NEW k \in 0..MaxSubs, NEW p \in Phases, run.pc = "step", Enter(k, p)
      PROVE  run' \in Runs /\ run'.pc = "step" /\ run'.pos = run.pos
  BY <1>e DEF Enter, Runs
<1>h. ASSUME NEW s \in Statuses, Halt(s) PROVE run' \in Runs /\ run'.pc = "done"
  BY <1>h, IdleType DEF Halt, Runs
<1>1. CASE Load
  BY <1>1 DEF Load, Runs
<1>2. CASE Orphaned
  BY <1>2, <1>h, StatusType DEF Orphaned, Statuses, Runs
<1>3. CASE Mark
  <2>1. "running" \in Statuses
    BY DEF Statuses
  <2> QED BY <1>3, <2>1, StatusType DEF Mark
<1>4. CASE Exchange
  BY <1>4, <1>h, StatusType DEF Exchange, Statuses, Runs
<1>5. CASE CheckStopped
  <2>1. CASE Halt(status)
    BY <1>5, <1>h, <2>1 DEF CheckStopped, Runs
  <2>2. CASE run' = [run EXCEPT !.view = status, !.pc = "step", !.phase = [Idle EXCEPT ![0] = "start"]]
    <3>1. [Idle EXCEPT ![0] = "start"] \in [0..MaxSubs -> Phases]
      BY IdleType DEF Phases
    <3>2. run.pos \in 1..Len(flow)
      BY <1>5, StepType DEF CheckStopped, WorkflowAssumption, Definition
    <3> QED BY <1>5, <2>2, <3>1, <3>2 DEF CheckStopped
  <2> QED BY <1>5, <2>1, <2>2 DEF CheckStopped
<1>6. CASE Finish
  BY <1>6, <1>h, StatusType DEF Finish, Statuses, Runs
<1>7. CASE Fork
  BY <1>7 DEF Fork, In, Phases
<1>8. CASE Join
  BY <1>8, <1>e DEF Join, In, Phases, Runs
<1>9. CASE Loop
  <2>1. 0 \in 0..MaxSubs /\ {"ok", "bad", "wait", "start"} \subseteq Phases
    BY DEF Phases, WorkflowAssumption
  <2>2. CASE Enter(0, "ok") \/ Enter(0, "bad")
    <3>1. run.pc = "step"
      BY <1>9 DEF Loop, In
    <3>2. run' \in Runs /\ run'.pc = "step" /\ run'.pos = run.pos
      BY <2>1, <2>2, <3>1, <1>e
    <3> QED BY <1>9, <3>1, <3>2 DEF Loop, Runs
  <2>3. ASSUME NEW n \in 1..MaxItems, run' = [run EXCEPT !.item = n, !.phase[0] = "wait", !.phase[1] = "start"]
        PROVE  run' \in Runs /\ run'.pc = run.pc /\ run'.pos = run.pos
    <3>1. n \in Nat
      BY DEF WorkflowAssumption
    <3> QED BY <2>1, <2>3, <3>1 DEF Runs
  <2> QED BY <1>9, <2>2, <2>3 DEF Loop, In, Runs
<1>10. CASE Advance
  <2>1. CASE Halt(run.view)
    BY <1>10, <1>h, <2>1 DEF Advance, Runs
  <2>2. ASSUME NEW n \in Nat \ {0},
               run' = [run EXCEPT !.pc = "head", !.phase = Idle, !.next = 0, !.pos = n]
        PROVE  run' \in Runs /\ run'.pc = "head"
    BY <2>2, IdleType DEF Runs
  <2>3. (IF run.next # 0 THEN run.next ELSE run.pos + 1) \in Nat \ {0}
    OBVIOUS
  <2>4. CASE Step.type # "human"
    <3>1. run' \in Runs /\ run'.pc = "head"
      BY <1>10, <2>2, <2>3, <2>4 DEF Advance
    <3> QED BY <1>10, <3>1 DEF Advance, Runs
  <2> QED BY <1>10, <2>1, <2>4 DEF Advance
<1>11. CASE Fail
  BY <1>11, <1>h, StatusType DEF Fail, Statuses, Runs
<1>12. ASSUME NEW k \in 0..MaxSubs, Execute(k) PROVE TypeInv'
  <2>1. CASE Start(k)
    <3>1. /\ {"bad", "work", "failed"} \subseteq Phases /\ run.pc = "step"
          /\ records' \subseteq Nat \X (0..MaxSubs) \X {"running", "completed", "failed"}
      BY <2>1, RecordType DEF Start, In, Phases
    <3>2. run' \in Runs /\ run'.pc = "step" /\ run'.pos = run.pos
      <4>1. \E p \in {"bad", "work", "failed"} : Enter(k, p)
        BY <2>1 DEF Start
      <4> QED BY <3>1, <4>1, <1>e
    <3> QED BY <2>1, <3>1, <3>2 DEF Start, Runs
  <2>2. CASE Call(k)
    <3>1. run.pc = "step" /\ "bad" \in Phases
      BY <2>2 DEF Call, In, Phases
    <3>2. run' \in Runs /\ run'.pc = "step" /\ run'.pos = run.pos
      BY <2>2, <3>1, <1>e, CallType DEF Call
    <3> QED BY <2>2, <3>1, <3>2 DEF Call, Runs
  <2>3. CASE Condition(k)
    <3>1. Step.then \in Nat /\ Step.else \in Nat /\ run.pc = "step" /\ {"ok", "bad"} \subseteq Phases
      BY <2>3, StepType DEF Condition, In, Phases
    <3>2. ASSUME NEW n \in Nat, run' = [run EXCEPT !.phase[k] = "ok", !.next = n]
          PROVE  run' \in Runs /\ run'.pc = "step" /\ run'.pos = run.pos
      BY <3>1, <3>2 DEF Runs
    <3>3. CASE Enter(k, "bad")
      BY <2>3, <3>1, <3>3, <1>e DEF Condition, Runs
    <3>4. \A n \in {Step.then, Step.else} : (IF k = 0 THEN n ELSE 0) \in Nat
      BY <3>1
    <3>5. CASE ~ Enter(k, "bad")
      <4>1. PICK n \in {Step.then, Step.else} : run' = [run EXCEPT !.phase[k] = "ok", !.next = IF k = 0 THEN n ELSE 0]
        BY <2>3, <3>5 DEF Condition
      <4>2. run' \in Runs /\ run'.pc = "step" /\ run'.pos = run.pos
        <5>1. PICK m \in Nat : m = IF k = 0 THEN n ELSE 0
          BY <3>4
        <5>2. run' = [run EXCEPT !.phase[k] = "ok", !.next = m]
          BY <4>1, <5>1
        <5> QED BY <3>2, <5>2
      <4>3. UNCHANGED <<flow, status, records, asked, late>>
        BY <2>3 DEF Condition
      <4> QED BY <4>2, <4>3, <3>1 DEF Runs
    <3> QED BY <3>3, <3>5
  <2>4. CASE Human(k)
    BY <2>4, StatusType DEF Human, In, Phases, Statuses
  <2>5. CASE Save(k)
    <3>1. /\ {"ended", "failed"} \subseteq Phases /\ run.pc = "step"
          /\ records' \subseteq Nat \X (0..MaxSubs) \X {"running", "completed", "failed"}
      BY <2>5, RecordType DEF Save, In, Phases
    <3>2. run' \in Runs /\ run'.pc = "step" /\ run'.pos = run.pos
      BY <2>5, <3>1, <1>e DEF Save
    <3> QED BY <2>5, <3>1, <3>2 DEF Save, Runs
  <2>6. CASE Iterate(k)
    <3>1. {"ok", "idle", "start"} \subseteq Phases /\ run.pc = "step"
      BY <2>6 DEF Phases, Iterate, In
    <3>2. run' \in Runs /\ run'.pc = "step" /\ run'.pos = run.pos
      <4>1. CASE run' = [run EXCEPT !.phase[k] = "idle", !.phase[k + 1] = "start"]
        BY <3>1, <4>1 DEF Runs
      <4>2. CASE run.item > 1 /\ run' = [run EXCEPT !.phase[k] = "idle", !.item = run.item - 1, !.phase[1] = "start"]
        <5>1. run.item - 1 \in Nat
          BY <4>2
        <5> QED BY <3>1, <4>2, <5>1 DEF Runs
      <4>3. CASE run' = [run EXCEPT !.phase[k] = "idle", !.item = 0, !.phase[0] = "ok"]
        BY <3>1, <4>3 DEF Runs
      <4> QED BY <2>6, <4>1, <4>2, <4>3, Zenon DEF Iterate
    <3> QED BY <2>6, <3>1, <3>2 DEF Iterate, Runs
  <2>7. CASE Abort(k)
    BY <2>7 DEF Abort, In, Phases
  <2> QED BY <1>12, <2>1, <2>2, <2>3, <2>4, <2>5, <2>6, <2>7 DEF Execute
<1>13. ASSUME NEW q \in Requests, Ask(q) \/ Stop(q) \/ Approve(q) PROVE TypeInv'
  BY <1>13 DEF Ask, Stop, Approve, Statuses
<1>14. CASE UNCHANGED vars
  BY <1>14 DEF vars
<1> QED
  BY <1>1, <1>2, <1>3, <1>4, <1>5, <1>6, <1>7, <1>8, <1>9, <1>10, <1>11, <1>12, <1>13, <1>14 DEF Next, Run

LEMMA TypeInit == Init => TypeInv
  BY IdleType DEF Init, TypeInv, WorkflowTypeOK, Statuses

LEMMA TypeHolds == Spec => []TypeInv
  BY TypeInit, TypeStep, PTL DEF Spec

(* Every reachable state is well typed, for any workflows and requests.        *)
THEOREM WorkflowTypeCorrect == Spec => []WorkflowTypeOK
  BY TypeHolds, PTL DEF TypeInv

------------------------------------------------------------------------------
(* A stop that is not overwritten: no step has begun since, or the one whose   *)
(* check had passed has.                                                       *)
StopInv ==
  /\ late <= 1
  /\ status # "stopped" => late = 0
  /\ In(0, "start") => late = 0

(* What the phases of the nested steps are, given that of their step.          *)
Nested == 1..MaxSubs
AllIdle == \A k \in Nested : run.phase[k] = "idle"
Shape ==
  /\ run.phase[0] \in {"start", "work"} \/ Step.type \in LeafTypes => AllIdle
  /\ Step.type = "loop" =>
       /\ run.phase[0] = "wait" \/ AllIdle
       /\ \A j, k \in Nested : j # k => run.phase[j] = "idle" \/ run.phase[k] = "idle"
  /\ Step.type = "parallel" =>
       /\ run.phase[0] \in {"ok", "ended"} => \A k \in Nested : run.phase[k] \in {"idle", "ended"}
       /\ \A k \in Nested : run.phase[k] # "idle" => k \in Subs

(* Where a record that is not completed may be.                                *)
Dirty(k) ==
  /\ <<run.pos, k, "running">> \in records => run.phase[k] \in {"work", "wait", "ok", "bad", "failed"}
  /\ <<run.pos, k, "failed">> \in records => run.phase[k] = "failed"
CleanStep ==
  /\ Shape
  /\ \A r \in records : r[1] # run.pos => r[3] = "completed"
  /\ Dirty(0)
  /\ run.phase[0] \in {"bad", "failed"} \/ \A k \in Nested : Dirty(k)
CleanInv ==
  /\ CompletedIsClean
  /\ run.pc \in {"load", "mark", "exchange", "head"} => \A r \in records : r[3] = "completed"
  /\ run.pc = "step" => CleanStep

LEMMA EnterFacts ==
  ASSUME TypeInv, NEW k \in 0..MaxSubs, NEW p, Enter(k, p)
  PROVE  /\ run'.pc = run.pc /\ run'.pos = run.pos
         /\ \A j \in 0..MaxSubs : run'.phase[j] = IF j = k THEN p ELSE run.phase[j]
  BY DEF TypeInv, WorkflowTypeOK, Enter

LEMMA CallFacts ==
  ASSUME TypeInv, NEW k \in 0..MaxSubs, Update(k) \/ Enter(k, "bad")
  PROVE  /\ run'.pc = run.pc /\ run'.pos = run.pos
         /\ \E p \in {"ok", "bad"} : \A j \in 0..MaxSubs : run'.phase[j] = IF j = k THEN p ELSE run.phase[j]
<1>1. CASE Enter(k, "bad") \/ Enter(k, "ok")
  BY <1>1, EnterFacts
<1>2. ASSUME NEW p \in {"ok", "bad"}, NEW a, NEW t, run' = [run EXCEPT !.phase[k] = p, !.agent = a, !.tool = t]
      PROVE  /\ run'.pc = run.pc /\ run'.pos = run.pos
             /\ \A j \in 0..MaxSubs : run'.phase[j] = IF j = k THEN p ELSE run.phase[j]
  BY <1>2 DEF TypeInv, WorkflowTypeOK
<1>3. CASE ~ Enter(k, "bad") /\ ~ Enter(k, "ok")
  <2> DEFINE p == IF Used(TypeOf(k)) + 1 > Limit(TypeOf(k)) THEN "bad" ELSE "ok"
             a == IF TypeOf(k) = "agent" THEN run.agent + 1 ELSE run.agent
             t == IF TypeOf(k) = "tool" THEN run.tool + 1 ELSE run.tool
  <2>1. run' = [run EXCEPT !.phase[k] = p, !.agent = a, !.tool = t]
    BY <1>3 DEF Update
  <2>2. p \in {"ok", "bad"}
    OBVIOUS
  <2> HIDE DEF p, a, t
  <2> QED BY <1>2, <2>1, <2>2
<1> QED BY <1>1, <1>3

LEMMA ConditionFacts ==
  ASSUME TypeInv, NEW k \in 0..MaxSubs, Condition(k)
  PROVE  /\ run'.pc = run.pc /\ run'.pos = run.pos
         /\ \E p \in {"ok", "bad"} : \A j \in 0..MaxSubs : run'.phase[j] = IF j = k THEN p ELSE run.phase[j]
<1>1. CASE Enter(k, "bad")
  BY <1>1, EnterFacts
<1>2. ASSUME NEW m, run' = [run EXCEPT !.phase[k] = "ok", !.next = m]
      PROVE  /\ run'.pc = run.pc /\ run'.pos = run.pos
             /\ \A j \in 0..MaxSubs : run'.phase[j] = IF j = k THEN "ok" ELSE run.phase[j]
  BY <1>2 DEF TypeInv, WorkflowTypeOK
<1> QED BY <1>1, <1>2 DEF Condition

LEMMA IterateFacts ==
  ASSUME TypeInv, NEW k \in 0..MaxSubs, Iterate(k)
  PROVE  /\ run'.pc = run.pc /\ run'.pos = run.pos
         /\ \/ \E i \in Nat \ {0} : \A j \in 0..MaxSubs :
                 run'.phase[j] = IF j = i THEN "start" ELSE IF j = k THEN "idle" ELSE run.phase[j]
            \/ \A j \in 0..MaxSubs : run'.phase[j] = IF j = 0 THEN "ok" ELSE IF j = k THEN "idle" ELSE run.phase[j]
<1> USE DEF TypeInv, WorkflowTypeOK
<1>1. CASE run' = [run EXCEPT !.phase[k] = "idle", !.phase[k + 1] = "start"]
  <2>1. k + 1 \in Nat \ {0}
    OBVIOUS
  <2>2. run'.pc = run.pc /\ run'.pos = run.pos
    BY <1>1
  <2>3. \A j \in 0..MaxSubs : run'.phase[j] = IF j = k + 1 THEN "start" ELSE IF j = k THEN "idle" ELSE run.phase[j]
    BY <1>1
  <2> QED BY <2>1, <2>2, <2>3
<1>2. CASE run' = [run EXCEPT !.phase[k] = "idle", !.item = run.item - 1, !.phase[1] = "start"]
  <2>1. run'.pc = run.pc /\ run'.pos = run.pos
    BY <1>2
  <2>2. \A j \in 0..MaxSubs : run'.phase[j] = IF j = 1 THEN "start" ELSE IF j = k THEN "idle" ELSE run.phase[j]
    BY <1>2
  <2> QED BY <2>1, <2>2
<1>3. CASE run' = [run EXCEPT !.phase[k] = "idle", !.item = 0, !.phase[0] = "ok"]
  BY <1>3
<1> QED BY <1>1, <1>2, <1>3, Zenon DEF Iterate

LEMMA AbortFacts ==
  ASSUME TypeInv, NEW k \in 0..MaxSubs, Abort(k)
  PROVE  /\ run'.pc = run.pc /\ run'.pos = run.pos
         /\ \A j \in 0..MaxSubs : run'.phase[j] = IF j = 0 THEN "bad" ELSE IF j = k THEN "idle" ELSE run.phase[j]
  BY DEF Abort, TypeInv, WorkflowTypeOK

------------------------------------------------------------------------------
LEMMA StopStep == TypeInv /\ StopInv /\ [Next]_vars => StopInv'
<1> SUFFICES ASSUME TypeInv, StopInv, [Next]_vars PROVE StopInv'
  OBVIOUS
<1> USE DEF StopInv
<1>t. late \in Nat /\ status \in Statuses
  BY DEF TypeInv, WorkflowTypeOK
<1>s. ASSUME NEW x, SetStatus(x), ~ In(0, "start")' PROVE StopInv'
  BY <1>t, <1>s DEF SetStatus
<1>r. ASSUME UNCHANGED <<status, late>>, In(0, "start")' => In(0, "start") PROVE StopInv'
  BY <1>r
<1>h. ASSUME NEW x, Halt(x) PROVE ~ In(0, "start")'
  BY <1>h DEF Halt, In, TypeInv, WorkflowTypeOK
<1>1. CASE Load
  BY <1>1, <1>r DEF Load, In, TypeInv, WorkflowTypeOK
<1>2. CASE Orphaned
  BY <1>2, <1>h, <1>s DEF Orphaned
<1>3. CASE Mark
  <2>1. ~ In(0, "start")'
    BY <1>3 DEF Mark, In, TypeInv, WorkflowTypeOK
  <2> QED BY <1>3, <2>1, <1>s DEF Mark
<1>4. CASE Exchange
  <2>1. CASE UNCHANGED <<status, late>> /\ run' = [run EXCEPT !.pc = "head"]
    BY <2>1, <1>r DEF In, TypeInv, WorkflowTypeOK
  <2> QED BY <1>4, <2>1, <1>h, <1>s DEF Exchange
<1>5. CASE CheckStopped
  BY <1>5, <1>h DEF CheckStopped
<1>6. CASE Finish
  BY <1>6, <1>h, <1>s DEF Finish
<1>7. CASE Fork
  <2>1. run'.phase[0] = "wait"
    BY <1>7 DEF Fork, TypeInv, WorkflowTypeOK
  <2> QED BY <1>7, <2>1 DEF Fork, In
<1>8. CASE Join
  BY <1>8, <1>r, EnterFacts DEF Join, In
<1>9. CASE Loop
  <2>1. CASE Enter(0, "ok") \/ Enter(0, "bad")
    <3>1. run'.phase[0] \in {"ok", "bad"}
      BY <2>1, EnterFacts DEF WorkflowAssumption
    <3> QED BY <1>9, <3>1, <1>r DEF Loop, In
  <2>2. ASSUME NEW n, run' = [run EXCEPT !.item = n, !.phase[0] = "wait", !.phase[1] = "start"]
        PROVE  ~ In(0, "start")'
    BY <2>2 DEF In, TypeInv, WorkflowTypeOK
  <2> QED BY <1>9, <2>1, <2>2, <1>r DEF Loop
<1>10. CASE Advance
  <2>1. ~ In(0, "start")'
    <3>1. CASE Halt(run.view)
      BY <3>1, <1>h
    <3>2. ASSUME NEW n, run' = [run EXCEPT !.pc = "head", !.phase = Idle, !.next = 0, !.pos = n]
          PROVE  ~ In(0, "start")'
      BY <3>2 DEF In, TypeInv, WorkflowTypeOK
    <3> QED BY <1>10, <3>1, <3>2 DEF Advance
  <2> QED BY <1>10, <2>1, <1>r DEF Advance
<1>11. CASE Fail
  BY <1>11, <1>h, <1>s DEF Fail
<1>12. ASSUME NEW k \in 0..MaxSubs, Execute(k) PROVE StopInv'
  <2>1. CASE Start(k)
    <3>1. run.phase[k] = "start" /\ In(k, "start")
      BY <2>1 DEF Start, In
    <3>2. \E p \in {"bad", "work", "failed"} : Enter(k, p)
      BY <2>1 DEF Start
    <3>3. \E p \in {"bad", "work", "failed"} : \A j \in 0..MaxSubs : run'.phase[j] = IF j = k THEN p ELSE run.phase[j]
      BY <3>2, EnterFacts
    <3>4. run'.pc = run.pc
      BY <3>2, EnterFacts
    <3>5. CASE k = 0
      <4>1. ~ In(0, "start")' /\ late = 0
        BY <3>1, <3>3, <3>5 DEF In
      <4> QED BY <2>1, <4>1, <3>5, <1>t DEF Start
    <3>6. CASE k # 0
      <4>1. In(0, "start")' => In(0, "start")
        BY <3>3, <3>4, <3>6 DEF In, WorkflowAssumption
      <4> QED BY <2>1, <3>6, <4>1, <1>r DEF Start
    <3> QED BY <3>5, <3>6
  <2>2. CASE Call(k)
    <3>1. In(0, "start")' => In(0, "start")
      BY <2>2, CallFacts DEF Call, In, WorkflowAssumption
    <3> QED BY <2>2, <3>1, <1>r DEF Call
  <2>3. CASE Condition(k)
    <3>1. In(0, "start")' => In(0, "start")
      BY <2>3, ConditionFacts DEF In, WorkflowAssumption
    <3> QED BY <2>3, <3>1, <1>r DEF Condition
  <2>4. CASE Human(k)
    <3>1. In(0, "start")' => In(0, "start")
      BY <2>4 DEF Human, In, TypeInv, WorkflowTypeOK
    <3> QED BY <2>4, <3>1, <1>t DEF Human, SetStatus
  <2>5. CASE Save(k)
    <3>1. In(0, "start")' => In(0, "start")
      <4>1. \E p \in {"ended", "failed"} : Enter(k, p)
        BY <2>5 DEF Save
      <4>2. \E p \in {"ended", "failed"} : \A j \in 0..MaxSubs : run'.phase[j] = IF j = k THEN p ELSE run.phase[j]
        BY <4>1, EnterFacts
      <4>3. run'.pc = run.pc
        BY <4>1, EnterFacts
      <4> QED BY <4>2, <4>3 DEF In, WorkflowAssumption
    <3> QED BY <2>5, <3>1, <1>r DEF Save
  <2>6. CASE Iterate(k)
    <3>1. In(0, "start")' => In(0, "start")
      <4>1. k # 0
        BY <2>6 DEF Iterate
      <4>2. run'.phase[0] \in {"ok", run.phase[0]}
        BY <2>6, <4>1, IterateFacts DEF WorkflowAssumption
      <4>3. run'.pc = run.pc
        BY <2>6, IterateFacts
      <4> QED BY <4>2, <4>3 DEF In
    <3> QED BY <2>6, <3>1, <1>r DEF Iterate
  <2>7. CASE Abort(k)
    <3>1. In(0, "start")' => In(0, "start")
      BY <2>7, AbortFacts DEF In, WorkflowAssumption
    <3> QED BY <2>7, <3>1, <1>r DEF Abort
  <2> QED BY <1>12, <2>1, <2>2, <2>3, <2>4, <2>5, <2>6, <2>7 DEF Execute
<1>13. ASSUME NEW q \in Requests, Ask(q) \/ Stop(q) \/ Approve(q) PROVE StopInv'
  BY <1>13, <1>t DEF Ask, Stop, Approve, In
<1>14. CASE UNCHANGED vars
  BY <1>14, <1>r DEF vars, In
<1> QED
  BY <1>1, <1>2, <1>3, <1>4, <1>5, <1>6, <1>7, <1>8, <1>9, <1>10, <1>11, <1>12, <1>13, <1>14 DEF Next, Run

LEMMA StopInit == Init => StopInv
  BY DEF Init, StopInv, In

(* For any workflow and any stop and approval requests, at most one more step  *)
(* of the workflow begins after a stop that nothing overwrites.                *)
THEOREM StopHonoured == Spec => []StopTakesEffect
<1>1. StopInv => StopTakesEffect
  BY DEF StopInv, StopTakesEffect
<1> QED BY <1>1, TypeHolds, StopInit, StopStep, PTL DEF Spec

------------------------------------------------------------------------------
LEMMA RecordFacts ==
  ASSUME NEW k \in 0..MaxSubs, NEW s \in {"running", "completed", "failed"}, Record(k, s)
  PROVE  /\ \A r \in records' : r \in records \/ r = <<run.pos, k, s>>
         /\ <<run.pos, k, "running">> \in records' => s = "running"
  BY DEF Record

(* A nested step that goes on while another phase of it is due.                *)
LEMMA NestedMove ==
  ASSUME TypeInv, Shape, NEW k \in Nested, NEW p, run.phase[k] \notin {"idle", "ended"},
         run'.pos = run.pos, UNCHANGED flow, run.pc = "step",
         \A j \in 0..MaxSubs : run'.phase[j] = IF j = k THEN p ELSE run.phase[j]
  PROVE  Shape'
<1>1. k # 0 /\ Nested \subseteq 0..MaxSubs /\ 0 \in 0..MaxSubs
  BY DEF Nested, WorkflowAssumption
<1>2. Step' = Step /\ Subs' = Subs /\ run'.phase[0] = run.phase[0]
  BY <1>1 DEF Step, Subs
<1>3. ~ AllIdle
  BY DEF AllIdle
<1>4. ~ (run.phase[0] \in {"start", "work"} \/ Step.type \in LeafTypes)
  BY <1>3 DEF Shape
<1>5. Step.type = "loop" => run.phase[0] = "wait" /\ \A j \in Nested : j # k => run.phase[j] = "idle"
  BY <1>3 DEF Shape
<1>6. Step.type = "parallel" => run.phase[0] \notin {"ok", "ended"} /\ \A j \in Nested : run.phase[j] # "idle" => j \in Subs
  BY DEF Shape
<1>7. Step.type = "loop" => \A i, j \in Nested : i # j => run'.phase[i] = "idle" \/ run'.phase[j] = "idle"
  BY <1>1, <1>5
<1>8. Step.type = "parallel" => \A j \in Nested : run'.phase[j] # "idle" => j \in Subs
  BY <1>1, <1>6
<1> QED BY <1>2, <1>4, <1>5, <1>6, <1>7, <1>8 DEF Shape

(* The step itself goes on, with its nested steps as they are.                 *)
LEMMA OwnMove ==
  ASSUME TypeInv, Shape, AllIdle, NEW p, run'.pos = run.pos, UNCHANGED flow, run.pc = "step",
         \A j \in 0..MaxSubs : run'.phase[j] = IF j = 0 THEN p ELSE run.phase[j]
  PROVE  Shape'
<1>1. \A j \in Nested : j # 0 /\ j \in 0..MaxSubs
  BY DEF Nested
<1>2. AllIdle'
  BY <1>1 DEF AllIdle
<1> QED BY <1>2 DEF Shape, AllIdle

LEMMA CleanStepLemma == TypeInv /\ CleanInv /\ [Next]_vars => CleanInv'
<1> SUFFICES ASSUME TypeInv, CleanInv, [Next]_vars PROVE CleanInv'
  OBVIOUS
<1>t. /\ run.phase \in [0..MaxSubs -> Phases] /\ status \in Statuses /\ 0 \in 0..MaxSubs
      /\ \A r \in records : r = <<r[1], r[2], r[3]>> /\ r[2] \in 0..MaxSubs /\ r[3] \in {"running", "completed", "failed"}
  BY DEF TypeInv, WorkflowTypeOK, WorkflowAssumption
(* A coroutine that ends with a status other than completed.                   *)
<1>h. ASSUME NEW s \in Statuses, Halt(s), status' # "completed" PROVE CleanInv'
  <2>1. run'.pc = "done"
    BY <1>h DEF Halt, TypeInv, WorkflowTypeOK
  <2> QED BY <2>1, <1>h DEF CleanInv, CompletedIsClean
(* Before the first step and between steps.                                    *)
<1>b. ASSUME run.pc \in {"load", "mark", "exchange", "head"}, UNCHANGED records, status' # "completed",
             run'.pc \in {"mark", "exchange", "head"}
      PROVE  CleanInv'
  BY <1>b DEF CleanInv, CompletedIsClean
<1>n. run.pc # "done" => status # "completed"
  BY DEF CleanInv, CompletedIsClean
<1>1. CASE Load
  BY <1>1, <1>b, <1>n DEF Load, TypeInv, WorkflowTypeOK
<1>2. CASE Orphaned
  BY <1>2, <1>h, <1>n DEF Orphaned, SetStatus, Statuses
<1>3. CASE Mark
  <2>1. run'.pc = "exchange"
    BY <1>3 DEF Mark, TypeInv, WorkflowTypeOK
  <2> QED BY <1>3, <2>1, <1>b, <1>n DEF Mark, SetStatus
<1>4. CASE Exchange
  <2>1. CASE UNCHANGED <<status, late>> /\ run' = [run EXCEPT !.pc = "head"]
    <3>1. run'.pc = "head"
      BY <2>1 DEF TypeInv, WorkflowTypeOK
    <3> QED BY <1>4, <2>1, <3>1, <1>b, <1>n DEF Exchange
  <2>2. CASE SetStatus("failed") /\ Halt("failed")
    BY <1>4, <2>2, <1>h, <1>n DEF Exchange, SetStatus, Statuses
  <2> QED BY <1>4, <2>1, <2>2 DEF Exchange
<1>5. CASE CheckStopped
  <2>1. CASE Halt(status)
    BY <1>5, <2>1, <1>h, <1>n, <1>t DEF CheckStopped
  <2>2. CASE run' = [run EXCEPT !.view = status, !.pc = "step", !.phase = [Idle EXCEPT ![0] = "start"]]
    <3>1. /\ run'.pc = "step" /\ run'.pos = run.pos /\ run'.phase[0] = "start"
          /\ \A k \in Nested : run'.phase[k] = "idle"
      BY <2>2, <1>t DEF TypeInv, WorkflowTypeOK, Idle, Nested
    <3>2. \A r \in records' : r[3] = "completed"
      BY <1>5 DEF CheckStopped, CleanInv
    <3>3. \A k \in 0..MaxSubs : Dirty(k)'
      BY <3>2, <1>t, <1>5 DEF Dirty, CheckStopped
    <3>4. Shape'
      BY <3>1 DEF Shape, AllIdle
    <3>5. CleanStep'
      BY <3>2, <3>3, <3>4, <1>t DEF CleanStep, Nested
    <3> QED BY <1>5, <3>1, <3>5, <1>n DEF CheckStopped, CleanInv, CompletedIsClean
  <2> QED BY <1>5, <2>1, <2>2 DEF CheckStopped
<1>6. CASE Finish
  <2>1. run'.pc = "done" /\ \A r \in records' : r[3] = "completed"
    BY <1>6 DEF Finish, Halt, CleanInv, TypeInv, WorkflowTypeOK
  <2> QED BY <2>1 DEF CleanInv, CompletedIsClean
<1>p. Nested \subseteq 0..MaxSubs /\ 0 \notin Nested /\ 0 \in 0..MaxSubs
  BY DEF Nested, WorkflowAssumption
(* Within a step, with or without a record that changes.                       *)
<1>c. ASSUME run.pc = "step", run'.pc = "step", run'.pos = run.pos, status' # "completed", Shape', Dirty(0)',
             \A r \in records' : r \in records \/ r[1] = run.pos,
             run'.phase[0] \in {"bad", "failed"} \/ \A k \in Nested : Dirty(k)'
      PROVE  CleanInv'
  <2>1. CleanStep'
    BY <1>c DEF CleanInv, CleanStep
  <2> QED BY <1>c, <2>1 DEF CleanInv, CompletedIsClean
<1>7. CASE Fork
  <2>1. /\ run.pc = "step" /\ run'.pc = "step" /\ run'.pos = run.pos /\ run.phase[0] = "work" /\ run'.phase[0] = "wait"
        /\ \A k \in Nested : run'.phase[k] = IF k \in Subs THEN "start" ELSE "idle"
    <3>1. run.pc = "step" /\ run.phase[0] = "work"
      BY <1>7 DEF Fork, In
    <3>2. run' = [run EXCEPT !.phase = [k \in 0..MaxSubs |-> IF k = 0 THEN "wait" ELSE IF k \in Subs THEN "start" ELSE "idle"]]
      BY <1>7 DEF Fork
    <3>3. run'.pc = run.pc /\ run'.pos = run.pos
          /\ run'.phase = [k \in 0..MaxSubs |-> IF k = 0 THEN "wait" ELSE IF k \in Subs THEN "start" ELSE "idle"]
      BY <3>2 DEF TypeInv, WorkflowTypeOK
    <3> QED BY <3>1, <3>3, <1>p
  <2>2. AllIdle /\ Step' = Step /\ Subs' = Subs
    BY <1>7, <2>1 DEF CleanInv, CleanStep, Shape, Step, Subs, Fork
  <2>3. Shape'
    BY <1>7, <2>1, <2>2 DEF Shape, Fork, LeafTypes
  <2>4. Dirty(0)' /\ \A k \in Nested : Dirty(k)'
    <3>1. UNCHANGED records
      BY <1>7 DEF Fork
    <3>2. Dirty(0) /\ \A k \in Nested : Dirty(k) /\ run.phase[k] = "idle"
      BY <2>1, <2>2 DEF CleanInv, CleanStep, AllIdle
    <3> QED BY <2>1, <3>1, <3>2 DEF Dirty
  <2> QED BY <1>7, <1>c, <1>n, <2>1, <2>3, <2>4 DEF Fork
<1>8. CASE Join
  <2> DEFINE p == IF \E k \in Subs : run.phase[k] = "failed" THEN "bad" ELSE "ok"
  <2>1. /\ run.pc = "step" /\ run.phase[0] = "wait" /\ run'.pc = run.pc /\ run'.pos = run.pos
        /\ \A j \in 0..MaxSubs : run'.phase[j] = IF j = 0 THEN p ELSE run.phase[j]
    BY <1>8, <1>p, EnterFacts DEF Join, In
  <2>2. /\ Step' = Step /\ Subs' = Subs /\ Step.type = "parallel" /\ run'.phase[0] = p
        /\ \A j \in Nested : run'.phase[j] = run.phase[j]
    BY <1>8, <2>1, <1>p DEF Step, Subs, Join
  <2>3. \A k \in Nested : run.phase[k] # "idle" => k \in Subs
    BY <2>1, <2>2 DEF CleanInv, CleanStep, Shape
  <2>4. p = "ok" => \A k \in Nested : run.phase[k] \in {"idle", "ended"}
    BY <1>8, <2>3 DEF Join
  <2>5. Shape'
    BY <2>2, <2>3, <2>4 DEF Shape, LeafTypes
  <2>6. Dirty(0)' /\ \A k \in Nested : Dirty(k)'
    BY <1>8, <2>1, <2>2 DEF Dirty, CleanInv, CleanStep, Join
  <2> QED BY <1>8, <1>c, <1>n, <2>1, <2>5, <2>6 DEF Join
<1>9. CASE Loop
  <2>1. /\ run.pc = "step" /\ run.phase[0] = "work" /\ Step.type = "loop" /\ UNCHANGED <<flow, status, records>>
    BY <1>9 DEF Loop, In
  <2>2. AllIdle /\ Shape /\ Dirty(0) /\ \A k \in Nested : Dirty(k)
    BY <2>1 DEF CleanInv, CleanStep, Shape
  <2>3. ASSUME NEW p \in {"ok", "bad"}, Enter(0, p) PROVE CleanInv'
    <3>1. /\ run'.pc = run.pc /\ run'.pos = run.pos
          /\ \A j \in 0..MaxSubs : run'.phase[j] = IF j = 0 THEN p ELSE run.phase[j]
      BY <2>3, <1>p, EnterFacts
    <3>2. Shape'
      BY <2>1, <2>2, <3>1, OwnMove
    <3>3. Dirty(0)' /\ \A k \in Nested : Dirty(k)'
      BY <2>1, <2>2, <3>1, <1>p DEF Dirty, AllIdle
    <3> QED BY <1>c, <1>n, <2>1, <3>1, <3>2, <3>3
  <2>4. ASSUME NEW n, run' = [run EXCEPT !.item = n, !.phase[0] = "wait", !.phase[1] = "start"] PROVE CleanInv'
    <3>1. /\ run'.pc = run.pc /\ run'.pos = run.pos
          /\ \A j \in 0..MaxSubs : run'.phase[j] = IF j = 1 THEN "start" ELSE IF j = 0 THEN "wait" ELSE run.phase[j]
      BY <2>4 DEF TypeInv, WorkflowTypeOK
    <3>2. Shape'
      <4>1. Step' = Step /\ run'.phase[0] = "wait"
        BY <2>1, <3>1, <1>p DEF Step
      <4>2. \A j \in Nested : j # 1 => run'.phase[j] = "idle"
        BY <2>2, <3>1, <1>p DEF AllIdle
      <4> QED BY <2>1, <4>1, <4>2 DEF Shape, LeafTypes
    <3>3. Dirty(0)' /\ \A k \in Nested : Dirty(k)'
      BY <2>1, <2>2, <3>1, <1>p DEF Dirty, AllIdle
    <3> QED BY <1>c, <1>n, <2>1, <3>1, <3>2, <3>3
  <2> QED BY <1>9, <2>3, <2>4 DEF Loop
<1>10. CASE Advance
  <2>1. /\ run.pc = "step" /\ run.phase[0] = "ended" /\ UNCHANGED <<flow, status, records>>
    BY <1>10 DEF Advance, In
  <2>2. \A k \in Nested : run.phase[k] \in {"idle", "ended"}
    BY <2>1, StepType DEF CleanInv, CleanStep, Shape, AllIdle, StepTypes
  <2>3. \A k \in 0..MaxSubs : <<run.pos, k, "running">> \notin records /\ <<run.pos, k, "failed">> \notin records
    BY <2>1, <2>2, <1>p DEF CleanInv, CleanStep, Dirty, Nested
  <2>4. \A r \in records : r[3] = "completed"
    <3>1. SUFFICES ASSUME NEW r \in records, r[1] = run.pos PROVE r[3] = "completed"
      BY <2>1 DEF CleanInv, CleanStep
    <3>2. r = <<run.pos, r[2], r[3]>> /\ r[2] \in 0..MaxSubs /\ r[3] \in {"running", "completed", "failed"}
      BY <3>1, <1>t
    <3> QED BY <2>3, <3>2
  <2>5. run'.pc \in {"done", "head"}
    <3>1. CASE Halt(run.view)
      BY <3>1 DEF Halt, TypeInv, WorkflowTypeOK
    <3>2. ASSUME NEW n, run' = [run EXCEPT !.pc = "head", !.phase = Idle, !.next = 0, !.pos = n]
          PROVE  run'.pc = "head"
      BY <3>2 DEF TypeInv, WorkflowTypeOK
    <3> QED BY <1>10, <3>1, <3>2 DEF Advance
  <2> QED BY <2>1, <2>4, <2>5, <1>n DEF CleanInv, CompletedIsClean
<1>12. ASSUME NEW k \in 0..MaxSubs, Execute(k) PROVE CleanInv'
  <2>1. /\ run.pc = "step" /\ UNCHANGED flow /\ CleanStep /\ Shape /\ Dirty(0)
        /\ k = 0 \/ k \in Nested
    BY <1>12 DEF Execute, Start, Call, Condition, Human, Save, Iterate, Abort, In, CleanInv, CleanStep, Nested
  <2>2. status' # "completed"
    BY <1>12, <2>1, <1>n DEF Execute, Start, Call, Condition, Human, Save, Iterate, Abort, SetStatus
  (* One phase changes, and perhaps the record of its step.                    *)
  <2>m. ASSUME NEW p \in {"work", "ok", "bad", "ended", "failed"}, run.phase[k] \in {"start", "work", "ok", "bad"},
               k = 0 => AllIdle \/ run.phase[k] \in {"ok", "bad"},
               run'.pc = run.pc, run'.pos = run.pos,
               \A j \in 0..MaxSubs : run'.phase[j] = IF j = k THEN p ELSE run.phase[j],
               \A r \in records' : r \in records \/ (r[1] = run.pos /\ r[2] = k),
               Dirty(k)' \/ (k \in Nested /\ run.phase[0] \in {"bad", "failed"}),
               k = 0 /\ run.phase[0] = "ok" => p \in {"ended", "failed"},
               k = 0 /\ run.phase[0] = "bad" => p = "failed"
        PROVE  CleanInv'
    <3>1. \A j \in 0..MaxSubs : j # k /\ Dirty(j) => Dirty(j)'
      BY <2>m DEF Dirty
    <3>2. CASE k = 0
      <4>1. run'.phase[0] = p /\ \A j \in Nested : run'.phase[j] = run.phase[j] /\ j # k /\ j \in 0..MaxSubs
        BY <2>m, <3>2, <1>p
      <4>2. CASE AllIdle
        <5>1. Shape'
          BY <2>1, <2>m, <3>2, <4>2, OwnMove
        <5>2. run.phase[0] = "bad" => p = "failed"
          BY <2>m, <3>2
        <5>3. run'.phase[0] \in {"bad", "failed"} \/ \A j \in Nested : Dirty(j)'
          BY <2>1, <2>m, <3>1, <3>2, <4>1, <5>2 DEF CleanStep
        <5> QED BY <1>c, <2>1, <2>2, <2>m, <3>2, <5>1, <5>3, <1>p
      <4>3. CASE ~ AllIdle /\ run.phase[0] \in {"ok", "bad"}
        <5>1. Step' = Step /\ Subs' = Subs /\ Step.type # "loop" /\ Step.type \notin LeafTypes
          BY <2>1, <2>m, <4>3 DEF Shape, Step, Subs
        <5>2. p \in {"ended", "failed"} /\ (p = "ended" => run.phase[0] = "ok")
          BY <2>m, <3>2, <4>3
        <5>3. Shape'
          BY <2>1, <4>1, <4>3, <5>1, <5>2 DEF Shape
        <5>4. run'.phase[0] \in {"bad", "failed"} \/ \A j \in Nested : Dirty(j)'
          BY <2>1, <3>1, <4>1, <5>2 DEF CleanStep
        <5> QED BY <1>c, <2>1, <2>2, <2>m, <3>2, <5>3, <5>4, <1>p
      <4> QED BY <2>m, <3>2, <4>2, <4>3
    <3>3. CASE k \in Nested
      <4>1. Shape'
        BY <2>1, <2>m, <3>3, NestedMove
      <4>2. k # 0 /\ run'.phase[0] = run.phase[0] /\ Dirty(0)'
        BY <2>1, <2>m, <3>1, <3>3, <1>p
      <4>3. run'.phase[0] \in {"bad", "failed"} \/ \A j \in Nested : Dirty(j)'
        BY <2>1, <2>m, <3>1, <4>2, <1>p DEF CleanStep
      <4> QED BY <1>c, <2>1, <2>2, <2>m, <4>1, <4>2, <4>3
    <3> QED BY <2>1, <3>2, <3>3
  (* Its own records are clean unless the step has failed already.             *)
  <2>3. Dirty(k) \/ (k \in Nested /\ run.phase[0] \in {"bad", "failed"})
    BY <2>1 DEF CleanStep
  <2>4. CASE Start(k)
    <3>1. run.phase[k] = "start" /\ (k = 0 => AllIdle)
      BY <2>1, <2>4 DEF Start, In, Shape
    <3>2. PICK p \in {"bad", "work", "failed"} : Enter(k, p) /\ (k = 0 => p # "failed")
      BY <2>4 DEF Start, Shared
    <3>3. /\ run'.pc = run.pc /\ run'.pos = run.pos
          /\ \A j \in 0..MaxSubs : run'.phase[j] = IF j = k THEN p ELSE run.phase[j]
      BY <3>2, EnterFacts
    <3>4. Record(k, "running")
      BY <2>4 DEF Start
    <3>5. \A r \in records' : r \in records \/ (r[1] = run.pos /\ r[2] = k /\ r[3] = "running")
      BY <3>4 DEF Record
    <3>6. Dirty(k) => Dirty(k)'
      BY <3>1, <3>2, <3>3, <3>5 DEF Dirty
    <3> QED BY <2>m, <2>3, <3>1, <3>2, <3>3, <3>5, <3>6
  <2>5. CASE Call(k) \/ Condition(k) \/ Human(k)
    <3>1. run.phase[k] = "work" /\ (k = 0 => AllIdle) /\ UNCHANGED records
      BY <2>1, <2>5 DEF Call, Condition, Human, In, Shape
    <3>2. /\ run'.pc = run.pc /\ run'.pos = run.pos
          /\ \E p \in {"ok", "bad"} : \A j \in 0..MaxSubs : run'.phase[j] = IF j = k THEN p ELSE run.phase[j]
      <4>1. CASE Call(k)
        BY <4>1, CallFacts DEF Call
      <4>2. CASE Condition(k)
        BY <4>2, ConditionFacts
      <4>3. CASE Human(k)
        BY <4>3 DEF Human, TypeInv, WorkflowTypeOK
      <4> QED BY <2>5, <4>1, <4>2, <4>3
    <3>3. PICK p \in {"ok", "bad"} : \A j \in 0..MaxSubs : run'.phase[j] = IF j = k THEN p ELSE run.phase[j]
      BY <3>2
    <3>4. Dirty(k) => Dirty(k)'
      BY <3>1, <3>2, <3>3 DEF Dirty
    <3> QED BY <2>m, <2>3, <3>1, <3>2, <3>3, <3>4
  <2>6. CASE Save(k)
    <3>1. /\ run.phase[k] \in {"ok", "bad"}
          /\ \/ run.phase[k] = "ok" /\ Enter(k, "ended") /\ Record(k, "completed")
             \/ Enter(k, "failed") /\ Record(k, "failed")
      BY <2>6 DEF Save, In
    <3>2. PICK p \in {"ended", "failed"}, s \in {"completed", "failed"} :
             /\ Enter(k, p) /\ Record(k, s)
             /\ s = "failed" <=> p = "failed"
             /\ p = "ended" => run.phase[k] = "ok"
      BY <3>1
    <3>3. /\ run'.pc = run.pc /\ run'.pos = run.pos
          /\ \A j \in 0..MaxSubs : run'.phase[j] = IF j = k THEN p ELSE run.phase[j]
      BY <3>2, EnterFacts
    <3>4. /\ \A r \in records' : r \in records \/ (r[1] = run.pos /\ r[2] = k /\ r[3] = s)
          /\ <<run.pos, k, "running">> \notin records'
      BY <3>2, RecordFacts
    <3>5. Dirty(k) => Dirty(k)'
      BY <3>1, <3>2, <3>3, <3>4 DEF Dirty
    <3> QED BY <2>m, <2>3, <3>1, <3>2, <3>3, <3>4, <3>5
  <2>7. CASE Iterate(k)
    <3>1. k # 0 /\ k \in Nested /\ run.phase[k] = "ended" /\ Step.type = "loop" /\ UNCHANGED <<status, records>>
      BY <2>1, <2>7 DEF Iterate, In
    <3>2. run.phase[0] = "wait" /\ \A j \in Nested : j # k => run.phase[j] = "idle"
      BY <2>1, <3>1 DEF Shape, AllIdle
    <3>3. \A j \in Nested : Dirty(j)
      BY <2>1, <3>2 DEF CleanStep
    <3>4. Step' = Step /\ run'.pc = run.pc /\ run'.pos = run.pos
      BY <2>1, <2>7, IterateFacts DEF Step
    <3>5. CASE \E i \in Nat \ {0} : \A j \in 0..MaxSubs :
                 run'.phase[j] = IF j = i THEN "start" ELSE IF j = k THEN "idle" ELSE run.phase[j]
      <4>1. PICK i \in Nat \ {0} : \A j \in 0..MaxSubs :
                 run'.phase[j] = IF j = i THEN "start" ELSE IF j = k THEN "idle" ELSE run.phase[j]
        BY <3>5
      <4>2. run'.phase[0] = "wait" /\ \A j \in Nested : j # i => run'.phase[j] = "idle"
        BY <3>1, <3>2, <4>1, <1>p
      <4>3. Shape'
        BY <3>1, <3>4, <4>2 DEF Shape, LeafTypes
      <4>4. \A j \in Nested : run.phase[j] \in {"idle", "ended"}
        BY <3>1, <3>2
      <4>5. Dirty(0)' /\ \A j \in Nested : Dirty(j)'
        BY <2>1, <3>1, <3>2, <3>3, <3>4, <4>2, <4>4 DEF Dirty
      <4> QED BY <1>c, <2>1, <2>2, <3>1, <3>4, <4>3, <4>5
    <3>6. CASE \A j \in 0..MaxSubs : run'.phase[j] = IF j = 0 THEN "ok" ELSE IF j = k THEN "idle" ELSE run.phase[j]
      <4>1. run'.phase[0] = "ok" /\ \A j \in Nested : run'.phase[j] = "idle"
        BY <3>1, <3>2, <3>6, <1>p
      <4>2. Shape'
        BY <3>1, <3>4, <4>1 DEF Shape, AllIdle
      <4>3. \A j \in Nested : run.phase[j] \in {"idle", "ended"}
        BY <3>1, <3>2
      <4>4. Dirty(0)' /\ \A j \in Nested : Dirty(j)'
        BY <2>1, <3>1, <3>2, <3>3, <3>4, <4>1, <4>3 DEF Dirty
      <4> QED BY <1>c, <2>1, <2>2, <3>1, <3>4, <4>2, <4>4
    <3> QED BY <2>7, <3>5, <3>6, IterateFacts
  <2>8. CASE Abort(k)
    <3>1. k # 0 /\ k \in Nested /\ run.phase[k] = "failed" /\ Step.type = "loop" /\ UNCHANGED <<status, records>>
      BY <2>1, <2>8 DEF Abort, In
    <3>2. run.phase[0] = "wait" /\ \A j \in Nested : j # k => run.phase[j] = "idle"
      BY <2>1, <3>1 DEF Shape, AllIdle
    <3>3. /\ Step' = Step /\ run'.pc = run.pc /\ run'.pos = run.pos
          /\ run'.phase[0] = "bad" /\ \A j \in Nested : run'.phase[j] = "idle"
      BY <2>1, <2>8, <3>1, <3>2, <1>p, AbortFacts DEF Step
    <3>4. Shape'
      BY <3>1, <3>3 DEF Shape, AllIdle
    <3>5. Dirty(0)'
      BY <2>1, <3>1, <3>2, <3>3 DEF Dirty
    <3> QED BY <1>c, <2>1, <2>2, <3>1, <3>3, <3>4, <3>5
  <2> QED BY <1>12, <2>4, <2>5, <2>6, <2>7, <2>8 DEF Execute
<1>11. CASE Fail
  BY <1>11, <1>h, <1>n DEF Fail, SetStatus, Statuses, In
<1>13. ASSUME NEW q \in Requests, Ask(q) \/ Stop(q) \/ Approve(q) PROVE CleanInv'
  BY <1>13 DEF Ask, Stop, Approve, CleanInv, CompletedIsClean, CleanStep, Shape, AllIdle, Dirty, Step, Subs
<1>14. CASE UNCHANGED vars
  BY <1>14 DEF vars, CleanInv, CompletedIsClean, CleanStep, Shape, AllIdle, Dirty, Step, Subs
<1> QED
  BY <1>1, <1>2, <1>3, <1>4, <1>5, <1>6, <1>7, <1>8, <1>9, <1>10, <1>11, <1>12, <1>13, <1>14 DEF Next, Run

LEMMA CleanInit == Init => CleanInv
  BY DEF Init, CleanInv, CompletedIsClean

(* For any workflow, however its nested steps and the requests interleave, a   *)
(* completed execution has left no step failed or running.                     *)
THEOREM CompletedClean == Spec => []CompletedIsClean
<1>1. CleanInv => CompletedIsClean
  BY DEF CleanInv
<1> QED BY <1>1, TypeHolds, CleanInit, CleanStepLemma, PTL DEF Spec
------------------------------------------------------------------------------
(* The steps at work on calls of a type: each may still be counted.            *)
Counted == {"agent", "tool"}
Working(t) == {k \in 0..MaxSubs : run.pc = "step" /\ run.phase[k] = "work" /\ TypeOf(k) = t}
(* An execution that will not complete, because a step of it has failed.       *)
Doomed ==
  \/ run.pc = "done" /\ status # "completed"
  \/ /\ run.pc = "step"
     /\ \/ run.phase[0] \in {"bad", "failed"}
        \/ run.phase[0] = "wait" /\ \E k \in Nested : run.phase[k] \in {"bad", "failed"}
LimitInv ==
  /\ \A t \in Counted :
       Limit(t) # NoLimit =>
         /\ Used(t) + Cardinality(Working(t)) <= Limit(t) + Overrun
         /\ Used(t) > Limit(t) => Doomed
  /\ run.pc = "step" => run.phase[0] # "idle"

LEMMA LimitTypes ==
  ASSUME TypeInv, NEW t \in Counted
  PROVE  /\ Limit(t) \in Int /\ Used(t) \in Nat /\ Overrun \in Nat
         /\ IsFiniteSet(Working(t)) /\ Cardinality(Working(t)) \in Nat
<1>1. Limit(t) \in Int /\ Used(t) \in Nat /\ Overrun \in Nat
  BY DEF TypeInv, WorkflowTypeOK, Counted, Limit, Used, Overrun, WorkflowAssumption
<1>2. IsFiniteSet(0..MaxSubs) /\ Working(t) \subseteq 0..MaxSubs
  BY FS_Interval DEF Working, WorkflowAssumption
<1>3. IsFiniteSet(Working(t))
  BY <1>2, FS_Subset
<1> QED BY <1>1, <1>3, FS_CardinalityType

(* Nothing is counted, and no step goes to work.                               *)
LEMMA LimitFrame ==
  ASSUME TypeInv, LimitInv, run'.agent = run.agent, run'.tool = run.tool,
         \A t \in Counted : Working(t)' \subseteq Working(t),
         Doomed => Doomed', run'.pc = "step" => run'.phase[0] # "idle"
  PROVE  LimitInv'
<1>1. ASSUME NEW t \in Counted, Limit(t) # NoLimit
      PROVE  /\ Used(t)' + Cardinality(Working(t)') <= Limit(t) + Overrun
             /\ Used(t)' > Limit(t) => Doomed'
  <2>1. Used(t)' = Used(t)
    BY DEF Used
  <2>2. Cardinality(Working(t)') <= Cardinality(Working(t)) /\ Cardinality(Working(t)') \in Nat
    BY LimitTypes, FS_Subset, FS_CardinalityType
  <2>3. /\ Used(t) + Cardinality(Working(t)) <= Limit(t) + Overrun
        /\ Used(t) > Limit(t) => Doomed
    BY <1>1 DEF LimitInv
  <2> QED BY <2>1, <2>2, <2>3, LimitTypes
<1> QED BY <1>1 DEF LimitInv

(* A step that goes on, but not to work, dooms no less than before.            *)
LEMMA LimitMove ==
  ASSUME TypeInv, LimitInv, run.pc = "step", run'.pc = "step", run'.pos = run.pos, flow' = flow,
         run'.agent = run.agent, run'.tool = run.tool, NEW k \in 0..MaxSubs, NEW p,
         \A j \in 0..MaxSubs : run'.phase[j] = IF j = k THEN p ELSE run.phase[j],
         p \notin {"work", "idle"}, run.phase[k] \in {"bad", "failed"} => p \in {"bad", "failed"},
         Doomed => k # 0 \/ run.phase[0] # "wait" \/ p = "bad"
  PROVE  LimitInv'
<1>1. 0 \in 0..MaxSubs /\ \A j \in Nested : j \in 0..MaxSubs
  BY DEF WorkflowAssumption, Nested
<1>2. ASSUME NEW t \in Counted PROVE Working(t)' \subseteq Working(t)
  BY DEF Working, TypeOf, Step
<1>3. Doomed => Doomed'
  BY <1>1 DEF Doomed
<1>4. run'.phase[0] # "idle"
  BY <1>1 DEF LimitInv
<1> QED BY <1>2, <1>3, <1>4, LimitFrame

LEMMA LimitStep == TypeInv /\ CleanInv /\ LimitInv /\ [Next]_vars => LimitInv'
<1> SUFFICES ASSUME TypeInv, CleanInv, LimitInv, [Next]_vars PROVE LimitInv'
  OBVIOUS
<1>t. /\ run \in Runs /\ 0 \in 0..MaxSubs /\ Nested \subseteq 0..MaxSubs /\ 0 \notin Nested
      /\ \A k \in 0..MaxSubs : k = 0 \/ k \in Nested
  BY DEF TypeInv, WorkflowTypeOK, Runs, Nested, WorkflowAssumption
<1>n. run.pc # "done" => status # "completed"
  BY DEF CleanInv, CompletedIsClean
<1>s. run.pc = "step" => Shape
  BY DEF CleanInv, CleanStep
(* The coroutine is not in a step afterwards, nor doomed before.               *)
<1>o. ASSUME run'.pc # "step", run'.agent = run.agent, run'.tool = run.tool, Doomed => Doomed' PROVE LimitInv'
  <2>1. \A t \in Counted : Working(t)' \subseteq Working(t)
    BY <1>o DEF Working
  <2> QED BY <1>o, <2>1, LimitFrame
<1>h. ASSUME NEW x, Halt(x) PROVE run'.pc = "done" /\ run'.agent = run.agent /\ run'.tool = run.tool
  BY <1>h, <1>t DEF Halt, Runs
<1>1. CASE run.pc \in {"load", "mark", "exchange", "head"} /\ (Load \/ Orphaned \/ Mark \/ Exchange \/ CheckStopped \/ Finish)
  <2>1. ~ Doomed
    BY <1>1 DEF Doomed
  <2>2. CASE Load \/ Mark
    <3>1. run'.pc # "step" /\ run'.agent = run.agent /\ run'.tool = run.tool
      BY <2>2, <1>t DEF Load, Mark, Runs
    <3> QED BY <1>o, <2>1, <3>1
  <2>3. CASE Orphaned \/ Finish
    BY <1>h, <1>o, <2>1, <2>3 DEF Orphaned, Finish
  <2>4. CASE Exchange
    <3>1. CASE run' = [run EXCEPT !.pc = "head"]
      <4>1. run'.pc # "step" /\ run'.agent = run.agent /\ run'.tool = run.tool
        BY <3>1, <1>t DEF Runs
      <4> QED BY <1>o, <2>1, <4>1
    <3> QED BY <1>h, <1>o, <2>1, <2>4, <3>1 DEF Exchange
  <2>5. CASE CheckStopped
    <3>1. CASE run' = [run EXCEPT !.view = status, !.pc = "step", !.phase = [Idle EXCEPT ![0] = "start"]]
      <4>1. /\ run'.agent = run.agent /\ run'.tool = run.tool
            /\ \A k \in 0..MaxSubs : run'.phase[k] = IF k = 0 THEN "start" ELSE "idle"
        BY <3>1, <1>t DEF Runs, Idle
      <4>2. \A t \in Counted : Working(t)' \subseteq Working(t)
        BY <4>1 DEF Working
      <4> QED BY <1>t, <2>1, <4>1, <4>2, LimitFrame
    <3> QED BY <1>h, <1>o, <2>1, <2>5, <3>1 DEF CheckStopped
  <2> QED BY <1>1, <2>2, <2>3, <2>4, <2>5
<1>2. CASE Fork \/ Loop
  <2>1. /\ run.pc = "step" /\ run.phase[0] = "work" /\ ~ Doomed
    BY <1>2 DEF Fork, Loop, In, Doomed
  <2>2. /\ run'.agent = run.agent /\ run'.tool = run.tool /\ run'.phase[0] # "idle"
        /\ \A k \in Nested : run'.phase[k] = run.phase[k] \/ run'.phase[k] # "work"
        /\ run'.phase[0] # "work" /\ run'.pc = "step" /\ run'.pos = run.pos /\ flow' = flow
    <3>1. CASE Fork
      <4>1. run' = [run EXCEPT !.phase = [k \in 0..MaxSubs |-> IF k = 0 THEN "wait" ELSE IF k \in Subs THEN "start" ELSE "idle"]]
        BY <3>1 DEF Fork
      <4>2. /\ run'.phase = [k \in 0..MaxSubs |-> IF k = 0 THEN "wait" ELSE IF k \in Subs THEN "start" ELSE "idle"]
            /\ run'.agent = run.agent /\ run'.tool = run.tool /\ run'.pc = run.pc /\ run'.pos = run.pos
        BY <4>1, <1>t DEF Runs
      <4> QED BY <1>t, <2>1, <3>1, <4>2 DEF Fork
    <3>2. ASSUME NEW p \in {"ok", "bad"}, Enter(0, p)
          PROVE  /\ run'.agent = run.agent /\ run'.tool = run.tool /\ run'.pc = run.pc /\ run'.pos = run.pos
                 /\ run'.phase[0] = p /\ \A k \in Nested : run'.phase[k] = run.phase[k]
      BY <3>2, <1>t DEF Enter, Runs
    <3>3. ASSUME NEW n \in 1..MaxItems, run' = [run EXCEPT !.item = n, !.phase[0] = "wait", !.phase[1] = "start"]
          PROVE  /\ run'.agent = run.agent /\ run'.tool = run.tool /\ run'.pc = run.pc /\ run'.pos = run.pos
                 /\ run'.phase[0] = "wait" /\ \A k \in Nested : run'.phase[k] = run.phase[k] \/ run'.phase[k] = "start"
      BY <3>3, <1>t DEF Runs
    <3>4. CASE Loop
      <4>1. flow' = flow
        BY <3>4 DEF Loop
      <4> QED BY <2>1, <3>2, <3>3, <3>4, <4>1 DEF Loop
    <3> QED BY <1>2, <3>1, <3>4
  <2>3. \A t \in Counted : Working(t)' \subseteq Working(t)
    BY <1>t, <2>1, <2>2 DEF Working, TypeOf, Step
  <2> QED BY <2>1, <2>2, <2>3, LimitFrame
<1>3. CASE Join
  <2> DEFINE p == IF \E k \in Subs : run.phase[k] = "failed" THEN "bad" ELSE "ok"
  <2>1. /\ run.pc = "step" /\ run.phase[0] = "wait" /\ run'.pc = run.pc /\ run'.pos = run.pos /\ flow' = flow
        /\ \A j \in 0..MaxSubs : run'.phase[j] = IF j = 0 THEN p ELSE run.phase[j]
        /\ run'.agent = run.agent /\ run'.tool = run.tool
    BY <1>3, <1>t, EnterFacts DEF Join, In, Enter, Runs
  <2>2. Doomed => p = "bad"
    BY <1>3, <1>s, <2>1 DEF Doomed, Shape, Join
  <2>3. p \in {"bad", "ok"}
    OBVIOUS
  <2> HIDE DEF p
  <2> QED BY <1>t, <2>1, <2>2, <2>3, LimitMove
<1>4. CASE Advance
  <2>1. ~ Doomed
    BY <1>4 DEF Advance, In, Doomed
  <2>2. ASSUME NEW n, run' = [run EXCEPT !.pc = "head", !.phase = Idle, !.next = 0, !.pos = n]
        PROVE  run'.pc = "head" /\ run'.agent = run.agent /\ run'.tool = run.tool
    BY <2>2, <1>t DEF Runs
  <2> QED BY <1>4, <1>h, <1>o, <2>1, <2>2 DEF Advance
<1>5. CASE Fail
  <2>1. status' # "completed" /\ run'.pc = "done" /\ run'.agent = run.agent /\ run'.tool = run.tool
    BY <1>5, <1>h, <1>n DEF Fail, In, SetStatus
  <2>2. Doomed'
    BY <2>1 DEF Doomed
  <2> QED BY <1>o, <2>1, <2>2
<1>6. ASSUME NEW k \in 0..MaxSubs, Execute(k) PROVE LimitInv'
  <2>1. run.pc = "step" /\ flow' = flow /\ Shape /\ 0 \in 0..MaxSubs
    BY <1>6, <1>s, <1>t DEF Execute, Start, Call, Condition, Human, Save, Iterate, Abort, In
  <2>e. ASSUME NEW p, Enter(k, p)
        PROVE  /\ run'.pc = "step" /\ run'.pos = run.pos /\ run'.agent = run.agent /\ run'.tool = run.tool
               /\ \A j \in 0..MaxSubs : run'.phase[j] = IF j = k THEN p ELSE run.phase[j]
    BY <1>t, <2>1, <2>e DEF Enter, Runs
  <2>2. CASE Start(k)
    <3>1. PICK p \in {"bad", "work", "failed"} : Enter(k, p)
      BY <2>2 DEF Start
    <3>2. run.phase[k] = "start"
      BY <2>2 DEF Start, In
    <3>3. CASE p # "work"
      BY <2>1, <2>e, <3>1, <3>2, <3>3, LimitMove
    <3>4. CASE p = "work"
      <4> DEFINE t == TypeOf(k)
      <4>1. Limit(t) # NoLimit => Used(t) < Limit(t)
        <5>1. "work" # "failed" /\ "work" # "bad" /\ run'.phase[k] = "work"
          BY <2>e, <3>1, <3>4
        <5>2. \A x : Enter(k, x) => run'.phase[k] = x
          BY <2>e
        <5>3. SUFFICES ASSUME Limit(t) # NoLimit, Used(t) >= Limit(t) PROVE FALSE
          BY <1>t DEF Limit, Used, WorkflowAssumption, Runs
        <5>4. Enter(k, "bad") \/ Enter(k, "failed")
          BY <2>2, <5>3 DEF Start
        <5> QED BY <5>1, <5>2, <5>4
      <4>2. /\ run'.pc = "step" /\ run'.pos = run.pos /\ run'.agent = run.agent /\ run'.tool = run.tool
            /\ \A j \in 0..MaxSubs : run'.phase[j] = IF j = k THEN "work" ELSE run.phase[j]
        BY <2>e, <3>1, <3>4
      <4>3. \A j \in 0..MaxSubs : TypeOf(j)' = TypeOf(j)
        BY <2>1, <4>2 DEF TypeOf, Step
      <4>4. Doomed => Doomed'
        BY <1>t, <3>2, <4>2, <2>1 DEF Doomed
      <4>5. ASSUME NEW u \in Counted, Limit(u) # NoLimit
            PROVE  /\ Used(u)' + Cardinality(Working(u)') <= Limit(u) + Overrun
                   /\ Used(u)' > Limit(u) => Doomed'
        <5>1. Used(u)' = Used(u) /\ (Used(u) > Limit(u) => Doomed)
              /\ Used(u) + Cardinality(Working(u)) <= Limit(u) + Overrun
          BY <4>2, <4>5 DEF Used, LimitInv
        <5>2. CASE u # t
          <6>1. Working(u)' = Working(u)
            BY <2>1, <3>2, <4>2, <4>3, <5>2 DEF Working
          <6> QED BY <4>4, <5>1, <6>1
        <5>3. CASE u = t
          <6>1. Used(u) < Limit(u)
            BY <4>1, <4>5, <5>3
          <6>2. Cardinality(Working(u)') <= Overrun + 1 /\ Cardinality(Working(u)') \in Nat
            <7>1. CASE k = 0
              <8>1. Working(u)' \subseteq {0}
                BY <1>t, <2>1, <3>2, <4>2, <7>1 DEF Working, Shape, AllIdle
              <8>2. IsFiniteSet({0}) /\ Cardinality({0}) = 1
                BY FS_Singleton
              <8>3. Cardinality(Working(u)') <= 1 /\ Cardinality(Working(u)') \in Nat
                BY <8>1, <8>2, FS_Subset, FS_CardinalityType
              <8> QED BY <8>3, LimitTypes
            <7>2. CASE k \in Nested
              <8>1. run.phase[0] # "work" /\ k # 0
                BY <1>t, <2>1, <3>2, <7>2 DEF Shape, AllIdle
              <8>2. Working(u)' \subseteq 1..MaxSubs
                BY <1>t, <4>2, <8>1 DEF Working, Nested
              <8>3. IsFiniteSet(1..MaxSubs) /\ Cardinality(1..MaxSubs) = MaxSubs /\ Overrun + 1 = MaxSubs
                BY <7>2, FS_Interval DEF Nested, Overrun, WorkflowAssumption
              <8> QED BY <8>2, <8>3, FS_Subset, FS_CardinalityType
            <7> QED BY <1>t, <7>1, <7>2
          <6> QED BY <4>4, <5>1, <6>1, <6>2, LimitTypes
        <5> QED BY <5>2, <5>3
      <4>6. run'.phase[0] # "idle"
        BY <1>t, <2>1, <4>2 DEF LimitInv
      <4> QED BY <4>5, <4>6 DEF LimitInv
    <3> QED BY <3>3, <3>4
  <2>3. CASE Call(k)
    <3> DEFINE t == TypeOf(k)
    <3>1. run.phase[k] = "work" /\ t \in Counted
      BY <2>3 DEF Call, In, Counted
    <3>2. CASE Enter(k, "ok") \/ Enter(k, "bad")
      <4>1. Doomed => k # 0 \/ run.phase[0] # "wait"
        BY <3>1
      <4> QED BY <2>1, <2>e, <3>1, <3>2, <4>1, LimitMove
    <3>3. CASE ~ Enter(k, "ok") /\ ~ Enter(k, "bad")
      <4> DEFINE p == IF Used(t) + 1 > Limit(t) THEN "bad" ELSE "ok"
                 a == IF t = "agent" THEN run.agent + 1 ELSE run.agent
                 b == IF t = "tool" THEN run.tool + 1 ELSE run.tool
      <4>1. Limit(t) # NoLimit /\ run' = [run EXCEPT !.phase[k] = p, !.agent = a, !.tool = b]
        BY <2>3, <3>3 DEF Call, Update
      <4>2. /\ run'.pc = "step" /\ run'.pos = run.pos /\ run'.agent = a /\ run'.tool = b
            /\ \A j \in 0..MaxSubs : run'.phase[j] = IF j = k THEN p ELSE run.phase[j]
        <5> HIDE DEF p, a, b
        <5> QED BY <1>t, <2>1, <4>1 DEF Runs
      <4>3. \A j \in 0..MaxSubs : TypeOf(j)' = TypeOf(j)
        BY <2>1, <4>2 DEF TypeOf, Step
      <4>4. Doomed => Doomed'
        <5>1. p # "work" /\ \A j \in 0..MaxSubs : j # k => run'.phase[j] = run.phase[j]
          BY <4>2
        <5> HIDE DEF p
        <5> QED BY <1>t, <2>1, <3>1, <4>2, <5>1 DEF Doomed
      <4>5. p = "bad" => Doomed'
        <5>1. SUFFICES ASSUME p = "bad" PROVE Doomed'
          OBVIOUS
        <5>2. run'.phase[k] = "bad" /\ \A j \in 0..MaxSubs : j # k => run'.phase[j] = run.phase[j]
          BY <4>2, <5>1
        <5> HIDE DEF p
        <5>3. CASE k = 0
          BY <4>2, <5>2, <5>3 DEF Doomed
        <5>4. CASE k \in Nested
          <6>1. k # 0 /\ Step.type \notin LeafTypes /\ run.phase[0] \notin {"start", "work"} /\ Step.type \in StepTypes
            BY <1>t, <2>1, <3>1, <5>4, StepType DEF Shape, AllIdle
          <6>2. run.phase[0] \in Phases /\ run.phase[0] # "idle"
            BY <1>t, <2>1 DEF Runs, LimitInv
          <6>3. run.phase[0] \notin {"ok", "ended"}
            BY <1>t, <2>1, <3>1, <5>4, <6>1 DEF Shape, AllIdle, StepTypes
          <6>4. run.phase[0] \in {"wait", "bad", "failed"}
            BY <6>1, <6>2, <6>3 DEF Phases
          <6> QED BY <1>t, <4>2, <5>2, <5>4, <6>1, <6>4 DEF Doomed
        <5> QED BY <1>t, <5>3, <5>4
      <4>6. ASSUME NEW u \in Counted, Limit(u) # NoLimit
            PROVE  /\ Used(u)' + Cardinality(Working(u)') <= Limit(u) + Overrun
                   /\ Used(u)' > Limit(u) => Doomed'
        <5>1. /\ Used(u) > Limit(u) => Doomed
              /\ Used(u) + Cardinality(Working(u)) <= Limit(u) + Overrun
          BY <4>6 DEF LimitInv
        <5>2. p # "work"
          OBVIOUS
        <5>3. CASE u # t
          <6>1. Used(u)' = Used(u)
            BY <3>1, <4>2, <5>3 DEF Used, Counted
          <6>2. Working(u)' = Working(u)
            <7> HIDE DEF p
            <7> QED BY <2>1, <4>2, <4>3, <5>2, <5>3 DEF Working
          <6> QED BY <4>4, <5>1, <6>1, <6>2
        <5>4. CASE u = t
          <6>1. Used(u)' = Used(u) + 1
            BY <3>1, <4>2, <5>4 DEF Used, Counted
          <6>2. Working(u)' = Working(u) \ {k} /\ k \in Working(u)
            <7> HIDE DEF p
            <7> QED BY <2>1, <3>1, <4>2, <4>3, <5>2, <5>4 DEF Working
          <6>3. Cardinality(Working(u)') = Cardinality(Working(u)) - 1
            BY <6>2, LimitTypes, FS_RemoveElement
          <6>4. Used(u)' > Limit(u) => Doomed'
            BY <4>5, <5>4, <6>1
          <6> QED BY <5>1, <6>1, <6>3, <6>4, LimitTypes
        <5> QED BY <5>3, <5>4
      <4>7. run'.phase[0] # "idle"
        <5>1. p # "idle" /\ run.phase[0] # "idle"
          BY <2>1 DEF LimitInv
        <5> HIDE DEF p
        <5> QED BY <1>t, <4>2, <5>1
      <4> QED BY <4>6, <4>7 DEF LimitInv
    <3> QED BY <3>2, <3>3
  <2>4. CASE Condition(k) \/ Human(k)
    <3>1. run.phase[k] = "work"
      BY <2>4 DEF Condition, Human, In
    <3>2. /\ run'.pc = "step" /\ run'.pos = run.pos /\ run'.agent = run.agent /\ run'.tool = run.tool
          /\ \E p \in {"ok", "bad"} : \A j \in 0..MaxSubs : run'.phase[j] = IF j = k THEN p ELSE run.phase[j]
      <4>1. CASE Human(k)
        BY <1>t, <2>1, <4>1 DEF Human, Runs
      <4>2. CASE Enter(k, "bad")
        BY <2>e, <4>2
      <4>3. ASSUME NEW m, run' = [run EXCEPT !.phase[k] = "ok", !.next = m]
            PROVE  /\ run'.pc = "step" /\ run'.pos = run.pos /\ run'.agent = run.agent /\ run'.tool = run.tool
                   /\ \A j \in 0..MaxSubs : run'.phase[j] = IF j = k THEN "ok" ELSE run.phase[j]
        BY <1>t, <2>1, <4>3 DEF Runs
      <4> QED BY <2>4, <4>1, <4>2, <4>3 DEF Condition
    <3>3. PICK p \in {"ok", "bad"} : \A j \in 0..MaxSubs : run'.phase[j] = IF j = k THEN p ELSE run.phase[j]
      BY <3>2
    <3> QED BY <2>1, <3>1, <3>2, <3>3, LimitMove
  <2>5. CASE Save(k)
    <3>1. PICK p \in {"ended", "failed"} : Enter(k, p) /\ run.phase[k] \in {"ok", "bad"} /\ (run.phase[k] = "bad" => p = "failed")
      BY <2>5 DEF Save, In
    <3> QED BY <2>1, <2>e, <3>1, LimitMove
  <2>6. CASE Iterate(k) \/ Abort(k)
    <3>1. k \in Nested /\ run.phase[k] # "idle" /\ (Iterate(k) => run.phase[k] = "ended")
      BY <1>t, <2>6 DEF Iterate, Abort, In
    <3>2. Step.type = "loop"
      BY <2>6 DEF Iterate, Abort
    <3>3. run.phase[0] = "wait" /\ \A j \in Nested : j # k => run.phase[j] = "idle"
      BY <2>1, <3>1, <3>2 DEF Shape, AllIdle
    <3>4. run'.pc = "step" /\ run'.pos = run.pos /\ run'.agent = run.agent /\ run'.tool = run.tool
      <4>1. CASE Abort(k)
        BY <1>t, <2>1, <4>1 DEF Abort, Runs
      <4>2. CASE run' = [run EXCEPT !.phase[k] = "idle", !.phase[k + 1] = "start"]
        BY <1>t, <2>1, <4>2 DEF Runs
      <4>3. ASSUME NEW i, run' = [run EXCEPT !.phase[k] = "idle", !.item = i, !.phase[1] = "start"]
            PROVE  run'.pc = "step" /\ run'.pos = run.pos /\ run'.agent = run.agent /\ run'.tool = run.tool
        BY <1>t, <2>1, <4>3 DEF Runs
      <4>4. CASE run' = [run EXCEPT !.phase[k] = "idle", !.item = 0, !.phase[0] = "ok"]
        BY <1>t, <2>1, <4>4 DEF Runs
      <4> QED BY <2>6, <4>1, <4>2, <4>3, <4>4 DEF Iterate
    <3>5. CASE Iterate(k)
      <4>1. ~ Doomed
        BY <2>1, <3>1, <3>3, <3>5 DEF Doomed
      <4>2. /\ run'.phase[0] \in {"wait", "ok"}
            /\ \A j \in 0..MaxSubs : run'.phase[j] # "work"
        <5>1. \A j \in 0..MaxSubs : run.phase[j] # "work"
          BY <1>t, <3>1, <3>3, <3>5
        <5> QED BY <1>t, <3>1, <3>3, <3>5, <5>1, IterateFacts
      <4>3. \A t \in Counted : Working(t)' \subseteq Working(t)
        BY <4>2 DEF Working
      <4> QED BY <3>4, <4>1, <4>2, <4>3, LimitFrame
    <3>6. CASE Abort(k)
      <4>1. run'.phase[0] = "bad" /\ \A j \in 0..MaxSubs : run'.phase[j] # "work"
        BY <1>t, <3>1, <3>3, <3>6, AbortFacts
      <4>2. Doomed' /\ \A t \in Counted : Working(t)' \subseteq Working(t)
        BY <3>4, <4>1 DEF Working, Doomed
      <4> QED BY <3>4, <4>1, <4>2, LimitFrame
    <3> QED BY <2>6, <3>5, <3>6
  <2> QED BY <1>6, <2>2, <2>3, <2>4, <2>5, <2>6 DEF Execute
<1>7. CASE (\E q \in Requests : Ask(q) \/ Stop(q) \/ Approve(q)) \/ UNCHANGED vars
  <2>1. run' = run /\ flow' = flow /\ (status' = status \/ status' # "completed")
    BY <1>7 DEF Ask, Stop, Approve, vars
  <2>2. (Doomed => Doomed') /\ \A t \in Counted : Working(t)' \subseteq Working(t)
    BY <2>1 DEF Doomed, Working, TypeOf, Step
  <2>3. run.pc = "step" => run.phase[0] # "idle"
    BY DEF LimitInv
  <2> QED BY <2>1, <2>2, <2>3, LimitFrame
<1>8. (Load \/ Orphaned \/ Mark \/ Exchange \/ CheckStopped \/ Finish) => run.pc \in {"load", "mark", "exchange", "head"}
  BY DEF Load, Orphaned, Mark, Exchange, CheckStopped, Finish
<1> QED BY <1>1, <1>2, <1>3, <1>4, <1>5, <1>6, <1>7, <1>8 DEF Next, Run

LEMMA LimitInit == Init => LimitInv
<1> SUFFICES ASSUME Init PROVE LimitInv
  OBVIOUS
<1>1. TypeInv
  BY TypeInit
<1>2. run.pc = "load" /\ run.agent = 0 /\ run.tool = 0
  BY DEF Init
<1>3. \A t \in Counted : Used(t) = 0 /\ Working(t) = {}
  BY <1>2 DEF Used, Working
<1>4. \A t \in Counted : Limit(t) # NoLimit => Limit(t) \in Nat
  BY DEF Limit, WorkflowAssumption
<1>5. Cardinality({}) = 0
  BY FS_EmptySet
<1>6. ASSUME NEW t \in Counted, Limit(t) # NoLimit
      PROVE  Used(t) + Cardinality(Working(t)) <= Limit(t) + Overrun /\ ~ (Used(t) > Limit(t))
  BY <1>1, <1>3, <1>4, <1>5, <1>6, LimitTypes
<1> QED BY <1>2, <1>6 DEF LimitInv

(* For any workflow and any limits, however many nested steps pass the check   *)
(* together: the calls exceed a limit by the other nested steps at most, and   *)
(* an execution that exceeded one does not complete.                           *)
THEOREM LimitsHold == Spec => []LimitsKept
<1>1. TypeInv /\ CleanInv /\ LimitInv => LimitsKept
  <2> SUFFICES ASSUME TypeInv, CleanInv, LimitInv PROVE LimitsKept
    OBVIOUS
  <2>1. status = "completed" => ~ Doomed
    BY DEF CleanInv, CompletedIsClean, Doomed
  <2>2. ASSUME NEW t \in Counted, Limit(t) # NoLimit
        PROVE  Used(t) <= Limit(t) + Overrun /\ (status = "completed" => Used(t) <= Limit(t) + 0)
    <3>1. Used(t) + Cardinality(Working(t)) <= Limit(t) + Overrun /\ (Used(t) > Limit(t) => Doomed)
      BY <2>2 DEF LimitInv
    <3> QED BY <2>1, <3>1, LimitTypes
  <2>3. Limit("agent") = AgentLimit /\ Used("agent") = run.agent /\ Limit("tool") = ToolLimit /\ Used("tool") = run.tool
    BY DEF Limit, Used
  <2> QED BY <2>2, <2>3 DEF LimitsKept, WithinLimit, Counted
<1> QED BY <1>1, TypeHolds, CleanInit, CleanStepLemma, LimitInit, LimitStep, PTL DEF Spec
==============================================================================
