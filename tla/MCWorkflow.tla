------------------------------ MODULE MCWorkflow ------------------------------
(* Values of the constants of WorkflowEngine for TLC.                          *)
EXTENDS WorkflowProperties

CONSTANTS q1, q2, a1

TwoStops    == {q1, q2}
OneApproval == {a1}

Leaf(t)      == [type |-> t, then |-> 0, else |-> 0, subs |-> <<>>]
If(n, m)     == [type |-> "condition", then |-> n, else |-> m, subs |-> <<>>]
Nest(t, s)   == [type |-> t, then |-> 0, else |-> 0, subs |-> s]

(* A cycle through an agent, a branch over a human step, parallel calls, loops *)
(* with a human step and a condition nested in them.                           *)
Cycle    == <<Leaf("agent"), If(1, 3), Leaf("tool")>>
Approval == <<If(3, 2), Leaf("human"), Leaf("tool")>>
Fan      == <<Leaf("agent"), Nest("parallel", <<"agent", "agent", "agent">>), Leaf("tool")>>
Each     == <<Nest("loop", <<"agent", "human">>), Leaf("tool"), Leaf("human")>>
Mixed    == <<Nest("parallel", <<"human", "tool">>), Nest("loop", <<"condition", "tool">>), Leaf("agent")>>
All      == {Cycle, Approval, Fan, Each, Mixed}
==============================================================================
