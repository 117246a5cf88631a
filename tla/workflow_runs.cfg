SPECIFICATION Spec
INVARIANT WorkflowTypeOK
INVARIANT StopTakesEffect
INVARIANT CompletedIsClean
INVARIANT LimitsKept
PROPERTY RunEnds
CONSTANTS
  q1 = q1  q2 = q2  a1 = a1
  Workflows <- All
  Stoppers <- TwoStops
  Approvers <- OneApproval
  AgentLimit = 2
  ToolLimit = 3
  MaxItems = 2
  MaxSubs = 3
CHECK_DEADLOCK FALSE
