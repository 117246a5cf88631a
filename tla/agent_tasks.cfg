SPECIFICATION Spec
INVARIANT TaskTypeOK
INVARIANT PauseTakesEffect
INVARIANT ActiveIsScheduled
CONSTANTS
  q1 = q1  q2 = q2
  Requests <- TwoRequests
  Ops <- ScheduleOps
  Triggers <- AllTriggers
  Targets <- AgentOnly
  Starters <- Automatic
  MaxContinuations = 0
  MaxExecs = 2
  MaxRunners = 2
  MaxRestarts = 1
SYMMETRY Symmetry
CHECK_DEADLOCK FALSE
