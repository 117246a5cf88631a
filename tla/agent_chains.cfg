SPECIFICATION Spec
INVARIANT ChainBounded
PROPERTY ChainFlows
CONSTANTS
  q1 = q1  q2 = q2
  Requests <- OneRequest
  Ops <- StopOnly
  Triggers <- WebhookOnly
  Targets <- AllTargets
  Starters <- UserOnly
  MaxContinuations = 1
  MaxExecs = 3
  MaxRunners = 2
  MaxRestarts = 0
CHECK_DEADLOCK FALSE
