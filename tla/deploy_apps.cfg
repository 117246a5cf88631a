SPECIFICATION Spec
INVARIANT DeployTypeOK
INVARIANT CompletedIsUp
INVARIANT StoppedStaysDown
INVARIANT PortsAreOwn
CONSTANTS
  a1 = a1  a2 = a2
  q1 = q1  q2 = q2
  Apps <- TwoApps
  NoApp = none
  Dev <- TwoApps
  Requests <- TwoRequests
  Dynamic <- Range
  Reserved <- Taken
  Prefs <- Wanted
  Faults <- AllFaults
  MaxRequests = 3
SYMMETRY Symmetry
CHECK_DEADLOCK FALSE
