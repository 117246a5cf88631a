------------------------------- MODULE MCDeploy -------------------------------
(* Values of the constants of AppDeploy for TLC.                               *)
EXTENDS DeployProperties, TLC

CONSTANTS a1, a2, q1, q2

TwoApps     == {a1, a2}
TwoRequests == {q1, q2}
(* One port of the range; manifests ask for none, a reserved one, another.      *)
Range       == {2}
Taken       == {1}
Wanted      == {0, 1, 3}
AllFaults   == {"error", "lost", "restart"}

Symmetry == Permutations(Apps) \cup Permutations(Requests)
==============================================================================
