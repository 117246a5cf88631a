---------------------------- MODULE IngestService -----------------------------
(* What the ingestion service promises whoever uploads a file: a file accepted *)
(* for processing is owed work until its status is settled, it does get        *)
(* settled, and once nothing is owed its status is final.                      *)
EXTENDS Naturals

CONSTANT Files

VARIABLES
  state,     \* of a file: unknown, accepted (in progress) or settled
  owed       \* files some job is still to work on

serviceVars == <<state, owed>>

States == {"unknown", "accepted", "settled"}

ServiceInit ==
  /\ state = [f \in Files |-> "unknown"]
  /\ owed = {}

Become(f, s) == state' = [state EXCEPT ![f] = s]

(* An upload that needs processing, and one that needs none.                   *)
Accept(f) == state[f] = "unknown" /\ Become(f, "accepted") /\ owed' = owed \cup {f}
AcceptDone(f) == state[f] = "unknown" /\ Become(f, "settled") /\ UNCHANGED owed

(* Only work that is owed changes a status; a redelivered job may open it again. *)
Settle(f) == state[f] = "accepted" /\ f \in owed /\ Become(f, "settled") /\ UNCHANGED owed
Reopen(f) == state[f] = "settled" /\ f \in owed /\ Become(f, "accepted") /\ UNCHANGED owed

(* Work stops being owed only when the status is settled.                      *)
Close(f) == f \in owed /\ state[f] = "settled" /\ owed' = owed \ {f} /\ UNCHANGED state

ServiceNext ==
  \E f \in Files : Accept(f) \/ AcceptDone(f) \/ Settle(f) \/ Reopen(f) \/ Close(f)

(* Every accepted file is settled at some time, and the work owed on it ends.  *)
ServiceFairness ==
  \A f \in Files :
     /\ WF_serviceVars(Settle(f))
     /\ SF_serviceVars(Close(f))

ServiceSpec == ServiceInit /\ [][ServiceNext]_serviceVars /\ ServiceFairness
==============================================================================
