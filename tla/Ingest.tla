------------------------------- MODULE Ingest --------------------------------
(* The ingestion service: API requests, the streams and the workers together.  *)
EXTENDS IngestWorker

vars == <<streamVars, storeVars, apiVars, workerVars>>

Init == StreamInit /\ StoreInit /\ APIInit /\ WorkerInit

Next ==
  \/ \E f \in Files : APIStep(f) /\ UNCHANGED workerVars
  \/ \E m \in Pending : BecomeIdle(m)
  \/ \E w \in Workers : WorkerStep(w)

Spec == Init /\ [][Next]_vars

TypeOK == StreamTypeOK /\ StoreTypeOK /\ APITypeOK /\ WorkerTypeOK
==============================================================================
