--------------------------- MODULE IngestProperties ---------------------------
(* What must be true of the ingestion service, and the fairness under which    *)
(* it makes progress.                                                          *)
EXTENDS Ingest

(* Messages of f the group has yet to deliver or to see acknowledged.          *)
Outstanding(f) == {m \in unread \cup Pending : log[m].file = f}

Unsettled(f) == f \in row /\ upload[f] = "done" /\ stage[f] \notin Settled

Busy(f) == \E w \in Workers : Working(w) /\ File(w) = f

(* Some message of f is in the streams, or a worker is on f: _claim dead-letters *)
(* by times_delivered alone, so it may drop the message of a job in progress.  *)
Owed(f) == upload[f] = "done" /\ (Outstanding(f) # {} \/ Busy(f))

(* No accepted file is forgotten: as long as its status is not settled, it is  *)
(* owed work, or the request that adds a job is under way (the order of retry, *)
(* pass 2 and acknowledgement in process_job, and the claims of run).          *)
NoFileForgotten ==
  \A f \in Files : Unsettled(f) => Owed(f) \/ reproc[f].step # "none"

(* should_retry reads the retry count, requeue_job reads it again and writes   *)
(* it back: two workers that handle jobs of one file exceed max_retries by one *)
(* at most, whatever they make stale in between (while the database answers).  *)
(* A third worker could lose an update and go further.                         *)
RetryBound ==
  "db" \notin Faults /\ Cardinality(Workers) <= 2 =>
     \A f \in Files : retries[f] < MaxRetries + Cardinality(Workers)

(* A message that never gets acknowledged is delivered a bounded number of     *)
(* times, though workers judge times_delivered on a snapshot that others have  *)
(* made stale.                                                                 *)
DeliveryBound ==
  \A m \in Pending : pel[m] <= MaxDeliver + Cardinality(Workers)

(* Writing after a delete resurrects nothing: a job that is still running when *)
(* its file is deleted leaves no status, chunks or retry count behind.         *)
NoResurrection ==
  \A f \in Files \ row :
     stage[f] = "none" /\ retries[f] = 0 /\ f \notin chunks /\ f \notin md

(* Nothing is left to do on f.                                                 *)
Quiet(f) == Outstanding(f) = {} /\ ~ Busy(f) /\ reproc[f].step = "none"

(* A document with text that is reported completed, with nothing left to do on *)
(* it, can be found by search: its content has vectors, its own or those of    *)
(* the file whose duplicate it is (the order of embedding, indexing and        *)
(* completion; the duplicate checks of worker and API).  A document in which   *)
(* no text is found is completed without vectors.                              *)
CompletedIsSearchable ==
  \A f \in row :
     stage[f] = "completed" /\ Kind[f] # "media" /\ HasText(f) /\ Quiet(f)
       => \E g \in Files : Hash[g] = Hash[f] /\ vecs[g] > 0

(* Milvus appends, so a second run of a job would double the vectors of the    *)
(* file: there is one copy for the first run and at most one for each retry.   *)
NoExtraVectors ==
  \A f \in Files : f \in row => vecs[f] <= 1 + retries[f]

(* A completed file stays as it is until somebody asks for it: redelivered,    *)
(* retried and late jobs leave its vectors and chunks alone, and only the      *)
(* error handler may still take its status away (to queued or failed).         *)
Asked(f) ==
  reproc[f].step # "none" \/ reproc'[f].step # "none" \/ deletion[f] # "none" \/ canceling[f] = "write"
CompletedIsFinal ==
  [][\A f \in row :
       stage[f] = "completed" /\ ~ Asked(f) /\ f \in row'
         => /\ stage'[f] \in {"completed", "queued", "failed"} /\ vecs'[f] = vecs[f]
            /\ f \in chunks => f \in chunks']_vars

(* While no job lasts longer than the idle time of a claim, a message is in    *)
(* the hands of one worker: min_idle_time makes XCLAIM exclusive, though two   *)
(* workers saw the message in their snapshots.                                 *)
OneWorkerPerMessage ==
  \A v, w \in Workers : Working(v) /\ Working(w) /\ v # w => msg[v] # msg[w]

------------------------------------------------------------------------------
(* A worker keeps running: its process is restarted, its loop goes round, a    *)
(* call returns.  Every 60th round looks for pending messages.  A message that *)
(* stays pending gets older.                                                   *)
Progress(w) ==
  Start(w) \/ ReadStep(w) \/ ScanStep(w) \/ PipelineStep(w) \/ ErrorStep(w)
  \/ Return(w) \/ Raise(w)

Fairness ==
  /\ \A w \in Workers : WF_vars(Progress(w)) /\ SF_vars(ReadHigh(w)) /\ SF_vars(PeriodicScan(w))
  /\ \A m \in 1 .. MaxLog : WF_vars(m \in Pending /\ BecomeIdle(m))

FairSpec == Spec /\ Fairness

Status(f) ==
  IF f \notin row \/ upload[f] # "done" THEN "unknown"
  ELSE IF stage[f] \in Settled THEN "settled" ELSE "accepted"

(* The service as its clients see it.                                          *)
Service == INSTANCE IngestService
  WITH state <- [f \in Files |-> Status(f)],
       owed  <- {f \in Files : Owed(f)}

(* The pipeline implements the promise of IngestService, with its liveness:    *)
(* every file accepted is settled, through retries, passes and redeliveries.   *)
ImplementsService == Service!ServiceSpec
==============================================================================
