---------------------------- MODULE IngestWorker -----------------------------
(* The ingestion workers (worker.py, worker/pipeline.py, worker/error_handler). *)
(* A worker is one thread: it reads or claims one message, runs process_job to  *)
(* its end and acknowledges.  Each action is one call to PostgreSQL, Milvus or  *)
(* Redis, so everything another worker or an API request does may fall between  *)
(* two of them.  pc[w] names the next call.                                     *)
EXTENDS IngestAPI

CONSTANTS
  Workers,
  MaxRetries,      \* ErrorHandler.max_retries (3)
  HardCap,         \* process_job drops jobs with this retry count (5)
  MaxDeliver,      \* deliveries after which a pending message is dead-lettered (5)
  MaxCrashes       \* bound of the model: worker crashes

ASSUME WorkerAssumption ==
  /\ IsFiniteSet(Workers)
  /\ MaxRetries \in Nat \ {0}
  /\ HardCap \in Nat
  /\ MaxDeliver \in Nat \ {0}
  /\ MaxCrashes \in Nat

VARIABLES
  pc,        \* next step of each worker
  msg,       \* the message it works on, 0 if none
  claimed,   \* that message was claimed, not read
  todo,      \* pending messages it has yet to inspect |-> deliveries it saw
  err,       \* how the exception being handled is classified
  count,     \* the retry count requeue_job or mark_failed is about to write
  crashes    \* crashes so far

workerVars == <<pc, msg, claimed, todo, err, count, crashes>>

ScanSteps  == {"scanHigh", "scanLow"}
(* Steps inside the try block of process_job.                                  *)
TrySteps   == {"begin", "load", "entity", "entityDone", "fast", "fastDone",
               "parsing", "chunking", "store", "markdown", "indexing", "append", "pass1",
               "view", "enqueue", "pass1Done", "pass2", "replace", "markdownAgain",
               "enhanced", "complete"}
(* How ErrorHandler classifies an exception: transient if nothing else says so; *)
(* "notFound" is a permanent ValueError that says "not found".                 *)
Errors == {"transient", "permanent", "notFound"}

ErrorSteps == {"error", "requeueCount", "requeue", "requeueAdd", "markFailed"}
JobSteps   == TrySteps \cup ErrorSteps \cup {"duplicate", "return", "raise"}
Steps      == {"down", "loop", "low"} \cup ScanSteps \cup JobSteps

Working(w) == pc[w] \in JobSteps
Job(w)  == log[msg[w]]
File(w) == Job(w).file

WorkerTypeOK ==
  /\ pc \in [Workers -> Steps]
  /\ msg \in [Workers -> 0 .. Len(log)]
  /\ claimed \in [Workers -> BOOLEAN]
  /\ todo \in [Workers -> SUBSET (Nat \X Nat)]
  /\ err \in [Workers -> {"none"} \cup Errors]
  /\ count \in [Workers -> Nat]
  /\ crashes \in Nat
  /\ \A w \in Workers : Working(w) => msg[w] # 0

WorkerInit ==
  /\ pc = [w \in Workers |-> "down"]
  /\ msg = [w \in Workers |-> 0]
  /\ claimed = [w \in Workers |-> FALSE]
  /\ todo = [w \in Workers |-> {}]
  /\ err = [w \in Workers |-> "none"]
  /\ count = [w \in Workers |-> 0]
  /\ crashes = 0

Goto(w, step) == pc' = [pc EXCEPT ![w] = step]

(* process_job(msg): m becomes the job of w.                                   *)
StartJob(w, m, viaClaim) ==
  /\ Goto(w, "begin")
  /\ msg' = [msg EXCEPT ![w] = m]
  /\ claimed' = [claimed EXCEPT ![w] = viaClaim]

------------------------------------------------------------------------------
(* run                                                                         *)

(* The deliveries of the pending messages of a stream, seen by XPENDING; only  *)
(* those the loop acts upon: idle for 60 s, or delivered too often.            *)
Snapshot(s) ==
  {<<m, pel[m]>> : m \in {i \in Pending : log[i].stream = s
                                          /\ (i \in idle \/ pel[i] > MaxDeliver)}}

Scan(w) ==
  /\ Goto(w, "scanHigh")
  /\ todo' = [todo EXCEPT ![w] = Snapshot("high")]
  /\ UNCHANGED <<msg, claimed, err, count, crashes, apiVars, storeVars, streamVars>>

Start(w) == pc[w] = "down" /\ Scan(w)

PeriodicScan(w) == pc[w] = "loop" /\ Scan(w)

ReadHigh(w) ==
  /\ pc[w] = "loop"
  /\ IF Unread("high") # {}
     THEN \E m \in Oldest("high") : XREADGROUP("high", m) /\ StartJob(w, m, FALSE)
     ELSE /\ Goto(w, "low")
          /\ UNCHANGED <<msg, claimed, streamVars>>
  /\ UNCHANGED <<todo, err, count, crashes, apiVars, storeVars>>

ReadLow(w) ==
  /\ pc[w] = "low"
  /\ IF Unread("low") # {}
     THEN \E m \in Oldest("low") : XREADGROUP("low", m) /\ StartJob(w, m, FALSE)
     ELSE /\ Goto(w, "loop")
          /\ UNCHANGED <<msg, claimed, streamVars>>
  /\ UNCHANGED <<todo, err, count, crashes, apiVars, storeVars>>

(* Time passes for a pending message.  A job may last longer than 60 s ("slow"); *)
(* otherwise only a message no worker is processing gets that old.             *)
BecomeIdle(m) ==
  /\ m \in Pending \ idle
  /\ "slow" \in Faults \/ \A w \in Workers : Working(w) => msg[w] # m
  /\ idle' = idle \cup {m}
  /\ UNCHANGED <<log, unread, pel, trimmed, storeVars, apiVars, workerVars>>

------------------------------------------------------------------------------
(* _claim_pending_on_stream: the loop over the snapshot, oldest message first. *)

Inspects(w, t) ==
  /\ pc[w] \in ScanSteps
  /\ t \in todo[w]
  /\ \A u \in todo[w] : t[1] <= u[1]
  /\ todo' = [todo EXCEPT ![w] = @ \ {t}]
  /\ UNCHANGED <<err, count, crashes, apiVars, storeVars>>

DeadLetter(w, t) ==
  /\ t[2] > MaxDeliver
  /\ Inspects(w, t)
  /\ XACK(t[1])
  /\ UNCHANGED <<pc, msg, claimed>>

(* Not idle any more, or not pending any more: XCLAIM returns nothing.  Or it   *)
(* fails, and the message is passed over.                                      *)
ClaimNothing(w, t) ==
  /\ t[2] <= MaxDeliver
  /\ t[1] \notin idle \/ "redis" \in Faults
  /\ Inspects(w, t)
  /\ UNCHANGED <<pc, msg, claimed, streamVars>>

(* Variant: the number of deliveries is not looked at.                         *)
ClaimWhatever(w, t) ==
  /\ Inspects(w, t)
  /\ XCLAIM(t[1])
  /\ t[1] \notin trimmed
  /\ StartJob(w, t[1], TRUE)

(* The entry was trimmed, and XCLAIM returns nothing, or its file exists;      *)
(* _check_file_exists says so too when its query fails.                        *)
Claim(w, t) ==
  /\ t[2] <= MaxDeliver
  /\ Inspects(w, t)
  /\ XCLAIM(t[1])
  /\ \/ t[1] \in trimmed /\ UNCHANGED <<pc, msg, claimed>>
     \/ /\ t[1] \notin trimmed
        /\ SeenWithoutContext(log[t[1]].file) \/ "db" \in Faults
        /\ StartJob(w, t[1], TRUE)

(* XCLAIM, then XACK: _check_file_exists saw no row.  When XACK fails, the     *)
(* message is only claimed.                                                    *)
AckOrphan(w, t) ==
  /\ t[2] <= MaxDeliver
  /\ t[1] \in idle \ trimmed
  /\ ~ SeenWithoutContext(log[t[1]].file)
  /\ Inspects(w, t)
  /\ \/ XACK(t[1])
     \/ "redis" \in Faults /\ XCLAIM(t[1])
  /\ UNCHANGED <<pc, msg, claimed>>

(* XPENDING or the XACK of a dead letter fails: the scan of the stream ends.   *)
ScanAborted(w) ==
  /\ "redis" \in Faults
  /\ pc[w] \in ScanSteps
  /\ todo[w] # {}
  /\ todo' = [todo EXCEPT ![w] = {}]
  /\ UNCHANGED <<pc, msg, claimed, err, count, crashes, apiVars, storeVars, streamVars>>

ScanDone(w) ==
  /\ pc[w] \in ScanSteps
  /\ todo[w] = {}
  /\ IF pc[w] = "scanHigh"
     THEN Goto(w, "scanLow") /\ todo' = [todo EXCEPT ![w] = Snapshot("low")]
     ELSE Goto(w, "loop") /\ UNCHANGED todo
  /\ UNCHANGED <<msg, claimed, err, count, crashes, apiVars, storeVars, streamVars>>

------------------------------------------------------------------------------
(* process_job                                                                 *)

(* A step of process_job: from one pc, to the next; only the named parts change. *)
During(w, step) == pc[w] = step /\ UNCHANGED <<msg, claimed, todo, crashes, apiVars>>
At(w, step) == During(w, step) /\ UNCHANGED count

(* An exception in the try block, before the step it interrupts took effect.   *)
Raises(w, kind) ==
  /\ Goto(w, "error")
  /\ err' = [err EXCEPT ![w] = kind]

Fail(w) ==
  /\ "error" \in Faults
  /\ \E s \in TrySteps : At(w, s)
  /\ \E kind \in Errors : Raises(w, kind)
  /\ UNCHANGED <<storeVars, streamVars>>

PartialStages == {"entity_extraction", "embedding", "indexing"}

Dispatch(job) == IF job.start \in PartialStages THEN "load" ELSE "parsing"

(* Variant: any other copy counts as a duplicate, completed or not.            *)
StartedCopies(job) == Twins(job.file) \ {job.file}

(* The completed copies of the content, this file included, that the context   *)
(* of the job may see.                                                         *)
CompletedCopies(job) ==
  {g \in Twins(job.file) : stage[g] = "completed"
                           /\ (g \in Shared => job.roles \/ BypassRLS)}

(* Variant: no duplicate check.                                                *)
BeginUnchecked(w) ==
  /\ At(w, "begin")
  /\ Goto(w, IF Job(w).retry >= HardCap \/ ~ Visible(Job(w)) THEN "return"
             ELSE Dispatch(Job(w)))
  /\ UNCHANGED <<err, storeVars, streamVars>>

Begin(w) ==
  /\ At(w, "begin")
  /\ Goto(w, IF Job(w).retry >= HardCap \/ ~ Visible(Job(w)) THEN "return"
             ELSE IF ~ Job(w).force /\ CompletedCopies(Job(w)) # {} THEN "duplicate"
             ELSE Dispatch(Job(w)))
  /\ UNCHANGED <<err, storeVars, streamVars>>

(* The rest of _check_duplicate: the status, then the counts of chunks and      *)
(* vectors.  An exception anywhere in it is swallowed and the job goes on.      *)
Duplicate(w) ==
  /\ At(w, "duplicate")
  /\ \/ /\ File(w) \in row
        /\ SetStage(File(w), "completed")
        /\ Goto(w, "return")
     \/ /\ File(w) \notin row \/ "db" \in Faults
        /\ UNCHANGED stage
        /\ Goto(w, Dispatch(Job(w)))
     \/ /\ File(w) \in row /\ "db" \in Faults
        /\ SetStage(File(w), "completed")
        /\ Goto(w, Dispatch(Job(w)))
  /\ UNCHANGED <<err, row, retries, chunks, md, vecs, cancel, streamVars>>

(* FileDeletedError, or the foreign key violated: the text of the message      *)
(* decides how it is classified, and the text holds the file's UUID.           *)
FileGone(w) == \E kind \in {"transient", "permanent"} : Raises(w, kind)

(* Variant: the status is inserted although the file is gone.                  *)
UpsertStatus(w, s, next) == SetStage(File(w), s) /\ Goto(w, next) /\ UNCHANGED err

(* update_status(s), and go on.                                                *)
UpdateStatus(w, s, next) ==
  IF File(w) \in row
  THEN SetStage(File(w), s) /\ Goto(w, next) /\ UNCHANGED err
  ELSE UNCHANGED stage /\ FileGone(w)

(* _load_chunks_from_db: the chunks found decide between the partial paths and *)
(* the full one.                                                               *)
Load(w) ==
  /\ At(w, "load")
  /\ Goto(w, IF File(w) \notin chunks THEN "parsing"
             ELSE IF Job(w).start = "entity_extraction" THEN "entity" ELSE "fast")
  /\ UNCHANGED <<err, storeVars, streamVars>>

StatusOnly == <<row, retries, chunks, md, vecs, cancel, streamVars>>

Entity(w) ==
  /\ At(w, "entity")
  /\ UpdateStatus(w, "entity_extraction", "entityDone")
  /\ UNCHANGED StatusOnly

EntityDone(w) ==
  /\ At(w, "entityDone")
  /\ UpdateStatus(w, "completed", "return")
  /\ UNCHANGED StatusOnly

(* _fast_reprocess calls insert_text_vectors, which MilvusService does not     *)
(* have; the exception is logged and nothing is inserted.                      *)
Fast(w) ==
  /\ At(w, "fast")
  /\ UpdateStatus(w, "indexing", "fastDone")
  /\ UNCHANGED StatusOnly

FastDone(w) ==
  /\ At(w, "fastDone")
  /\ UpdateStatus(w, "completed", "return")
  /\ UNCHANGED StatusOnly

(* PDFs take the progressive pipeline when parsing is where they start.        *)
Progressive(job) ==
  Kind[job.file] = "pdf" /\ job.start \notin {"chunking", "cleanup", "markdown"}

(* The chunker returns chunks: the content has text, or OCR made some of it.   *)
FindsText(job) == HasText(job.file) \/ (Progressive(job) /\ job.pass = 2)

Parsing(w) ==
  /\ At(w, "parsing")
  /\ UpdateStatus(w, "parsing", IF Progressive(Job(w)) THEN "pass1" ELSE "chunking")
  /\ UNCHANGED StatusOnly

Chunking(w) ==
  /\ At(w, "chunking")
  /\ UpdateStatus(w, "chunking", "store")
  /\ UNCHANGED StatusOnly

AfterStore(job) ==
  IF ~ Progressive(job) THEN "markdown" ELSE IF job.pass = 1 THEN "append" ELSE "replace"

(* Variant: chunks without a foreign key.                                      *)
StoreAnyway(w) ==
  /\ At(w, "store")
  /\ chunks' = IF FindsText(Job(w)) THEN chunks \cup {File(w)} ELSE chunks
  /\ Goto(w, AfterStore(Job(w)))
  /\ UNCHANGED <<err, row, stage, retries, md, vecs, cancel, streamVars>>

(* insert_chunks or upsert_chunks, which fail on the foreign key without a row; *)
(* a list without chunks is inserted without touching the database.            *)
Store(w) ==
  /\ At(w, "store")
  /\ IF File(w) \in row \/ ~ FindsText(Job(w))
     THEN /\ chunks' = IF FindsText(Job(w)) THEN chunks \cup {File(w)} ELSE chunks
          /\ Goto(w, AfterStore(Job(w)))
          /\ UNCHANGED err
     ELSE UNCHANGED chunks /\ FileGone(w)
  /\ UNCHANGED <<row, stage, retries, md, vecs, cancel, streamVars>>

(* The markdown is uploaded and recorded.  No failure here is fatal; after a   *)
(* failed upload, or without content, the full path records that there is none. *)
RecordMarkdown(w) ==
  /\ \/ md' = md \cup ({File(w)} \cap row)
     \/ "markdown" \in Faults /\ UNCHANGED md
     \/ /\ "markdown" \in Faults \/ ~ HasText(File(w))
        /\ ~ Progressive(Job(w)) /\ md' = md \ {File(w)}
  /\ UNCHANGED <<err, row, stage, retries, chunks, vecs, cancel, streamVars>>

Markdown(w) ==
  /\ At(w, "markdown")
  /\ RecordMarkdown(w)
  /\ Goto(w, IF Progressive(Job(w)) THEN "view" ELSE "indexing")

Indexing(w) ==
  /\ At(w, "indexing")
  /\ UpdateStatus(w, "indexing", "append")
  /\ UNCHANGED StatusOnly

(* Without chunks there is nothing to embed or insert, and the job goes on.    *)
AppendVectors(w) ==
  /\ At(w, "append")
  /\ InsertVectors(File(w), FindsText(Job(w)))
  /\ Goto(w, IF ~ Progressive(Job(w)) THEN "complete"
             ELSE IF Job(w).pass = 1 THEN "markdown" ELSE "markdownAgain")
  /\ UNCHANGED <<err, dbVars, cancel, streamVars>>

Complete(w) ==
  /\ At(w, "complete")
  /\ UpdateStatus(w, "completed", "return")
  /\ UNCHANGED StatusOnly

------------------------------------------------------------------------------
(* _process_pdf_progressive, for a document of one batch of pages.  The status *)
(* written after the batch is folded into that of View.                        *)

(* _handle_cancellation, then CancelledError: process_job returns.             *)
HandleCancellation(w) ==
  IF File(w) \in row
  THEN /\ SetStage(File(w), "cancelled")
       /\ cancel' = cancel \ {File(w)}
       /\ Goto(w, "return")
       /\ UNCHANGED err
  ELSE UNCHANGED <<stage, cancel>> /\ FileGone(w)

CancelOr(w, next) ==
  IF File(w) \in cancel
  THEN HandleCancellation(w)
  ELSE Goto(w, next) /\ UNCHANGED <<stage, cancel, err>>

(* Pages without text (or a PDF uploaded with skip_indexing) give pass 1 no     *)
(* chunks to store and index.                                                  *)
Pass1(w) ==
  /\ At(w, "pass1")
  /\ CancelOr(w, IF Job(w).pass = 1 /\ HasText(File(w)) THEN "store" ELSE "markdown")
  /\ UNCHANGED <<row, retries, chunks, md, vecs, streamVars>>

View(w) ==
  /\ At(w, "view")
  /\ UpdateStatus(w, "available",
                  CASE Job(w).pass = 1 -> "enqueue"
                    [] Job(w).pass = 2 -> "pass2"
                    [] Job(w).pass = 3 -> "complete")
  /\ UNCHANGED StatusOnly

Pass2Job(job) ==
  [file |-> job.file, stream |-> "low", start |-> "parsing", pass |-> 2,
   force |-> FALSE, roles |-> job.roles, retry |-> 0]

(* Variant: the failure of XADD is swallowed.                                  *)
EnqueuePass2Dropped(w) ==
  /\ At(w, "enqueue")
  /\ Goto(w, "pass1Done")
  /\ UNCHANGED <<err, storeVars, streamVars>>

EnqueuePass2(w) ==
  /\ At(w, "enqueue")
  /\ \/ XADD(Pass2Job(Job(w))) /\ Goto(w, "pass1Done") /\ UNCHANGED err
     \/ "redis" \in Faults /\ Raises(w, "transient") /\ UNCHANGED streamVars
  /\ UNCHANGED storeVars

Pass1Done(w) ==
  /\ At(w, "pass1Done")
  /\ UpdateStatus(w, "available", "return")
  /\ UNCHANGED StatusOnly

(* OCR and the remote vision model improve some pages, and the document is      *)
(* indexed again, or none: the model may answer at one attempt and not at the   *)
(* next.  Changed pages that still hold no text are not indexed.               *)
Pass2(w) ==
  /\ At(w, "pass2")
  /\ \E next \in {"store", "complete"} \cup (IF HasText(File(w)) THEN {} ELSE {"markdownAgain"}) :
        CancelOr(w, next)
  /\ UNCHANGED <<row, retries, chunks, md, vecs, streamVars>>

(* update_file_vectors: delete, then insert; a failed delete is only logged.   *)
Replace(w) ==
  /\ At(w, "replace")
  /\ \/ DeleteVectors(File(w))
     \/ "milvus" \in Faults /\ UNCHANGED vecs
  /\ Goto(w, "append")
  /\ UNCHANGED <<err, dbVars, cancel, streamVars>>

MarkdownAgain(w) ==
  /\ At(w, "markdownAgain")
  /\ RecordMarkdown(w)
  /\ Goto(w, "enhanced")

Enhanced(w) ==
  /\ At(w, "enhanced")
  /\ UpdateStatus(w, "available", "complete")
  /\ UNCHANGED StatusOnly

------------------------------------------------------------------------------
(* ErrorHandler                                                                *)

(* get_retry_count: 0 when the query fails.                                    *)
RetryCounts(f) == {retries[f]} \cup IF "db" \in Faults THEN {0} ELSE {}

Larger(a, b) == IF a >= b THEN a ELSE b

(* The decision, from the count read by should_retry; mark_failed reads it     *)
(* again before it writes it back.                                             *)
RetryOrFail(w, retry) ==
  IF retry THEN Goto(w, "requeueCount") /\ UNCHANGED count
  ELSE /\ Goto(w, "markFailed")
       /\ \E db \in RetryCounts(File(w)) : count' = [count EXCEPT ![w] = db]

(* Variant: one retry too many.                                                *)
ShouldRetryInclusive(w) ==
  /\ During(w, "error")
  /\ \E db \in RetryCounts(File(w)) :
        RetryOrFail(w, err[w] = "transient" /\ Larger(db, Job(w).retry) <= MaxRetries)
  /\ UNCHANGED <<err, storeVars, streamVars>>

ShouldRetry(w) ==
  /\ During(w, "error")
  /\ \E db \in RetryCounts(File(w)) :
        RetryOrFail(w, err[w] = "transient" /\ Larger(db, Job(w).retry) < MaxRetries)
  /\ UNCHANGED <<err, storeVars, streamVars>>

(* The retry count of the message does not reach requeue_job: the new count is *)
(* the one in the database plus one.                                           *)
RequeueCount(w) ==
  /\ During(w, "requeueCount")
  /\ \E db \in RetryCounts(File(w)) : count' = [count EXCEPT ![w] = db + 1]
  /\ Goto(w, "requeue")
  /\ UNCHANGED <<err, storeVars, streamVars>>

(* Variant: the retry is not counted.                                          *)
RequeueUncounted(w) ==
  /\ At(w, "requeue")
  /\ SetStageIfRow(File(w), "queued")
  /\ Goto(w, IF File(w) \in row THEN "requeueAdd" ELSE "return")
  /\ UNCHANGED <<err, row, retries, chunks, md, vecs, cancel, streamVars>>

(* When the row is gone, or the update fails, requeue_job returns False and    *)
(* process_job returns all the same.                                           *)
Requeue(w) ==
  /\ At(w, "requeue")
  /\ \/ /\ File(w) \in row
        /\ SetStage(File(w), "queued")
        /\ retries' = [retries EXCEPT ![File(w)] = count[w]]
        /\ Goto(w, "requeueAdd")
     \/ /\ File(w) \notin row \/ "db" \in Faults
        /\ Goto(w, "return")
        /\ UNCHANGED <<stage, retries>>
  /\ UNCHANGED <<err, row, chunks, md, vecs, cancel, streamVars>>

(* start_stage is not among the fields kept; processing_config is.  Always the *)
(* high-priority stream.                                                       *)
RetryJob(job, n) ==
  [job EXCEPT !.stream = "high", !.start = "parsing", !.retry = n]

(* Variant: the status says queued and no job is added.                        *)
RequeueNotAdded(w) ==
  /\ At(w, "requeueAdd")
  /\ Goto(w, "return")
  /\ UNCHANGED <<err, storeVars, streamVars>>

RequeueAdd(w) ==
  /\ At(w, "requeueAdd")
  /\ \/ XADD(RetryJob(Job(w), count[w]))
     \/ "redis" \in Faults /\ UNCHANGED streamVars
  /\ Goto(w, "return")
  /\ UNCHANGED <<err, storeVars>>

(* Variant: the failure is logged and not recorded.                            *)
MarkFailedUnrecorded(w) ==
  /\ At(w, "markFailed")
  /\ Goto(w, "raise")
  /\ UNCHANGED <<err, storeVars, streamVars>>

(* An update that fails raises in place of the error being handled.            *)
MarkFailed(w) ==
  /\ At(w, "markFailed")
  /\ \/ /\ SetStageIfRow(File(w), "failed")
        /\ retries' = IF File(w) \in row THEN [retries EXCEPT ![File(w)] = count[w]]
                      ELSE retries
        /\ UNCHANGED err
     \/ /\ "db" \in Faults
        /\ err' = [err EXCEPT ![w] = "permanent"]
        /\ UNCHANGED <<stage, retries>>
  /\ Goto(w, "raise")
  /\ UNCHANGED <<row, chunks, md, vecs, cancel, streamVars>>

------------------------------------------------------------------------------
(* Back in the caller: after a read the message is acknowledged whatever       *)
(* happened; after a claim only if process_job returned or raised ValueError   *)
(* "not found".                                                                *)

LeaveJob(w) ==
  /\ Goto(w, IF claimed[w]
             THEN IF Job(w).stream = "high" THEN "scanHigh" ELSE "scanLow"
             ELSE "loop")
  /\ msg' = [msg EXCEPT ![w] = 0]
  /\ claimed' = [claimed EXCEPT ![w] = FALSE]
  /\ err' = [err EXCEPT ![w] = "none"]
  /\ count' = [count EXCEPT ![w] = 0]
  /\ UNCHANGED <<todo, crashes, apiVars, storeVars>>

Return(w) ==
  /\ pc[w] = "return"
  /\ \/ ~ claimed[w] /\ XACKandXTRIM(msg[w])
     \/ claimed[w] /\ XACK(msg[w])
     \/ "redis" \in Faults /\ UNCHANGED streamVars
  /\ LeaveJob(w)

Raise(w) ==
  /\ pc[w] = "raise"
  /\ \/ /\ ~ claimed[w] \/ err[w] = "notFound"
        /\ XACK(msg[w])
     \/ /\ (claimed[w] /\ err[w] # "notFound") \/ "redis" \in Faults
        /\ UNCHANGED streamVars
  /\ LeaveJob(w)

(* The process dies: whatever it was doing, only its messages stay pending.    *)
Crash(w) ==
  /\ "crash" \in Faults
  /\ crashes < MaxCrashes
  /\ pc[w] # "down"
  /\ crashes' = crashes + 1
  /\ Goto(w, "down")
  /\ msg' = [msg EXCEPT ![w] = 0]
  /\ claimed' = [claimed EXCEPT ![w] = FALSE]
  /\ todo' = [todo EXCEPT ![w] = {}]
  /\ err' = [err EXCEPT ![w] = "none"]
  /\ count' = [count EXCEPT ![w] = 0]
  /\ UNCHANGED <<apiVars, storeVars, streamVars>>

------------------------------------------------------------------------------
ScanStep(w) ==
  \/ ScanAborted(w) \/ ScanDone(w)
  \/ \E t \in todo[w] :
        DeadLetter(w, t) \/ ClaimNothing(w, t) \/ Claim(w, t) \/ AckOrphan(w, t)

ReadStep(w) == ReadHigh(w) \/ ReadLow(w)

PipelineStep(w) ==
  \/ Begin(w) \/ Duplicate(w) \/ Load(w) \/ Entity(w) \/ EntityDone(w) \/ Fast(w) \/ FastDone(w)
  \/ Parsing(w) \/ Chunking(w) \/ Store(w) \/ Markdown(w) \/ Indexing(w)
  \/ AppendVectors(w) \/ Complete(w) \/ Pass1(w) \/ View(w) \/ EnqueuePass2(w)
  \/ Pass1Done(w) \/ Pass2(w) \/ Replace(w) \/ MarkdownAgain(w) \/ Enhanced(w)

ErrorStep(w) ==
  ShouldRetry(w) \/ RequeueCount(w) \/ Requeue(w) \/ RequeueAdd(w) \/ MarkFailed(w)

JobStep(w) == PipelineStep(w) \/ Fail(w) \/ ErrorStep(w) \/ Return(w) \/ Raise(w)

WorkerStep(w) ==
  Start(w) \/ PeriodicScan(w) \/ ReadStep(w) \/ ScanStep(w) \/ JobStep(w) \/ Crash(w)
==============================================================================
