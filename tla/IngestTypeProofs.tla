-------------------------- MODULE IngestTypeProofs ---------------------------
(* Type correctness of the ingestion service, for every value of the constants. *)
EXTENDS IngestProperties, TLAPS

------------------------------------------------------------------------------
(* The commands of the streams.                                                *)

(* XADD of a job keeps the streams well typed and gives it a new identifier.   *)
LEMMA XADDType ==
  ASSUME StreamTypeOK, NEW job \in Jobs, XADD(job)
  PROVE  StreamTypeOK' /\ Len(log') = Len(log) + 1
<1>1. log' \in Seq(Jobs) /\ Len(log') = Len(log) + 1
  BY DEF XADD, StreamTypeOK
<1>2. PICK T \in Trims(log', job.stream) :
        trimmed' = trimmed \cup T /\ unread' = (unread \cup {Len(log')}) \ T
  BY DEF XADD
<1>3. T \subseteq 1 .. Len(log')
  BY <1>2 DEF Trims, Present
<1>4. Ids \subseteq 1 .. Len(log') /\ Len(log') \in 1 .. Len(log')
  BY <1>1 DEF StreamTypeOK, Ids
<1> QED
  BY <1>1, <1>2, <1>3, <1>4 DEF XADD, StreamTypeOK, Ids, Pending

(* XADD without MAXLEN does what XADD may do.                                  *)
LEMMA UntrimmedIsXADD ==
  ASSUME NEW job, XADDUntrimmed(job)
  PROVE  XADD(job)
<1>1. {} \in Trims(log', job.stream)
  BY DEF Trims
<1>2. trimmed' = trimmed \cup {} /\ unread' = (unread \cup {Len(log')}) \ {}
  BY DEF XADDUntrimmed
<1> QED
  BY <1>1, <1>2 DEF XADDUntrimmed, XADD

(* A delivery.                                                                 *)
LEMMA XREADGROUPType ==
  ASSUME StreamTypeOK, NEW s, NEW m, XREADGROUP(s, m)
  PROVE  StreamTypeOK' /\ m \in Ids /\ log' = log
BY DEF XREADGROUP, Oldest, Unread, StreamTypeOK, Ids, Pending

(* A claim.                                                                    *)
LEMMA XCLAIMType ==
  ASSUME StreamTypeOK, NEW m, XCLAIM(m)
  PROVE  StreamTypeOK' /\ m \in Ids /\ log' = log
BY DEF XCLAIM, StreamTypeOK, Ids, Pending

(* An acknowledgement.                                                         *)
LEMMA XACKType ==
  ASSUME StreamTypeOK, NEW m, XACK(m)
  PROVE  StreamTypeOK' /\ log' = log
BY DEF XACK, Acked, StreamTypeOK, Ids, Pending

(* An acknowledgement and the trim that follows it.                            *)
LEMMA XACKandXTRIMType ==
  ASSUME StreamTypeOK, NEW m, XACKandXTRIM(m)
  PROVE  StreamTypeOK' /\ log' = log
<1>1. PICK T \in Trims(log, log[m].stream) :
        trimmed' = trimmed \cup T /\ unread' = unread \ T
  BY DEF XACKandXTRIM
<1>2. T \subseteq Ids
  BY DEF Trims, Present, Ids
<1> QED
  BY <1>1, <1>2 DEF XACKandXTRIM, Acked, StreamTypeOK, Ids, Pending

(* What no command changes.                                                    *)
LEMMA StreamUnchanged ==
  ASSUME StreamTypeOK, UNCHANGED streamVars
  PROVE  StreamTypeOK' /\ log' = log
BY DEF streamVars, StreamTypeOK, Ids, Pending

(* Nor the rows, vectors and cancel keys.                                      *)
LEMMA StoreUnchanged ==
  ASSUME StoreTypeOK, UNCHANGED storeVars
  PROVE  StoreTypeOK'
BY DEF storeVars, StoreTypeOK

(* The workers stay well typed while the log grows.                            *)
LEMMA WorkerUnchanged ==
  ASSUME StreamTypeOK, WorkerTypeOK, UNCHANGED workerVars,
         log' = log \/ (log' \in Seq(Jobs) /\ Len(log') = Len(log) + 1)
  PROVE  WorkerTypeOK'
<1>1. 0 .. Len(log) \subseteq 0 .. Len(log')
  BY DEF StreamTypeOK
<1> QED
  BY <1>1 DEF WorkerTypeOK, workerVars, Working

------------------------------------------------------------------------------
(* The jobs the API adds.                                                      *)
LEMMA APIJobs ==
  ASSUME TypeOK, NEW f \in Files
  PROVE  /\ UploadJob(f, upload[f] = "createdForced", 1) \in Jobs
         /\ UploadJob(f, TRUE, 2) \in Jobs
         /\ ReprocessJob(f) \in Jobs
BY DEF TypeOK, APITypeOK, UploadJob, ReprocessJob, Jobs, Streams, StartStages

(* A step adds at most one job.                                                *)
LogGrows == log' = log \/ (log' \in Seq(Jobs) /\ Len(log') = Len(log) + 1)

(* The requests and the streams.                                               *)
LEMMA APIStreamType ==
  ASSUME TypeOK, NEW f \in Files, APIStep(f)
  PROVE  StreamTypeOK' /\ LogGrows
<1>1. CASE UNCHANGED streamVars
  BY <1>1, StreamUnchanged DEF TypeOK, LogGrows
<1>2. CASE \E job \in Jobs : XADD(job)
  BY <1>2, XADDType DEF TypeOK, StreamTypeOK, LogGrows
<1>3. CASE UploadEnqueue(f) \/ UploadTrigger(f) \/ ReprocessEnqueue(f)
  BY <1>1, <1>2, <1>3, APIJobs, UntrimmedIsXADD DEF UploadEnqueue, UploadTrigger, ReprocessEnqueue
<1> QED
  BY <1>1, <1>3 DEF APIStep, UploadStep, ReprocessStep, CancelStep, DeleteStep,
    UploadCheckDuplicate, UploadForced, UploadCreate, UploadMedia, UploadReuse, Reprocess,
    ReprocessVectors, ReprocessStatus, CancelRead, CancelFlag, CancelWrite, CancelExpire,
    Delete, DeleteVectorsStep, DeleteRow

(* The requests and the rows, vectors and cancel keys.                         *)
LEMMA APIStoreType ==
  ASSUME TypeOK, NEW f \in Files, APIStep(f)
  PROVE  StoreTypeOK'
<1>1. CASE UNCHANGED storeVars
  BY <1>1, StoreUnchanged DEF TypeOK
<1>2. CASE UploadCheckDuplicate(f) \/ DeleteRow(f)
  <2>1. PICK D : DeleteRows(D)
    BY <1>2 DEF UploadCheckDuplicate, DeleteRow
  <2> QED
    BY <1>2, <2>1 DEF UploadCheckDuplicate, DeleteRow, DeleteRows, TypeOK, StoreTypeOK, Stages
<1>3. CASE UploadCreate(f) \/ UploadReuse(f)
  BY <1>3 DEF UploadCreate, UploadReuse, CreateRow, SetStage, TypeOK, StoreTypeOK, Stages
<1>4. CASE UploadMedia(f) \/ ReprocessStatus(f) \/ CancelWrite(f)
  BY <1>4 DEF UploadMedia, ReprocessStatus, CancelWrite, SetStageIfRow, SetStage, TypeOK,
    StoreTypeOK, Stages
<1>5. CASE ReprocessVectors(f) \/ DeleteVectorsStep(f)
  BY <1>5 DEF ReprocessVectors, DeleteVectorsStep, DeleteVectors, dbVars, TypeOK, StoreTypeOK
<1>6. CASE Reprocess(f) \/ CancelFlag(f) \/ CancelExpire(f)
  BY <1>6 DEF Reprocess, CancelFlag, CancelExpire, dbVars, TypeOK, StoreTypeOK
<1>7. CASE \/ UploadForced(f) \/ UploadEnqueue(f) \/ UploadTrigger(f) \/ ReprocessEnqueue(f)
           \/ CancelRead(f) \/ Delete(f)
  BY <1>1, <1>7
    DEF UploadForced, UploadEnqueue, UploadTrigger, ReprocessEnqueue, CancelRead, Delete
<1> QED
  BY <1>2, <1>3, <1>4, <1>5, <1>6, <1>7
    DEF APIStep, UploadStep, ReprocessStep, CancelStep, DeleteStep

(* The requests and their own steps.                                           *)
LEMMA RequestType ==
  ASSUME TypeOK, NEW f \in Files, APIStep(f)
  PROVE  APITypeOK'
<1>1. CASE UploadStep(f)
  <2>1. FullyCompleted(f) \subseteq Files
    BY DEF FullyCompleted, Twins, TypeOK, StoreTypeOK
  <2>2. /\ \E s \in UploadSteps : upload' = [upload EXCEPT ![f] = s]
        /\ origin' = origin \/ \E e \in Files : origin' = [origin EXCEPT ![f] = e]
        /\ UNCHANGED <<reproc, deletion, canceling, reprocs, cancels>>
    BY <1>1, <2>1 DEF UploadStep, UploadCheckDuplicate, UploadForced, UploadCreate, UploadMedia,
      UploadEnqueue, UploadReuse, UploadTrigger, SetUpload, UploadSteps
  <2> QED
    BY <2>2 DEF TypeOK, APITypeOK
<1>2. CASE Reprocess(f)
  BY <1>2, APIAssumption DEF Reprocess, ReprocessKinds, TypeOK, APITypeOK
<1>3. CASE ReprocessStep(f)
  <2>1. CASE ReprocessVectors(f)
    BY <2>1 DEF ReprocessVectors, TypeOK, APITypeOK
  <2>2. CASE ReprocessStatus(f)
    BY <2>2 DEF ReprocessStatus, TypeOK, APITypeOK
  <2>3. CASE ReprocessEnqueue(f)
    BY <2>3 DEF ReprocessEnqueue, NoReprocess, StartStages, TypeOK, APITypeOK
  <2> QED
    BY <1>3, <2>1, <2>2, <2>3 DEF ReprocessStep
<1>4. CASE CancelRead(f) \/ CancelStep(f)
  BY <1>4 DEF CancelRead, CancelStep, CancelFlag, CancelWrite, TypeOK, APITypeOK
<1>5. CASE CancelExpire(f)
  BY <1>5 DEF CancelExpire, apiVars, TypeOK, APITypeOK
<1>6. CASE Delete(f) \/ DeleteStep(f)
  BY <1>6 DEF Delete, DeleteStep, DeleteVectorsStep, DeleteRow, TypeOK, APITypeOK
<1> QED
  BY <1>1, <1>2, <1>3, <1>4, <1>5, <1>6 DEF APIStep

(* Every request of the API preserves the types.                               *)
LEMMA APIStepType ==
  ASSUME TypeOK, NEW f \in Files, APIStep(f), UNCHANGED workerVars
  PROVE  TypeOK'
BY APIStreamType, APIStoreType, RequestType, WorkerUnchanged DEF TypeOK, LogGrows

------------------------------------------------------------------------------
(* The workers.                                                                *)

(* The job of a working worker.                                                *)
LEMMA JobType ==
  ASSUME TypeOK, NEW w \in Workers, Working(w)
  PROVE  msg[w] \in Ids /\ Job(w) \in Jobs /\ File(w) \in Files
<1>1. msg[w] \in 1 .. Len(log)
  BY DEF TypeOK, WorkerTypeOK, StreamTypeOK
<1>2. Job(w) \in Jobs
  BY <1>1 DEF TypeOK, StreamTypeOK, Job
<1> QED
  BY <1>1, <1>2 DEF Ids, Jobs, File

(* The jobs the workers add.                                                   *)
LEMMA WorkerJobs ==
  ASSUME NEW job \in Jobs, NEW n \in Nat
  PROVE  Pass2Job(job) \in Jobs /\ RetryJob(job, n) \in Jobs
<1>1. "parsing" \in StartStages /\ "low" \in Streams /\ "high" \in Streams
  BY DEF StartStages, Streams
<1>2. Pass2Job(job) \in Jobs
  BY <1>1 DEF Pass2Job, Jobs
<1>3. RetryJob(job, n) \in Jobs
  BY <1>1 DEF RetryJob, Jobs
<1> QED
  BY <1>2, <1>3

(* The retry counts get_retry_count may return.                                *)
LEMMA RetryCountsType ==
  ASSUME TypeOK, NEW f \in Files
  PROVE  RetryCounts(f) \subseteq Nat
BY DEF TypeOK, StoreTypeOK, RetryCounts

(* A step of process_job that only moves pc, err and count.                    *)
LEMMA GotoType ==
  ASSUME StreamTypeOK, WorkerTypeOK, NEW w \in Workers, Working(w),
         NEW step \in JobSteps, pc' = [pc EXCEPT ![w] = step],
         err' \in [Workers -> {"none"} \cup Errors], count' \in [Workers -> Nat],
         UNCHANGED <<msg, claimed, todo, crashes>>,
         log' = log \/ (log' \in Seq(Jobs) /\ Len(log') = Len(log) + 1)
  PROVE  WorkerTypeOK'
<1>1. 0 .. Len(log) \subseteq 0 .. Len(log')
  BY DEF StreamTypeOK
<1>2. step \in Steps
  BY DEF Steps
<1> QED
  BY <1>1, <1>2 DEF WorkerTypeOK, Working

(* The outcomes of the steps of process_job, for GotoType.                     *)
LEMMA RaisesType ==
  ASSUME WorkerTypeOK, NEW w \in Workers, NEW kind \in Errors, Raises(w, kind)
  PROVE  pc' = [pc EXCEPT ![w] = "error"] /\ err' \in [Workers -> {"none"} \cup Errors]
BY DEF WorkerTypeOK, Raises, Goto

(* A status written, or FileDeletedError.                                      *)
LEMMA UpdateStatusType ==
  ASSUME TypeOK, NEW w \in Workers, Working(w), NEW s \in Stages, NEW next \in JobSteps,
         UpdateStatus(w, s, next)
  PROVE  /\ stage' \in [Files -> Stages]
         /\ \E step \in JobSteps : pc' = [pc EXCEPT ![w] = step]
         /\ err' \in [Workers -> {"none"} \cup Errors]
BY JobType DEF UpdateStatus, SetStage, Goto, FileGone, Raises, TypeOK, StoreTypeOK,
  WorkerTypeOK, Errors, JobSteps, ErrorSteps

(* The steps that write a status and nothing else.                             *)
StatusStep(w) ==
  \/ Entity(w) \/ EntityDone(w) \/ Fast(w) \/ FastDone(w) \/ Parsing(w) \/ Chunking(w)
  \/ Indexing(w) \/ Complete(w) \/ View(w) \/ Pass1Done(w) \/ Enhanced(w)

(* Each of them is one update_status.                                          *)
LEMMA StatusStepIs ==
  ASSUME TypeOK, NEW w \in Workers, StatusStep(w)
  PROVE  /\ \E step \in TrySteps : At(w, step)
         /\ \E s \in Stages \ {"none"}, next \in JobSteps : UpdateStatus(w, s, next)
         /\ UNCHANGED StatusOnly
<1>1. CASE Entity(w)
  BY <1>1 DEF Entity, TrySteps, JobSteps, Stages
<1>2. CASE EntityDone(w)
  BY <1>2 DEF EntityDone, TrySteps, JobSteps, Stages
<1>3. CASE Fast(w)
  BY <1>3 DEF Fast, TrySteps, JobSteps, Stages
<1>4. CASE FastDone(w)
  BY <1>4 DEF FastDone, TrySteps, JobSteps, Stages
<1>5. CASE Parsing(w)
  BY <1>5 DEF Parsing, TrySteps, JobSteps, Stages
<1>6. CASE Chunking(w)
  BY <1>6 DEF Chunking, TrySteps, JobSteps, Stages
<1>7. CASE Indexing(w)
  BY <1>7 DEF Indexing, TrySteps, JobSteps, Stages
<1>8. CASE Complete(w)
  BY <1>8 DEF Complete, TrySteps, JobSteps, Stages
<1>9. CASE View(w)
  <2>1. pc[w] = "view"
    BY <1>9 DEF View, At, During
  <2>2. Job(w).pass \in 1 .. 3
    BY <2>1, JobType DEF Working, JobSteps, TrySteps, Jobs
  <2>3. CASE Job(w).pass = 1
    BY <1>9, <2>3 DEF View, TrySteps, JobSteps, Stages
  <2>4. CASE Job(w).pass = 2
    BY <1>9, <2>4 DEF View, TrySteps, JobSteps, Stages
  <2>5. CASE Job(w).pass = 3
    BY <1>9, <2>5 DEF View, TrySteps, JobSteps, Stages
  <2> QED
    BY <2>2, <2>3, <2>4, <2>5
<1>10. CASE Pass1Done(w)
  BY <1>10 DEF Pass1Done, TrySteps, JobSteps, Stages
<1>11. CASE Enhanced(w)
  BY <1>11 DEF Enhanced, TrySteps, JobSteps, Stages
<1> QED
  BY <1>1, <1>2, <1>3, <1>4, <1>5, <1>6, <1>7, <1>8, <1>9, <1>10, <1>11 DEF StatusStep

(* Where cancellation may lead.                                                *)
LEMMA CancelOrType ==
  ASSUME TypeOK, NEW w \in Workers, Working(w), NEW next \in JobSteps, CancelOr(w, next)
  PROVE  /\ stage' \in [Files -> Stages]
         /\ cancel' \subseteq Files
         /\ \E step \in JobSteps : pc' = [pc EXCEPT ![w] = step]
         /\ err' \in [Workers -> {"none"} \cup Errors]
BY JobType DEF CancelOr, HandleCancellation, SetStage, Goto, FileGone, Raises, TypeOK,
  StoreTypeOK, WorkerTypeOK, Errors, JobSteps, ErrorSteps, Stages

(* The steps of process_job and of the error handler.                          *)
ProcessStep(w) == PipelineStep(w) \/ Fail(w) \/ ErrorStep(w)

(* They are steps of a worker that has a message, and leave it that message.   *)
LEMMA ProcessStepIs ==
  ASSUME TypeOK, NEW w \in Workers, ProcessStep(w)
  PROVE  Working(w) /\ UNCHANGED <<msg, claimed, todo, crashes, apiVars>>
<1>1. CASE StatusStep(w)
  BY <1>1, StatusStepIs DEF At, During, Working, JobSteps
<1>2. CASE PipelineStep(w) /\ ~ StatusStep(w)
  BY <1>2 DEF PipelineStep, StatusStep, Begin, Duplicate, Load, Store, Markdown, AppendVectors,
    Pass1, EnqueuePass2, Pass2, Replace, MarkdownAgain, At, During, Working, JobSteps, TrySteps
<1>3. CASE Fail(w) \/ ErrorStep(w)
  BY <1>3 DEF Fail, ErrorStep, ShouldRetry, RequeueCount, Requeue, RequeueAdd, MarkFailed, At,
    During, Working, JobSteps, TrySteps, ErrorSteps
<1> QED
  BY <1>1, <1>2, <1>3 DEF ProcessStep

(* They stay in process_job, with a known kind of error and a natural count.   *)
LEMMA ProcessStepMoves ==
  ASSUME TypeOK, NEW w \in Workers, ProcessStep(w)
  PROVE  /\ \E step \in JobSteps : pc' = [pc EXCEPT ![w] = step]
         /\ err' \in [Workers -> {"none"} \cup Errors]
         /\ count' \in [Workers -> Nat]
<1>1. Working(w)
  BY ProcessStepIs
<1>2. CASE StatusStep(w)
  BY <1>1, <1>2, StatusStepIs, UpdateStatusType DEF At, TypeOK, WorkerTypeOK
<1>3. CASE Pass1(w) \/ Pass2(w)
  <2>1. PICK next \in JobSteps : CancelOr(w, next)
    BY <1>3 DEF Pass1, Pass2, JobSteps, TrySteps
  <2> QED
    BY <1>1, <1>3, <2>1, CancelOrType DEF Pass1, Pass2, At, TypeOK, WorkerTypeOK
<1>4. CASE Begin(w) \/ Duplicate(w) \/ Load(w) \/ AppendVectors(w) \/ Replace(w)
  BY <1>4 DEF Begin, Duplicate, Load, AppendVectors, Replace, Dispatch, Goto, At, JobSteps,
    TrySteps, TypeOK, WorkerTypeOK
<1>5. CASE Markdown(w) \/ MarkdownAgain(w)
  BY <1>5 DEF Markdown, MarkdownAgain, RecordMarkdown, Goto, At, JobSteps, TrySteps, TypeOK,
    WorkerTypeOK
<1>6. CASE Store(w) \/ EnqueuePass2(w) \/ Fail(w)
  BY <1>6 DEF Store, AfterStore, EnqueuePass2, Fail, FileGone, Raises, Goto, At, Errors,
    JobSteps, TrySteps, ErrorSteps, TypeOK, WorkerTypeOK
<1>7. CASE ShouldRetry(w) \/ RequeueCount(w)
  BY <1>1, <1>7, JobType, RetryCountsType DEF ShouldRetry, RequeueCount, RetryOrFail, Goto,
    JobSteps, ErrorSteps, TypeOK, WorkerTypeOK
<1>8. CASE Requeue(w) \/ RequeueAdd(w) \/ MarkFailed(w)
  BY <1>8 DEF Requeue, RequeueAdd, MarkFailed, Goto, At, Errors, JobSteps, ErrorSteps, TypeOK,
    WorkerTypeOK
<1> QED
  BY <1>2, <1>3, <1>4, <1>5, <1>6, <1>7, <1>8
    DEF ProcessStep, PipelineStep, StatusStep, ErrorStep

(* They touch the streams only to add a job.                                   *)
LEMMA ProcessStepStream ==
  ASSUME TypeOK, NEW w \in Workers, ProcessStep(w)
  PROVE  UNCHANGED streamVars \/ \E job \in Jobs : XADD(job)
<1>1. CASE EnqueuePass2(w) \/ RequeueAdd(w)
  <2>1. Pass2Job(Job(w)) \in Jobs /\ RetryJob(Job(w), count[w]) \in Jobs
    BY ProcessStepIs, JobType, WorkerJobs DEF TypeOK, WorkerTypeOK
  <2> QED
    BY <1>1, <2>1 DEF EnqueuePass2, RequeueAdd
<1>2. CASE StatusStep(w)
  BY <1>2, StatusStepIs DEF StatusOnly, streamVars
<1>3. CASE ~ StatusStep(w) /\ ~ EnqueuePass2(w) /\ ~ RequeueAdd(w)
  BY <1>3 DEF ProcessStep, PipelineStep, StatusStep, ErrorStep, Begin, Duplicate, Load, Store,
    Markdown, AppendVectors, Pass1, Pass2, Replace, MarkdownAgain, RecordMarkdown, Fail,
    ShouldRetry, RequeueCount, Requeue, MarkFailed
<1> QED
  BY <1>1, <1>2, <1>3

(* What they write to the rows, vectors and cancel keys.                       *)
LEMMA ProcessStepStore ==
  ASSUME TypeOK, NEW w \in Workers, ProcessStep(w)
  PROVE  StoreTypeOK'
<1>1. Working(w) /\ File(w) \in Files /\ count[w] \in Nat
  BY ProcessStepIs, JobType DEF TypeOK, WorkerTypeOK
<1>2. CASE StatusStep(w)
  BY <1>1, <1>2, StatusStepIs, UpdateStatusType DEF StatusOnly, TypeOK, StoreTypeOK
<1>3. CASE Pass1(w) \/ Pass2(w)
  <2>1. PICK next \in JobSteps : CancelOr(w, next)
    BY <1>3 DEF Pass1, Pass2, JobSteps, TrySteps
  <2> QED
    BY <1>1, <1>3, <2>1, CancelOrType DEF Pass1, Pass2, TypeOK, StoreTypeOK
<1>4. CASE Duplicate(w)
  BY <1>1, <1>4 DEF Duplicate, SetStage, TypeOK, StoreTypeOK, Stages
<1>5. CASE Store(w) \/ Markdown(w) \/ MarkdownAgain(w)
  BY <1>1, <1>5 DEF Store, Markdown, MarkdownAgain, RecordMarkdown, TypeOK, StoreTypeOK
<1>6. CASE AppendVectors(w) \/ Replace(w)
  BY <1>1, <1>6 DEF AppendVectors, Replace, InsertVectors, DeleteVectors, dbVars, TypeOK,
    StoreTypeOK
<1>7. CASE Requeue(w) \/ MarkFailed(w)
  <2>1. stage' \in [Files -> Stages]
    BY <1>1, <1>7 DEF Requeue, MarkFailed, SetStageIfRow, SetStage, Stages, TypeOK, StoreTypeOK
  <2>2. retries' \in [Files -> Nat]
    BY <1>1, <1>7 DEF Requeue, MarkFailed, TypeOK, StoreTypeOK
  <2> QED
    BY <1>7, <2>1, <2>2 DEF Requeue, MarkFailed, TypeOK, StoreTypeOK
<1>8. CASE \/ Begin(w) \/ Load(w) \/ EnqueuePass2(w) \/ Fail(w) \/ ShouldRetry(w)
           \/ RequeueCount(w) \/ RequeueAdd(w)
  BY <1>8, StoreUnchanged DEF Begin, Load, EnqueuePass2, Fail, ShouldRetry, RequeueCount,
    RequeueAdd, TypeOK
<1> QED
  BY <1>2, <1>3, <1>4, <1>5, <1>6, <1>7, <1>8
    DEF ProcessStep, PipelineStep, StatusStep, ErrorStep

(* Together: process_job preserves the types.                                  *)
LEMMA ProcessStepType ==
  ASSUME TypeOK, NEW w \in Workers, ProcessStep(w)
  PROVE  TypeOK'
<1>1. StreamTypeOK' /\ LogGrows
  BY ProcessStepStream, StreamUnchanged, XADDType DEF TypeOK, StreamTypeOK, LogGrows
<1>2. WorkerTypeOK'
  BY <1>1, ProcessStepIs, ProcessStepMoves, GotoType DEF TypeOK, LogGrows
<1>3. APITypeOK'
  BY ProcessStepIs DEF apiVars, TypeOK, APITypeOK
<1> QED
  BY <1>1, <1>2, <1>3, ProcessStepStore DEF TypeOK

------------------------------------------------------------------------------
(* The loop of run and the scan of pending messages.                           *)

(* What XPENDING returns.                                                      *)
LEMMA SnapshotType ==
  ASSUME StreamTypeOK, NEW s
  PROVE  Snapshot(s) \in SUBSET (Nat \X Nat)
BY DEF StreamTypeOK, Snapshot, Pending, Ids

(* A step of a worker that is not in process_job.                              *)
LEMMA LoopStepType ==
  ASSUME TypeOK, NEW w \in Workers,
         \E step \in Steps \ JobSteps : pc' = [pc EXCEPT ![w] = step],
         todo' \in [Workers -> SUBSET (Nat \X Nat)], msg' \in [Workers -> 0 .. Len(log)],
         \A v \in Workers \ {w} : msg'[v] = msg[v],
         claimed' \in [Workers -> BOOLEAN], err' \in [Workers -> {"none"} \cup Errors],
         count' \in [Workers -> Nat], crashes' \in Nat,
         UNCHANGED <<apiVars, storeVars>>, StreamTypeOK', log' = log
  PROVE  TypeOK'
<1>1. WorkerTypeOK'
  BY DEF TypeOK, WorkerTypeOK, Working
<1>2. APITypeOK'
  BY DEF apiVars, TypeOK, APITypeOK
<1> QED
  BY <1>1, <1>2, StoreUnchanged DEF TypeOK

(* process_job is called.                                                      *)
LEMMA StartJobType ==
  ASSUME TypeOK, NEW w \in Workers, NEW m \in Ids, NEW viaClaim \in BOOLEAN,
         StartJob(w, m, viaClaim), todo' \in [Workers -> SUBSET (Nat \X Nat)],
         UNCHANGED <<err, count, crashes, apiVars, storeVars>>, StreamTypeOK', log' = log
  PROVE  TypeOK'
<1>1. WorkerTypeOK'
  <2>1. m \in 0 .. Len(log) /\ m # 0
    BY DEF TypeOK, StreamTypeOK, Ids
  <2>2. pc' \in [Workers -> Steps]
    BY DEF TypeOK, WorkerTypeOK, StartJob, Goto, Steps, JobSteps, TrySteps
  <2>3. msg' \in [Workers -> 0 .. Len(log)] /\ claimed' \in [Workers -> BOOLEAN]
    BY <2>1 DEF TypeOK, WorkerTypeOK, StartJob
  <2>4. \A v \in Workers : Working(v)' => msg'[v] # 0
    BY <2>1 DEF TypeOK, WorkerTypeOK, StartJob, Goto, Working
  <2> QED
    BY <2>2, <2>3, <2>4 DEF TypeOK, WorkerTypeOK
<1>2. APITypeOK'
  BY DEF apiVars, TypeOK, APITypeOK
<1> QED
  BY <1>1, <1>2, StoreUnchanged DEF TypeOK

(* The scan of the high-priority stream begins.                                *)
LEMMA ScanType ==
  ASSUME TypeOK, NEW w \in Workers, Scan(w)
  PROVE  TypeOK'
<1>1. StreamTypeOK' /\ log' = log
  BY StreamUnchanged DEF Scan, TypeOK
<1>2. todo' \in [Workers -> SUBSET (Nat \X Nat)]
  BY SnapshotType DEF Scan, TypeOK, WorkerTypeOK
<1>3. "scanHigh" \in Steps \ JobSteps
  BY DEF Steps, JobSteps, ScanSteps, TrySteps, ErrorSteps
<1> QED
  BY <1>1, <1>2, <1>3, LoopStepType DEF Scan, Goto, TypeOK, WorkerTypeOK

(* The high-priority stream is read.                                           *)
LEMMA ReadHighType ==
  ASSUME TypeOK, NEW w \in Workers, ReadHigh(w)
  PROVE  TypeOK'
<1>1. CASE Unread("high") # {}
  <2>1. PICK m : XREADGROUP("high", m) /\ StartJob(w, m, FALSE)
    BY <1>1 DEF ReadHigh
  <2>2. StreamTypeOK' /\ m \in Ids /\ log' = log
    BY <2>1, XREADGROUPType DEF TypeOK
  <2> QED
    BY <2>1, <2>2, StartJobType DEF ReadHigh, TypeOK, WorkerTypeOK
<1>2. CASE Unread("high") = {}
  <2>1. "low" \in Steps \ JobSteps
    BY DEF Steps, JobSteps, ScanSteps, TrySteps, ErrorSteps
  <2> QED
    BY <1>2, <2>1, StreamUnchanged, LoopStepType DEF ReadHigh, Goto, TypeOK, WorkerTypeOK
<1> QED
  BY <1>1, <1>2

(* The low-priority stream is read.                                            *)
LEMMA ReadLowType ==
  ASSUME TypeOK, NEW w \in Workers, ReadLow(w)
  PROVE  TypeOK'
<1>1. CASE Unread("low") # {}
  <2>1. PICK m : XREADGROUP("low", m) /\ StartJob(w, m, FALSE)
    BY <1>1 DEF ReadLow
  <2>2. StreamTypeOK' /\ m \in Ids /\ log' = log
    BY <2>1, XREADGROUPType DEF TypeOK
  <2> QED
    BY <2>1, <2>2, StartJobType DEF ReadLow, TypeOK, WorkerTypeOK
<1>2. CASE Unread("low") = {}
  <2>1. "loop" \in Steps \ JobSteps
    BY DEF Steps, JobSteps, ScanSteps, TrySteps, ErrorSteps
  <2> QED
    BY <1>2, <2>1, StreamUnchanged, LoopStepType DEF ReadLow, Goto, TypeOK, WorkerTypeOK
<1> QED
  BY <1>1, <1>2

(* A pending message gets old.                                                 *)
LEMMA BecomeIdleType ==
  ASSUME TypeOK, NEW m \in Pending, BecomeIdle(m)
  PROVE  TypeOK'
<1>1. StreamTypeOK' /\ log' = log
  BY DEF BecomeIdle, TypeOK, StreamTypeOK, Ids, Pending
<1>2. APITypeOK'
  BY DEF BecomeIdle, apiVars, TypeOK, APITypeOK
<1> QED
  BY <1>1, <1>2, StoreUnchanged, WorkerUnchanged DEF BecomeIdle, TypeOK

(* What inspecting a pending message leaves well typed.                        *)
LEMMA InspectsType ==
  ASSUME TypeOK, NEW w \in Workers, NEW t, Inspects(w, t)
  PROVE  /\ todo' \in [Workers -> SUBSET (Nat \X Nat)]
         /\ pc[w] \in Steps \ JobSteps
         /\ UNCHANGED <<err, count, crashes, apiVars, storeVars>>
BY DEF Inspects, TypeOK, WorkerTypeOK, Steps, JobSteps, ScanSteps, TrySteps, ErrorSteps

(* A message that is inspected and not processed.                              *)
LEMMA PassedOverType ==
  ASSUME TypeOK, NEW w \in Workers, NEW t, Inspects(w, t), UNCHANGED <<pc, msg, claimed>>,
         StreamTypeOK', log' = log
  PROVE  TypeOK'
<1>1. pc' = [pc EXCEPT ![w] = pc[w]]
  BY DEF TypeOK, WorkerTypeOK
<1> QED
  BY <1>1, InspectsType, LoopStepType DEF TypeOK, WorkerTypeOK

(* The outcomes of inspecting a pending message.                               *)
LEMMA InspectionType ==
  ASSUME TypeOK, NEW w \in Workers, NEW t \in todo[w],
         DeadLetter(w, t) \/ ClaimNothing(w, t) \/ Claim(w, t) \/ AckOrphan(w, t)
  PROVE  TypeOK'
<1>1. CASE DeadLetter(w, t)
  BY <1>1, XACKType, PassedOverType DEF DeadLetter, TypeOK
<1>2. CASE ClaimNothing(w, t)
  BY <1>2, StreamUnchanged, PassedOverType DEF ClaimNothing, TypeOK
<1>3. CASE Claim(w, t)
  <2>1. StreamTypeOK' /\ log' = log /\ t[1] \in Ids /\ Inspects(w, t)
    BY <1>3, XCLAIMType DEF Claim, TypeOK
  <2>2. CASE UNCHANGED <<pc, msg, claimed>>
    BY <2>1, <2>2, PassedOverType
  <2>3. CASE StartJob(w, t[1], TRUE)
    BY <2>1, <2>3, InspectsType, StartJobType
  <2> QED
    BY <1>3, <2>2, <2>3 DEF Claim
<1>4. CASE AckOrphan(w, t)
  BY <1>4, XACKType, XCLAIMType, PassedOverType DEF AckOrphan, TypeOK
<1> QED
  BY <1>1, <1>2, <1>3, <1>4

(* A scan that is cut short.                                                   *)
LEMMA ScanAbortedType ==
  ASSUME TypeOK, NEW w \in Workers, ScanAborted(w)
  PROVE  TypeOK'
<1>1. StreamTypeOK' /\ log' = log
  BY StreamUnchanged DEF ScanAborted, TypeOK
<1>2. pc[w] \in Steps \ JobSteps /\ pc' = [pc EXCEPT ![w] = pc[w]]
  BY DEF ScanAborted, TypeOK, WorkerTypeOK, Steps, JobSteps, ScanSteps, TrySteps, ErrorSteps
<1> QED
  BY <1>1, <1>2, LoopStepType DEF ScanAborted, TypeOK, WorkerTypeOK

(* The end of the scan of a stream.                                            *)
LEMMA ScanDoneType ==
  ASSUME TypeOK, NEW w \in Workers, ScanDone(w)
  PROVE  TypeOK'
<1>1. StreamTypeOK' /\ log' = log
  BY StreamUnchanged DEF ScanDone, TypeOK
<1>2. todo' = [todo EXCEPT ![w] = Snapshot("low")] \/ todo' = todo
  BY DEF ScanDone
<1>3. todo' \in [Workers -> SUBSET (Nat \X Nat)]
  BY <1>2, SnapshotType DEF TypeOK, WorkerTypeOK
<1>4. "scanLow" \in Steps \ JobSteps /\ "loop" \in Steps \ JobSteps
  BY DEF Steps, JobSteps, ScanSteps, TrySteps, ErrorSteps
<1>5. \E step \in Steps \ JobSteps : pc' = [pc EXCEPT ![w] = step]
  BY <1>4 DEF ScanDone, Goto
<1> QED
  BY <1>1, <1>3, <1>5, LoopStepType DEF ScanDone, TypeOK, WorkerTypeOK

(* process_job has ended.                                                      *)
LEMMA LeaveJobType ==
  ASSUME TypeOK, NEW w \in Workers, LeaveJob(w), StreamTypeOK', log' = log
  PROVE  TypeOK'
<1>1. {"scanHigh", "scanLow", "loop"} \subseteq Steps \ JobSteps
  BY DEF Steps, JobSteps, ScanSteps, TrySteps, ErrorSteps
<1>2. \E step \in Steps \ JobSteps : pc' = [pc EXCEPT ![w] = step]
  BY <1>1 DEF LeaveJob, Goto
<1>3. msg' \in [Workers -> 0 .. Len(log)]
  BY DEF LeaveJob, TypeOK, WorkerTypeOK, StreamTypeOK
<1> QED
  BY <1>2, <1>3, LoopStepType DEF LeaveJob, TypeOK, WorkerTypeOK

(* process_job returned.                                                       *)
LEMMA ReturnType ==
  ASSUME TypeOK, NEW w \in Workers, Return(w)
  PROVE  TypeOK'
BY LeaveJobType, XACKType, XACKandXTRIMType, StreamUnchanged DEF Return, TypeOK

(* process_job raised.                                                         *)
LEMMA RaiseType ==
  ASSUME TypeOK, NEW w \in Workers, Raise(w)
  PROVE  TypeOK'
BY LeaveJobType, XACKType, StreamUnchanged DEF Raise, TypeOK

(* The process of a worker dies.                                               *)
LEMMA CrashType ==
  ASSUME TypeOK, NEW w \in Workers, Crash(w)
  PROVE  TypeOK'
<1>1. StreamTypeOK' /\ log' = log
  BY StreamUnchanged DEF Crash, TypeOK
<1>2. "down" \in Steps \ JobSteps
  BY DEF Steps, JobSteps, ScanSteps, TrySteps, ErrorSteps
<1>3. msg' \in [Workers -> 0 .. Len(log)]
  BY DEF Crash, TypeOK, WorkerTypeOK, StreamTypeOK
<1>4. /\ todo' \in [Workers -> SUBSET (Nat \X Nat)]
      /\ claimed' \in [Workers -> BOOLEAN]
      /\ err' \in [Workers -> {"none"} \cup Errors]
      /\ count' \in [Workers -> Nat] /\ crashes' \in Nat
      /\ \A v \in Workers \ {w} : msg'[v] = msg[v]
  BY DEF Crash, TypeOK, WorkerTypeOK
<1> QED
  BY <1>1, <1>2, <1>3, <1>4, LoopStepType DEF Crash, Goto

------------------------------------------------------------------------------
(* So does every step of a worker.                                             *)
LEMMA WorkerStepType ==
  ASSUME TypeOK, NEW w \in Workers, WorkerStep(w)
  PROVE  TypeOK'
<1>1. CASE Start(w) \/ PeriodicScan(w) \/ ReadStep(w) \/ ScanStep(w) \/ Crash(w)
  BY <1>1, ScanType, ReadHighType, ReadLowType, ScanAbortedType, ScanDoneType, InspectionType,
    CrashType
    DEF Start, PeriodicScan, ReadStep, ScanStep
<1>2. CASE PipelineStep(w) \/ Fail(w) \/ ErrorStep(w)
  BY <1>2, ProcessStepType DEF ProcessStep
<1>3. CASE Return(w) \/ Raise(w)
  BY <1>3, ReturnType, RaiseType
<1> QED
  BY <1>1, <1>2, <1>3 DEF WorkerStep, JobStep

(* The types hold at first.                                                    *)
LEMMA TypeInit == Init => TypeOK
<1> SUFFICES ASSUME Init PROVE TypeOK
  OBVIOUS
<1>1. StreamTypeOK
  BY DEF Init, StreamInit, StreamTypeOK, Pending
<1>2. StoreTypeOK
  BY DEF Init, StoreInit, StoreTypeOK, Stages
<1>3. APITypeOK
  BY DEF Init, APIInit, APITypeOK, UploadSteps, NoReprocess, StartStages
<1>4. WorkerTypeOK
  BY DEF Init, StreamInit, WorkerInit, WorkerTypeOK, Working, Steps, JobSteps, TrySteps, ErrorSteps
<1> QED
  BY <1>1, <1>2, <1>3, <1>4 DEF TypeOK

(* Every step preserves them.                                                  *)
LEMMA TypeStep == TypeOK /\ [Next]_vars => TypeOK'
<1> SUFFICES ASSUME TypeOK, [Next]_vars PROVE TypeOK'
  OBVIOUS
<1>1. CASE UNCHANGED vars
  BY <1>1, StreamUnchanged, StoreUnchanged, WorkerUnchanged
    DEF vars, TypeOK, APITypeOK, apiVars
<1>2. CASE Next
  BY <1>2, APIStepType, BecomeIdleType, WorkerStepType DEF Next
<1> QED
  BY <1>1, <1>2

(* Every variable of the streams, the store, the requests and the workers keeps *)
(* to its type, whatever the constants: in particular whoever works on a       *)
(* message works on one that was added (XADD, XREADGROUP and XCLAIM).          *)
THEOREM TypeCorrect == Spec => []TypeOK
  BY TypeInit, TypeStep, PTL DEF Spec

------------------------------------------------------------------------------
(* The log only grows, so a worker's job stays what it is.                     *)

(* At most one job, of J, is added.                                            *)
Adds(J) == log' = log \/ \E job \in J : log' = Append(log, job)

(* What was added stays.                                                       *)
LEMMA JobsStay ==
  ASSUME StreamTypeOK, Adds(Jobs)
  PROVE  /\ Ids \subseteq Ids' /\ \A m \in Ids : log'[m] = log[m]
         /\ Ids' \subseteq Ids \cup {Len(log) + 1}
BY DEF StreamTypeOK, Adds, Ids

(* So does the job of a worker that keeps its message.                         *)
LEMMA JobStays ==
  ASSUME TypeOK, Adds(Jobs), NEW w \in Workers, Working(w), msg'[w] = msg[w]
  PROVE  Job(w)' = Job(w) /\ File(w)' = File(w)
BY JobType, JobsStay DEF TypeOK, Job, File

(* The jobs that requests add.                                                 *)
LEMMA APIAdds ==
  ASSUME TypeOK, NEW f \in Files, APIStep(f)
  PROVE  Adds({UploadJob(f, upload[f] = "createdForced", 1), UploadJob(f, TRUE, 2),
               ReprocessJob(f)})
BY DEF Adds, APIStep, UploadStep, ReprocessStep, CancelStep, DeleteStep,
    UploadCheckDuplicate, UploadForced, UploadCreate, UploadMedia, UploadReuse, Reprocess,
    ReprocessVectors, ReprocessStatus, CancelRead, CancelFlag, CancelWrite, CancelExpire,
    Delete, DeleteVectorsStep, DeleteRow, UploadEnqueue, UploadTrigger, ReprocessEnqueue,
    XADD, XADDUntrimmed, streamVars

(* The jobs that process_job adds.                                             *)
LEMMA ProcessAdds ==
  ASSUME TypeOK, NEW w \in Workers, ProcessStep(w)
  PROVE  \/ log' = log
         \/ EnqueuePass2(w) /\ log' = Append(log, Pass2Job(Job(w)))
         \/ RequeueAdd(w) /\ log' = Append(log, RetryJob(Job(w), count[w]))
<1>1. CASE EnqueuePass2(w) \/ RequeueAdd(w)
  BY <1>1 DEF EnqueuePass2, RequeueAdd, XADD, streamVars
<1>2. CASE StatusStep(w)
  BY <1>2, StatusStepIs DEF StatusOnly, streamVars
<1>3. CASE ~ StatusStep(w) /\ ~ EnqueuePass2(w) /\ ~ RequeueAdd(w)
  BY <1>3 DEF ProcessStep, PipelineStep, StatusStep, ErrorStep, Begin, Duplicate, Load, Store,
    Markdown, AppendVectors, Pass1, Pass2, Replace, MarkdownAgain, RecordMarkdown, Fail,
    ShouldRetry, RequeueCount, Requeue, MarkFailed, streamVars
<1> QED
  BY <1>1, <1>2, <1>3

(* It neither creates nor deletes rows.                                        *)
LEMMA ProcessStepRow ==
  ASSUME TypeOK, NEW w \in Workers, ProcessStep(w)
  PROVE  row' = row
<1>1. CASE StatusStep(w)
  BY <1>1, StatusStepIs DEF StatusOnly
<1>2. CASE ~ StatusStep(w)
  BY <1>2 DEF ProcessStep, PipelineStep, StatusStep, ErrorStep, Begin, Duplicate, Load, Store,
    Markdown, AppendVectors, Pass1, Pass2, Replace, MarkdownAgain, RecordMarkdown, EnqueuePass2,
    Fail, ShouldRetry, RequeueCount, Requeue, RequeueAdd, MarkFailed, storeVars, dbVars
<1> QED
  BY <1>1, <1>2

(* The steps of a worker outside process_job.                                  *)
LoopStep(w) ==
  \/ Start(w) \/ PeriodicScan(w) \/ ReadStep(w) \/ ScanStep(w) \/ Crash(w)
  \/ Return(w) \/ Raise(w)

(* They touch neither rows nor requests, and add no job.                       *)
LEMMA LoopStepIs ==
  ASSUME TypeOK, NEW w \in Workers, LoopStep(w)
  PROVE  /\ UNCHANGED <<apiVars, storeVars, log>>
         /\ \A v \in Workers \ {w} : pc'[v] = pc[v] /\ msg'[v] = msg[v] /\ count'[v] = count[v]
                                     /\ claimed'[v] = claimed[v] /\ err'[v] = err[v]
         /\ Working(w)' => pc'[w] = "begin"
<1>1. CASE Start(w) \/ PeriodicScan(w) \/ ScanAborted(w) \/ ScanDone(w) \/ Crash(w)
  BY <1>1 DEF Start, PeriodicScan, Scan, ScanAborted, ScanDone, Crash, Goto, Working, JobSteps,
    TrySteps, ErrorSteps, ScanSteps, streamVars, TypeOK, WorkerTypeOK
<1>2. CASE ReadStep(w)
  BY <1>2 DEF ReadStep, ReadHigh, ReadLow, XREADGROUP, StartJob, Goto, Working, JobSteps,
    TrySteps, ErrorSteps, streamVars, TypeOK, WorkerTypeOK
<1>3. CASE Return(w) \/ Raise(w)
  BY <1>3 DEF Return, Raise, LeaveJob, XACK, XACKandXTRIM, Acked, Goto, Working, JobSteps,
    TrySteps, ErrorSteps, streamVars, TypeOK, WorkerTypeOK
<1>4. ASSUME NEW t \in todo[w],
             DeadLetter(w, t) \/ ClaimNothing(w, t) \/ Claim(w, t) \/ AckOrphan(w, t)
      PROVE  /\ UNCHANGED <<apiVars, storeVars, log, err, count>>
             /\ pc[w] \in ScanSteps
             /\ UNCHANGED <<pc, msg, claimed>> \/ StartJob(w, t[1], TRUE)
  BY <1>4 DEF DeadLetter, ClaimNothing, Claim, AckOrphan, Inspects, XACK, XCLAIM, Acked, streamVars
<1>5. CASE \E t \in todo[w] :
        DeadLetter(w, t) \/ ClaimNothing(w, t) \/ Claim(w, t) \/ AckOrphan(w, t)
  BY <1>4, <1>5 DEF StartJob, Goto, Working, JobSteps, TrySteps, ErrorSteps, ScanSteps, TypeOK,
    WorkerTypeOK
<1> QED
  BY <1>1, <1>2, <1>3, <1>5 DEF LoopStep, ScanStep

(* A step of a worker is one or the other.                                     *)
LEMMA WorkerStepIs ==
  ASSUME NEW w, WorkerStep(w)
  PROVE  LoopStep(w) \/ ProcessStep(w)
BY DEF WorkerStep, JobStep, LoopStep, ProcessStep
==============================================================================
