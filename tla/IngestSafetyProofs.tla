------------------------- MODULE IngestSafetyProofs --------------------------
(* Safety of the ingestion service: deleted files, messages of their own, what *)
(* a completed file can be relied upon for.                                    *)
EXTENDS IngestTypeProofs, FiniteSetTheorems

------------------------------------------------------------------------------
(* NoResurrection is inductive: whatever writes to a file looks for its row in *)
(* the same statement.                                                         *)

(* Nothing is written.                                                         *)
LEMMA ResurrectionUnchanged ==
  ASSUME NoResurrection, UNCHANGED dbVars
  PROVE  NoResurrection'
BY DEF NoResurrection, dbVars

(* Rows are deleted, and what belongs to them.                                *)
LEMMA ResurrectionDelete ==
  ASSUME TypeOK, NoResurrection, NEW D, DeleteRows(D)
  PROVE  NoResurrection'
BY DEF NoResurrection, DeleteRows, TypeOK, StoreTypeOK

(* A status is written to a row that is there.                                 *)
LEMMA ResurrectionSetStage ==
  ASSUME TypeOK, NoResurrection, NEW f \in row, NEW s, SetStage(f, s),
         UNCHANGED <<row, retries, chunks, md>>
  PROVE  NoResurrection'
BY DEF NoResurrection, SetStage, TypeOK, StoreTypeOK

(* The requests.                                                               *)
LEMMA ResurrectionAPI ==
  ASSUME TypeOK, NoResurrection, NEW f \in Files, APIStep(f)
  PROVE  NoResurrection'
<1>1. CASE UploadCheckDuplicate(f) \/ DeleteRow(f)
  BY <1>1, ResurrectionDelete DEF UploadCheckDuplicate, DeleteRow
<1>2. CASE UploadCreate(f) \/ UploadReuse(f)
  BY <1>2, ResurrectionUnchanged
    DEF UploadCreate, UploadReuse, CreateRow, SetStage, NoResurrection, TypeOK, StoreTypeOK, dbVars
<1>3. CASE UploadMedia(f) \/ ReprocessStatus(f) \/ CancelWrite(f)
  BY <1>3, ResurrectionSetStage, ResurrectionUnchanged
    DEF UploadMedia, ReprocessStatus, CancelWrite, SetStageIfRow, dbVars
<1>4. CASE Reprocess(f)
  BY <1>4 DEF Reprocess, NoResurrection
<1>5. CASE \/ UploadForced(f) \/ UploadEnqueue(f) \/ UploadTrigger(f)
           \/ ReprocessVectors(f) \/ ReprocessEnqueue(f) \/ CancelRead(f) \/ CancelFlag(f)
           \/ CancelExpire(f) \/ Delete(f) \/ DeleteVectorsStep(f)
  BY <1>5, ResurrectionUnchanged
    DEF UploadForced, UploadEnqueue, UploadTrigger, ReprocessVectors, ReprocessEnqueue,
        CancelRead, CancelFlag, CancelExpire, Delete, DeleteVectorsStep, storeVars, dbVars
<1> QED
  BY <1>1, <1>2, <1>3, <1>4, <1>5
    DEF APIStep, UploadStep, ReprocessStep, CancelStep, DeleteStep

(* update_status.                                                              *)
LEMMA ResurrectionUpdateStatus ==
  ASSUME TypeOK, NoResurrection, NEW w, NEW s, NEW next, UpdateStatus(w, s, next),
         UNCHANGED <<row, retries, chunks, md>>
  PROVE  NoResurrection'
BY ResurrectionSetStage, ResurrectionUnchanged DEF UpdateStatus, dbVars

(* The steps of process_job.                                                   *)
LEMMA ResurrectionPipeline ==
  ASSUME TypeOK, NoResurrection, NEW w \in Workers, PipelineStep(w)
  PROVE  NoResurrection'
<1>1. CASE StatusStep(w)
  BY <1>1, StatusStepIs, ResurrectionUpdateStatus DEF StatusOnly
<1>2. CASE Duplicate(w)
  BY <1>2, ResurrectionSetStage, ResurrectionUnchanged DEF Duplicate, dbVars
<1>3. CASE Store(w) \/ Markdown(w) \/ MarkdownAgain(w)
  BY <1>3 DEF Store, Markdown, MarkdownAgain, RecordMarkdown, NoResurrection
<1>4. CASE Pass1(w) \/ Pass2(w)
  <2>1. PICK next : CancelOr(w, next)
    BY <1>4 DEF Pass1, Pass2
  <2>2. UNCHANGED <<row, retries, chunks, md>>
    BY <1>4 DEF Pass1, Pass2
  <2> QED
    BY <2>1, <2>2, ResurrectionSetStage, ResurrectionUnchanged
      DEF CancelOr, HandleCancellation, dbVars
<1>5. CASE Begin(w) \/ Load(w) \/ AppendVectors(w) \/ EnqueuePass2(w) \/ Replace(w)
  BY <1>5, ResurrectionUnchanged
    DEF Begin, Load, AppendVectors, EnqueuePass2, Replace, storeVars, dbVars
<1> QED
  BY <1>1, <1>2, <1>3, <1>4, <1>5 DEF PipelineStep, StatusStep

(* Every step of a worker.                                                     *)
LEMMA ResurrectionWorker ==
  ASSUME TypeOK, NoResurrection, NEW w \in Workers, WorkerStep(w)
  PROVE  NoResurrection'
<1>1. CASE PipelineStep(w)
  BY <1>1, ResurrectionPipeline
<1>2. CASE Requeue(w) \/ MarkFailed(w)
  BY <1>2 DEF Requeue, MarkFailed, SetStageIfRow, SetStage, NoResurrection, TypeOK, StoreTypeOK
<1>3. CASE \/ Fail(w) \/ ShouldRetry(w) \/ RequeueCount(w) \/ RequeueAdd(w) \/ Return(w)
           \/ Raise(w) \/ Crash(w) \/ Start(w) \/ PeriodicScan(w) \/ ReadStep(w)
  BY <1>3, ResurrectionUnchanged
    DEF Fail, ShouldRetry, RequeueCount, RequeueAdd, Return, Raise, LeaveJob, Crash, Start,
        PeriodicScan, Scan, ReadStep, ReadHigh, ReadLow, storeVars, dbVars
<1>4. CASE ScanStep(w)
  BY <1>4, ResurrectionUnchanged
    DEF ScanStep, ScanAborted, ScanDone, DeadLetter, ClaimNothing, Claim, AckOrphan, Inspects, storeVars, dbVars
<1> QED
  BY <1>1, <1>2, <1>3, <1>4 DEF WorkerStep, JobStep, ErrorStep

(* Every step.                                                                 *)
LEMMA ResurrectionStep ==
  TypeOK /\ NoResurrection /\ [Next]_vars => NoResurrection'
<1> SUFFICES ASSUME TypeOK, NoResurrection, [Next]_vars PROVE NoResurrection'
  OBVIOUS
<1>1. CASE UNCHANGED vars
  BY <1>1, ResurrectionUnchanged DEF vars, storeVars, dbVars
<1>2. CASE \E m \in Pending : BecomeIdle(m)
  BY <1>2, ResurrectionUnchanged DEF BecomeIdle, storeVars, dbVars
<1> QED
  BY <1>1, <1>2, ResurrectionAPI, ResurrectionWorker DEF Next

(* A deleted file stays deleted: no job, request, retry or late write leaves a *)
(* status, a retry count, chunks or markdown behind for a file without a row   *)
(* (update_status and insert_chunks against delete_file and check_duplicate).  *)
THEOREM NothingResurrected == Spec => []NoResurrection
<1>1. Init => NoResurrection
  BY DEF Init, StoreInit, NoResurrection
<1> QED
  BY <1>1, TypeCorrect, ResurrectionStep, PTL DEF Spec
------------------------------------------------------------------------------
(* OneWorkerPerMessage needs to know that a message has one place at a time:   *)
(* unread, old enough to be claimed, or in the hands of a worker.              *)
Exclusive ==
  /\ unread \cap Pending = {}
  /\ \A w \in Workers : Working(w) => msg[w] \notin unread \cup idle
  /\ OneWorkerPerMessage

(* No message becomes available to another worker, except a new one.           *)
NothingReleased ==
  /\ unread' \subseteq unread \cup {Len(log) + 1}
  /\ Pending' \subseteq Pending
  /\ idle' \subseteq idle

(* No command but a delivery takes a message out of where it was.              *)
LEMMA CommandsReleaseNothing ==
  ASSUME StreamTypeOK
  PROVE  /\ UNCHANGED streamVars => NothingReleased
         /\ \A job \in Jobs : XADD(job) => NothingReleased
         /\ \A m : XACK(m) => NothingReleased
         /\ \A m : XACKandXTRIM(m) => NothingReleased
         /\ \A m : XCLAIM(m) => NothingReleased
<1>1. UNCHANGED streamVars => NothingReleased
  BY DEF streamVars, NothingReleased, Pending
<1>2. ASSUME NEW job \in Jobs, XADD(job) PROVE NothingReleased
  BY <1>2, XADDType DEF XADD, NothingReleased, Pending
<1>3. ASSUME NEW m, XACK(m) PROVE NothingReleased
  BY <1>3 DEF XACK, Acked, NothingReleased, Pending
<1>4. ASSUME NEW m, XACKandXTRIM(m) PROVE NothingReleased
  BY <1>4 DEF XACKandXTRIM, Acked, NothingReleased, Pending
<1>5. ASSUME NEW m, XCLAIM(m) PROVE NothingReleased
  BY <1>5 DEF XCLAIM, NothingReleased, Pending
<1> QED
  BY <1>1, <1>2, <1>3, <1>4, <1>5

(* A step that starts no job and releases nothing keeps the messages exclusive. *)
LEMMA ExclusiveKept ==
  ASSUME TypeOK, Exclusive, NothingReleased,
         \A w \in Workers : Working(w)' => Working(w) /\ msg'[w] = msg[w]
  PROVE  Exclusive'
<1>1. Len(log) + 1 \notin Pending
  BY DEF TypeOK, StreamTypeOK, Ids
<1>2. \A w \in Workers : Working(w) => msg[w] # Len(log) + 1
  BY DEF TypeOK, StreamTypeOK, WorkerTypeOK
<1>3. (unread \cap Pending = {})'
  BY <1>1 DEF Exclusive, NothingReleased
<1>4. \A w \in Workers : Working(w)' => msg'[w] \notin unread' \cup idle'
  BY <1>2 DEF Exclusive, NothingReleased
<1>5. OneWorkerPerMessage'
  BY DEF Exclusive, OneWorkerPerMessage
<1> QED
  BY <1>3, <1>4, <1>5 DEF Exclusive

(* The requests only add jobs.                                                 *)
LEMMA ExclusiveAPI ==
  ASSUME TypeOK, Exclusive, NEW f \in Files, APIStep(f), UNCHANGED workerVars
  PROVE  Exclusive'
<1>1. CASE UploadEnqueue(f) \/ UploadTrigger(f) \/ ReprocessEnqueue(f)
  BY <1>1, APIJobs, UntrimmedIsXADD, CommandsReleaseNothing, ExclusiveKept
    DEF UploadEnqueue, UploadTrigger, ReprocessEnqueue, TypeOK, workerVars, Working
<1>2. CASE UNCHANGED streamVars
  BY <1>2, CommandsReleaseNothing, ExclusiveKept DEF TypeOK, workerVars, Working
<1> QED
  BY <1>1, <1>2 DEF APIStep, UploadStep, ReprocessStep, CancelStep, DeleteStep,
    UploadCheckDuplicate, UploadForced, UploadCreate, UploadMedia, UploadReuse, Reprocess,
    ReprocessVectors, ReprocessStatus, CancelRead, CancelFlag, CancelWrite, CancelExpire,
    Delete, DeleteVectorsStep, DeleteRow

(* process_job takes no message and releases none.                             *)
LEMMA ExclusiveProcess ==
  ASSUME TypeOK, Exclusive, NEW w \in Workers, ProcessStep(w)
  PROVE  Exclusive'
<1>1. NothingReleased
  BY ProcessStepStream, CommandsReleaseNothing DEF TypeOK
<1>2. \A v \in Workers : Working(v)' => Working(v) /\ msg'[v] = msg[v]
  BY ProcessStepIs, ProcessStepMoves DEF Working, TypeOK, WorkerTypeOK
<1> QED
  BY <1>1, <1>2, ExclusiveKept

(* A delivery gives a worker a message that nobody had.                        *)
LEMMA ExclusiveRead ==
  ASSUME TypeOK, Exclusive, NEW w \in Workers, NEW s, NEW m, XREADGROUP(s, m),
         StartJob(w, m, FALSE)
  PROVE  Exclusive'
<1>1. m \in unread /\ m \notin Pending /\ unread' = unread \ {m} /\ idle' = idle
      /\ Pending' = Pending \cup {m}
  BY DEF XREADGROUP, Oldest, Unread, Exclusive, Pending
<1>2. \A v \in Workers : Working(v)' => IF v = w THEN msg'[v] = m ELSE Working(v) /\ msg'[v] = msg[v]
  BY DEF StartJob, Goto, Working, TypeOK, WorkerTypeOK
<1>3. idle \subseteq Pending
  BY DEF TypeOK, StreamTypeOK
<1> QED
  BY <1>1, <1>2, <1>3 DEF Exclusive, OneWorkerPerMessage

(* A claim gives it one that is idle, and no worker has an idle message.       *)
LEMMA ExclusiveClaim ==
  ASSUME TypeOK, Exclusive, NEW w \in Workers, NEW m, XCLAIM(m), StartJob(w, m, TRUE)
  PROVE  Exclusive'
<1>1. m \in idle /\ unread' = unread /\ idle' = idle \ {m} /\ Pending' \subseteq Pending
  BY DEF XCLAIM, Pending
<1>2. \A v \in Workers : Working(v)' => IF v = w THEN msg'[v] = m ELSE Working(v) /\ msg'[v] = msg[v]
  BY DEF StartJob, Goto, Working, TypeOK, WorkerTypeOK
<1>3. m \notin unread
  BY <1>1 DEF TypeOK, StreamTypeOK, Exclusive
<1> QED
  BY <1>1, <1>2, <1>3 DEF Exclusive, OneWorkerPerMessage

(* Every step of a worker.                                                     *)
LEMMA ExclusiveWorker ==
  ASSUME TypeOK, Exclusive, NEW w \in Workers, WorkerStep(w)
  PROVE  Exclusive'
<1>1. CASE PipelineStep(w) \/ Fail(w) \/ ErrorStep(w)
  BY <1>1, ExclusiveProcess DEF ProcessStep
<1>2. CASE Return(w) \/ Raise(w) \/ Crash(w)
  <2>1. NothingReleased
    BY <1>2, CommandsReleaseNothing DEF Return, Raise, Crash, TypeOK
  <2>2. \A v \in Workers : Working(v)' => Working(v) /\ msg'[v] = msg[v]
    BY <1>2 DEF Return, Raise, LeaveJob, Crash, Goto, Working, JobSteps, TrySteps, ErrorSteps,
      TypeOK, WorkerTypeOK
  <2> QED
    BY <2>1, <2>2, ExclusiveKept
<1>3. CASE Start(w) \/ PeriodicScan(w) \/ ScanAborted(w) \/ ScanDone(w)
  <2>1. NothingReleased
    BY <1>3, CommandsReleaseNothing DEF Start, PeriodicScan, Scan, ScanAborted, ScanDone, TypeOK
  <2>2. \A v \in Workers : Working(v)' => Working(v) /\ msg'[v] = msg[v]
    BY <1>3 DEF Start, PeriodicScan, Scan, ScanAborted, ScanDone, Goto, Working, JobSteps, TrySteps,
      ErrorSteps, TypeOK, WorkerTypeOK
  <2> QED
    BY <2>1, <2>2, ExclusiveKept
<1>4. CASE ReadStep(w)
  <2>1. CASE \E s, m : XREADGROUP(s, m) /\ StartJob(w, m, FALSE)
    BY <2>1, ExclusiveRead
  <2>2. CASE UNCHANGED <<msg, streamVars>> /\ (Goto(w, "low") \/ Goto(w, "loop"))
    <3>1. \A v \in Workers : Working(v)' => Working(v) /\ msg'[v] = msg[v]
      BY <2>2 DEF Goto, Working, JobSteps, TrySteps, ErrorSteps, TypeOK, WorkerTypeOK
    <3> QED
      BY <2>2, <3>1, CommandsReleaseNothing, ExclusiveKept DEF TypeOK
  <2> QED
    BY <1>4, <2>1, <2>2 DEF ReadStep, ReadHigh, ReadLow
<1>5. ASSUME NEW t \in todo[w],
             DeadLetter(w, t) \/ ClaimNothing(w, t) \/ Claim(w, t) \/ AckOrphan(w, t)
      PROVE  Exclusive'
  <2>1. CASE XCLAIM(t[1]) /\ StartJob(w, t[1], TRUE)
    BY <2>1, ExclusiveClaim
  <2>2. CASE UNCHANGED <<pc, msg>>
    <3>1. NothingReleased
      BY <1>5, CommandsReleaseNothing DEF DeadLetter, ClaimNothing, Claim, AckOrphan, TypeOK
    <3> QED
      BY <2>2, <3>1, ExclusiveKept DEF Working
  <2> QED
    BY <1>5, <2>1, <2>2 DEF DeadLetter, ClaimNothing, Claim, AckOrphan
<1> QED
  BY <1>1, <1>2, <1>3, <1>4, <1>5 DEF WorkerStep, JobStep, ScanStep

(* Every step: without slow jobs a message in hand does not become idle.       *)
LEMMA ExclusiveStep ==
  ASSUME "slow" \notin Faults
  PROVE  TypeOK /\ Exclusive /\ [Next]_vars => Exclusive'
<1> SUFFICES ASSUME TypeOK, Exclusive, [Next]_vars PROVE Exclusive'
  OBVIOUS
<1>1. CASE UNCHANGED vars
  BY <1>1, CommandsReleaseNothing, ExclusiveKept DEF vars, workerVars, Working, TypeOK
<1>2. CASE \E m \in Pending : BecomeIdle(m)
  <2>1. PICK m \in Pending : BecomeIdle(m)
    BY <1>2
  <2>2. UNCHANGED <<unread, pel, pc, msg>> /\ idle' = idle \cup {m}
    BY <2>1 DEF BecomeIdle, workerVars
  <2>3. \A w \in Workers : Working(w) => msg[w] # m
    BY <2>1 DEF BecomeIdle
  <2> QED
    BY <2>2, <2>3 DEF Exclusive, OneWorkerPerMessage, Working, Pending
<1> QED
  BY <1>1, <1>2, ExclusiveAPI, ExclusiveWorker DEF Next

(* While no job lasts longer than the idle time of a claim, no two workers     *)
(* ever process the same message, whatever crashes, fails or is scanned late   *)
(* (XREADGROUP and XCLAIM in run and _claim_pending_on_stream).                *)
THEOREM MessagesAreExclusive ==
  ASSUME "slow" \notin Faults
  PROVE  Spec => []OneWorkerPerMessage
<1>1. Init => Exclusive
  BY DEF Init, StreamInit, WorkerInit, Exclusive, OneWorkerPerMessage, Working, JobSteps,
    TrySteps, ErrorSteps, Pending
<1>2. Exclusive => OneWorkerPerMessage
  BY DEF Exclusive
<1> QED
  BY <1>1, <1>2, TypeCorrect, ExclusiveStep, PTL DEF Spec

------------------------------------------------------------------------------
(* CompletedIsSearchable, while nobody asks for a second run and nobody        *)
(* deletes: vectors are then only added.                                       *)

(* The content of f has vectors.                                               *)
Found(f) == \E g \in Files : Hash[g] = Hash[f] /\ vecs[g] > 0

(* f is completed, or a request or a worker has decided to make it so.         *)
Promised(f) ==
  \/ stage[f] = "completed"
  \/ upload[f] = "dup"
  \/ \E w \in Workers : pc[w] \in {"duplicate", "complete"} /\ File(w) = f

(* The steps of partial runs and of the progressive pipeline.                  *)
OtherPaths == {"load", "entity", "entityDone", "fast", "fastDone", "pass1", "view", "enqueue",
               "pass1Done", "pass2", "replace", "markdownAgain", "enhanced"}

(* Every job starts from the beginning, and no worker is on another path.      *)
FullRuns ==
  /\ \A m \in Ids : log[m].start = "parsing"
  /\ \A w \in Workers : pc[w] \notin OtherPaths

(* Documents with text have vectors before every promise.                      *)
Textual == {f \in Files : Kind[f] # "media" /\ HasText(f)}

SearchInv ==
  /\ \A f \in Files : reproc[f].step = "none" /\ deletion[f] = "none"
  /\ FullRuns
  /\ \A f \in Textual : Promised(f) => Found(f)

(* What the theorem assumes of the constants.                                  *)
OneRun ==
  /\ MaxReprocess = 0 /\ Deletable = {}
  /\ \A f \in Files : Kind[f] # "pdf"
  /\ \A f, g \in Files : Hash[f] = Hash[g] => (Kind[f] = "media" <=> Kind[g] = "media")

LEMMA TextualTwins ==
  ASSUME OneRun, NEW f \in Textual, NEW g \in Files, Hash[g] = Hash[f]
  PROVE  g \in Textual
BY DEF OneRun, Textual, HasText

(* A step that takes no vectors away and makes no promise without them.        *)
LEMMA SearchKept ==
  ASSUME TypeOK, SearchInv,
         UNCHANGED <<reproc, deletion>>,
         Adds({job \in Jobs : job.start = "parsing"}),
         \A w \in Workers : pc'[w] \notin OtherPaths,
         \A f \in Files : vecs[f] > 0 => vecs'[f] > 0,
         \A f \in Textual : Promised(f)' => Promised(f) \/ Found(f) \/ Found(f)'
  PROVE  SearchInv'
<1>1. \A f \in Files : Found(f) => Found(f)'
  BY DEF Found
<1>2. \A m \in Ids' : log'[m].start = "parsing"
  BY DEF SearchInv, FullRuns, Adds, TypeOK, StreamTypeOK, Ids
<1> QED
  BY <1>1, <1>2 DEF SearchInv, FullRuns, Textual

(* The workers promise nothing new while they stay where they are.             *)
LEMMA SamePromises ==
  ASSUME TypeOK, Adds(Jobs),
         \A w \in Workers : pc'[w] \in {"duplicate", "complete"} => pc'[w] = pc[w] /\ msg'[w] = msg[w]
  PROVE  \A f \in Files : Promised(f)' =>
           Promised(f) \/ stage'[f] = "completed" \/ upload'[f] = "dup"
<1>1. \A w \in Workers : pc[w] \in {"duplicate", "complete"} => Working(w)
  BY DEF Working, JobSteps, TrySteps
<1> QED
  BY <1>1, JobStays DEF Promised

(* The requests: a duplicate is one of a completed file.                       *)
LEMMA SearchAPI ==
  ASSUME OneRun, TypeOK, SearchInv, NEW f \in Files, APIStep(f), UNCHANGED workerVars
  PROVE  SearchInv'
<1>1. ~ Reprocess(f) /\ ~ ReprocessStep(f) /\ ~ Delete(f) /\ ~ DeleteStep(f)
  BY DEF OneRun, Reprocess, ReprocessStep, ReprocessVectors, ReprocessStatus, ReprocessEnqueue,
    Delete, DeleteStep, DeleteVectorsStep, DeleteRow, SearchInv, TypeOK, APITypeOK
<1>2. UNCHANGED <<reproc, deletion, vecs>> /\ APIStep(f)
  BY <1>1 DEF APIStep, UploadStep, CancelStep, UploadCheckDuplicate, UploadForced, UploadCreate,
    UploadMedia, UploadEnqueue, UploadReuse, UploadTrigger, CancelRead, CancelFlag, CancelWrite,
    CancelExpire, storeVars, apiVars
<1>3. Adds({job \in Jobs : job.start = "parsing"}) /\ Adds(Jobs)
  <2>1. CASE UploadEnqueue(f) \/ UploadTrigger(f)
    BY <2>1, APIJobs DEF UploadEnqueue, UploadTrigger, Adds, XADD, UploadJob, streamVars
  <2>2. CASE log' = log
    BY <2>2 DEF Adds
  <2> QED
    BY <1>1, <2>1, <2>2 DEF APIStep, UploadStep, CancelStep, UploadCheckDuplicate, UploadForced,
      UploadCreate, UploadMedia, UploadReuse, CancelRead, CancelFlag, CancelWrite, CancelExpire,
      streamVars
<1>4. \A g \in Files : Promised(g)' =>
        Promised(g) \/ stage'[g] = "completed" \/ upload'[g] = "dup"
  BY <1>3, SamePromises DEF workerVars
<1>5. CASE UploadCheckDuplicate(f)
  <2>1. \A g \in Files : stage'[g] = "completed" => stage[g] = "completed"
    BY <1>5 DEF UploadCheckDuplicate, DeleteRows
  <2>2. \A g \in Files \ {f} : upload'[g] = upload[g]
    BY <1>5 DEF UploadCheckDuplicate, SetUpload, TypeOK, APITypeOK
  <2>3. ASSUME upload'[f] = "dup", f \in Textual PROVE Found(f)
    <3>1. PICK e \in FullyCompleted(f) : TRUE
      BY <1>5, <2>3 DEF UploadCheckDuplicate, SetUpload, TypeOK, APITypeOK
    <3>2. e \in Files /\ Hash[e] = Hash[f] /\ stage[e] = "completed"
      BY DEF FullyCompleted, Twins, TypeOK, StoreTypeOK
    <3>3. Found(e)
      BY <2>3, <3>2, TextualTwins DEF SearchInv, Promised
    <3> QED
      BY <3>2, <3>3 DEF Found
  <2>4. \A g \in Textual : Promised(g)' => Promised(g) \/ Found(g) \/ Found(g)'
    BY <1>4, <2>1, <2>2, <2>3 DEF Promised, Textual
  <2> QED
    BY <1>2, <1>3, <2>4, SearchKept DEF workerVars, SearchInv, FullRuns, TypeOK, StoreTypeOK
<1>6. CASE ~ UploadCheckDuplicate(f)
  <2>1. \A g \in Files : upload'[g] = "dup" => upload[g] = "dup"
    BY <1>1, <1>6 DEF APIStep, UploadStep, CancelStep, UploadForced, UploadCreate, UploadMedia,
      UploadEnqueue, UploadReuse, UploadTrigger, CancelRead, CancelFlag, CancelWrite, CancelExpire,
      SetUpload, storeVars, apiVars, TypeOK, APITypeOK
  <2>2. \A g \in Files : stage'[g] = "completed" => Promised(g) \/ Kind[g] = "media"
    BY <1>1, <1>6 DEF APIStep, UploadStep, CancelStep, UploadForced, UploadCreate, UploadMedia,
      UploadEnqueue, UploadReuse, UploadTrigger, CancelRead, CancelFlag, CancelWrite, CancelExpire,
      CreateRow, SetStageIfRow, SetStage, storeVars, dbVars, Promised, TypeOK, StoreTypeOK
  <2>3. \A g \in Textual : Promised(g)' => Promised(g) \/ Found(g) \/ Found(g)'
    BY <1>4, <2>1, <2>2 DEF Promised, Textual
  <2> QED
    BY <1>2, <1>3, <2>3, SearchKept DEF workerVars, SearchInv, FullRuns, TypeOK, StoreTypeOK
<1> QED
  BY <1>5, <1>6

(* The worker between its steps of process_job.                                *)
LEMMA SearchLoop ==
  ASSUME TypeOK, SearchInv, NEW w \in Workers, LoopStep(w), WorkerTypeOK'
  PROVE  SearchInv'
<1>1. UNCHANGED <<apiVars, storeVars, log>>
  BY LoopStepIs
<1>2. \A v \in Workers : pc'[v] = "begin" \/ pc'[v] \notin JobSteps
                         \/ (pc'[v] = pc[v] /\ msg'[v] = msg[v])
  BY LoopStepIs DEF Working
<1>3. OtherPaths \cup {"duplicate", "complete"} \subseteq JobSteps \ {"begin"}
  BY DEF OtherPaths, JobSteps, TrySteps
<1>4. Adds(Jobs) /\ Adds({job \in Jobs : job.start = "parsing"})
  BY <1>1 DEF Adds
<1>5. \A w1 \in Workers : pc'[w1] \notin OtherPaths
  BY <1>2, <1>3 DEF SearchInv, FullRuns
<1>6. \A f \in Files : Promised(f)' => Promised(f) \/ stage'[f] = "completed" \/ upload'[f] = "dup"
  BY <1>2, <1>3, <1>4, SamePromises
<1> QED
  BY <1>1, <1>4, <1>5, <1>6, SearchKept DEF Promised, storeVars, apiVars, TypeOK, StoreTypeOK, Textual

(* Where process_job goes on a full run of a document.                         *)
LEMMA FullRun ==
  ASSUME \A f \in Files : Kind[f] # "pdf", TypeOK, FullRuns, NEW w \in Workers, ProcessStep(w)
  PROVE  /\ pc'[w] \notin OtherPaths
         /\ pc'[w] = "complete" /\ pc[w] # "complete" => AppendVectors(w)
         /\ pc'[w] = "duplicate" /\ pc[w] # "duplicate" => Begin(w)
         /\ pc[w] \notin OtherPaths
<1>1. Working(w) /\ pc[w] \notin OtherPaths
  BY ProcessStepIs DEF FullRuns
<1>2. ~ Progressive(Job(w)) /\ Dispatch(Job(w)) = "parsing"
  BY <1>1, JobType DEF Progressive, Dispatch, PartialStages, FullRuns, Job, File
<1>3. CASE \/ Begin(w) \/ Duplicate(w) \/ Store(w) \/ Markdown(w) \/ AppendVectors(w)
           \/ Fail(w)
  BY <1>1, <1>2, <1>3 DEF Begin, Duplicate, Store, AfterStore, Markdown, AppendVectors, Fail,
    FileGone, Raises, Goto, OtherPaths, At, During, TypeOK, WorkerTypeOK
<1>4. CASE Parsing(w) \/ Chunking(w) \/ Indexing(w) \/ Complete(w)
  BY <1>1, <1>2, <1>4 DEF Parsing, Chunking, Indexing, Complete, UpdateStatus, FileGone, Raises,
    Goto, OtherPaths, At, During, TypeOK, WorkerTypeOK
<1>5. CASE ErrorStep(w)
  BY <1>1, <1>5 DEF ErrorStep, ShouldRetry, RetryOrFail, RequeueCount, Requeue, RequeueAdd,
    MarkFailed, Goto, OtherPaths, At, During, TypeOK, WorkerTypeOK
<1>6. CASE \/ Load(w) \/ Entity(w) \/ EntityDone(w) \/ Fast(w) \/ FastDone(w) \/ Pass1(w)
           \/ View(w) \/ EnqueuePass2(w) \/ Pass1Done(w) \/ Pass2(w) \/ Replace(w)
           \/ MarkdownAgain(w) \/ Enhanced(w)
  BY <1>1, <1>6 DEF Load, Entity, EntityDone, Fast, FastDone, Pass1, View, EnqueuePass2,
    Pass1Done, Pass2, Replace, MarkdownAgain, Enhanced, OtherPaths, At, During
<1> QED
  BY <1>1, <1>3, <1>4, <1>5, <1>6 DEF ProcessStep, PipelineStep

(* What a full run writes.                                                     *)
LEMMA FullRunWrites ==
  ASSUME TypeOK, NEW w \in Workers, ProcessStep(w), pc[w] \notin OtherPaths
  PROVE  /\ \A f \in Files : vecs[f] > 0 => vecs'[f] > 0
         /\ AppendVectors(w) /\ HasText(File(w)) => vecs'[File(w)] > 0
         /\ \A f \in Files : stage'[f] = "completed" => Promised(f)
         /\ Adds({Pass2Job(Job(w)), RetryJob(Job(w), count[w])})
<1>1. Working(w) /\ File(w) \in Files
  BY ProcessStepIs, JobType
<1>2. /\ \A f \in Files : vecs[f] > 0 => vecs'[f] > 0
      /\ AppendVectors(w) /\ HasText(File(w)) => vecs'[File(w)] > 0
  <2>1. CASE AppendVectors(w)
    BY <1>1, <2>1 DEF AppendVectors, InsertVectors, FindsText, File, TypeOK, StoreTypeOK
  <2>2. CASE vecs' = vecs /\ ~ AppendVectors(w)
    BY <2>2 DEF TypeOK, StoreTypeOK
  <2>3. CASE StatusStep(w)
    BY <2>3, StatusStepIs DEF StatusOnly, TypeOK, StoreTypeOK, StatusStep, Entity, EntityDone, Fast,
      FastDone, Parsing, Chunking, Indexing, Complete, View, Pass1Done, Enhanced, AppendVectors,
      At, During
  <2>4. CASE ~ StatusStep(w) /\ ~ AppendVectors(w)
    <3>1. vecs' = vecs
      BY <2>4 DEF ProcessStep, PipelineStep, StatusStep, ErrorStep, Begin, Duplicate, Load, Store,
        Markdown, Pass1, Pass2, Replace, MarkdownAgain, RecordMarkdown, Fail, EnqueuePass2,
        ShouldRetry, RequeueCount, Requeue, RequeueAdd, MarkFailed, storeVars, OtherPaths, At, During
    <3> QED
      BY <2>2, <2>4, <3>1
  <2> QED
    BY <2>1, <2>3, <2>4
<1>3. \A f \in Files : stage'[f] = "completed" => Promised(f)
  <2>1. CASE Duplicate(w) \/ Complete(w)
    BY <1>1, <2>1 DEF Duplicate, Complete, At, During, UpdateStatus, SetStage, Promised, TypeOK,
      StoreTypeOK
  <2>2. CASE Parsing(w) \/ Chunking(w) \/ Indexing(w)
    BY <1>1, <2>2 DEF Parsing, Chunking, Indexing, UpdateStatus, SetStage, Promised, TypeOK,
      StoreTypeOK
  <2>3. CASE Requeue(w) \/ MarkFailed(w)
    BY <1>1, <2>3 DEF Requeue, MarkFailed, SetStageIfRow, SetStage, Promised, TypeOK, StoreTypeOK
  <2>4. CASE stage' = stage
    BY <2>4 DEF Promised
  <2> QED
    BY <2>1, <2>2, <2>3, <2>4 DEF ProcessStep, PipelineStep, ErrorStep, Begin, Load, Entity,
      EntityDone, Fast, FastDone, Store, Markdown, AppendVectors, RecordMarkdown, Pass1, View,
      EnqueuePass2, Pass1Done, Pass2, Replace, MarkdownAgain, Enhanced, Fail, ShouldRetry,
      RequeueCount, RequeueAdd, storeVars, dbVars, OtherPaths, At, During
<1>4. Adds({Pass2Job(Job(w)), RetryJob(Job(w), count[w])})
  BY ProcessAdds DEF Adds
<1> QED
  BY <1>2, <1>3, <1>4

(* process_job: it completes a document after its vectors were inserted, or on *)
(* the strength of a completed copy.                                           *)
LEMMA SearchProcess ==
  ASSUME OneRun, TypeOK, SearchInv, NEW w \in Workers, ProcessStep(w)
  PROVE  SearchInv'
<1>0. FullRuns /\ \A f \in Files : Kind[f] # "pdf"
  BY DEF SearchInv, OneRun
<1>1. /\ Working(w) /\ File(w) \in Files /\ Job(w) \in Jobs /\ count[w] \in Nat
      /\ UNCHANGED <<msg, apiVars>>
  BY ProcessStepIs, JobType DEF TypeOK, WorkerTypeOK
<1>2. \A v \in Workers \ {w} : pc'[v] = pc[v]
  BY ProcessStepMoves DEF TypeOK, WorkerTypeOK
<1>3. pc[w] \notin OtherPaths /\ pc'[w] \notin OtherPaths
  BY <1>0, FullRun
<1>4. Adds({job \in Jobs : job.start = "parsing"}) /\ Adds(Jobs)
  <2>1. Pass2Job(Job(w)).start = "parsing" /\ RetryJob(Job(w), count[w]).start = "parsing"
    BY <1>1 DEF Pass2Job, RetryJob, Jobs
  <2>2. Pass2Job(Job(w)) \in Jobs /\ RetryJob(Job(w), count[w]) \in Jobs
    BY <1>1, WorkerJobs
  <2> QED
    BY <1>3, <2>1, <2>2, FullRunWrites DEF Adds
<1>5. \A v \in Workers : Working(v) => File(v)' = File(v)
  BY <1>1, <1>4, JobStays
<1>6. ASSUME NEW f \in Textual, Promised(f)'
      PROVE  Promised(f) \/ Found(f) \/ Found(f)'
  <2>1. CASE stage'[f] = "completed" \/ upload'[f] = "dup"
    BY <1>1, <1>3, <2>1, FullRunWrites DEF Promised, apiVars, Textual
  <2>2. ASSUME NEW v \in Workers, pc'[v] \in {"duplicate", "complete"}, File(v)' = f
        PROVE  Promised(f) \/ Found(f) \/ Found(f)'
    <3>1. CASE pc'[v] = pc[v]
      <4>1. Working(v)
        BY <2>2, <3>1 DEF Working, JobSteps, TrySteps
      <4> QED
        BY <1>5, <2>2, <3>1, <4>1 DEF Promised
    <3>2. CASE pc'[v] # pc[v]
      <4>1. v = w /\ File(w) = f
        BY <1>1, <1>2, <1>5, <2>2, <3>2
      <4>2. CASE AppendVectors(w)
        BY <1>3, <4>1, <4>2, FullRunWrites DEF Found, Textual
      <4>3. CASE Begin(w) /\ pc'[w] = "duplicate"
        <5>1. PICK g \in CompletedCopies(Job(w)) : TRUE
          BY <4>3 DEF Begin, Goto, Dispatch, TypeOK, WorkerTypeOK
        <5>2. g \in Files /\ Hash[g] = Hash[f] /\ stage[g] = "completed"
          BY <4>1 DEF CompletedCopies, Twins, File, TypeOK, StoreTypeOK
        <5>3. Found(g)
          BY <1>6, <5>2, TextualTwins DEF SearchInv, Promised
        <5> QED
          BY <5>2, <5>3 DEF Found
      <4> QED
        BY <1>0, <2>2, <3>2, <4>1, <4>2, <4>3, FullRun
    <3> QED
      BY <3>1, <3>2
  <2> QED
    BY <1>6, <2>1, <2>2 DEF Promised
<1> QED
  BY <1>1, <1>2, <1>3, <1>4, <1>6, FullRunWrites, SearchKept DEF apiVars, SearchInv, FullRuns

(* Every step.                                                                 *)
LEMMA SearchStep ==
  ASSUME OneRun
  PROVE  TypeOK /\ TypeOK' /\ SearchInv /\ [Next]_vars => SearchInv'
<1> SUFFICES ASSUME TypeOK, TypeOK', SearchInv, [Next]_vars PROVE SearchInv'
  OBVIOUS
<1>1. CASE UNCHANGED <<log, storeVars, apiVars, workerVars>>
  <2>1. Adds(Jobs) /\ Adds({job \in Jobs : job.start = "parsing"})
    BY <1>1 DEF Adds
  <2> QED
    BY <1>1, <2>1, SamePromises, SearchKept
      DEF storeVars, apiVars, workerVars, SearchInv, FullRuns, Textual, Promised, TypeOK, StoreTypeOK
<1>2. CASE \E w \in Workers : WorkerStep(w)
  BY <1>2, WorkerStepIs, SearchLoop, SearchProcess DEF TypeOK
<1>3. CASE \E f \in Files : APIStep(f) /\ UNCHANGED workerVars
  BY <1>3, SearchAPI
<1> QED
  BY <1>1, <1>2, <1>3 DEF Next, BecomeIdle, vars, streamVars

(* A document with text is never reported completed before search can find it, *)
(* whatever crashes, fails, lasts or is lost, retries, redeliveries and        *)
(* duplicates included: as long as nobody reprocesses or deletes a file, no    *)
(* PDF is among them, and a content is media or not (the order of embedding,   *)
(* indexing and completion in pipeline.py, _check_duplicate, check_duplicate). *)
THEOREM CompletedHasVectors ==
  ASSUME MaxReprocess = 0, Deletable = {}, \A f \in Files : Kind[f] # "pdf",
         \A f, g \in Files : Hash[f] = Hash[g] => (Kind[f] = "media" <=> Kind[g] = "media")
  PROVE  Spec => []CompletedIsSearchable
<1>1. Init => SearchInv
  BY DEF Init, StreamInit, StoreInit, APIInit, WorkerInit, NoReprocess, SearchInv, FullRuns, Ids,
    OtherPaths, Promised, Textual
<1>2. TypeOK /\ SearchInv => CompletedIsSearchable
  BY DEF SearchInv, Promised, Found, Textual, CompletedIsSearchable, TypeOK, StoreTypeOK
<1>3. OneRun
  BY DEF OneRun
<1> QED
  BY <1>1, <1>2, <1>3, TypeCorrect, SearchStep, PTL DEF Spec

------------------------------------------------------------------------------
(* NoExtraVectors and CompletedIsFinal.  First, the order of the steps of an   *)
(* upload: while nobody reprocesses a file, its row is created once and its    *)
(* first job is the last step.                                                 *)
Early == {"none", "new", "newForced", "dup"}

UploadsBefore ==
  /\ \A f \in Files : reproc[f].step = "none"
  /\ \A m \in Ids : upload[log[m].file] = "done"
  /\ \A f \in Files : upload[f] \in Early => f \notin row

(* The jobs in the streams.                                                    *)
LEMMA JobsTyped ==
  ASSUME TypeOK
  PROVE  \A m \in Ids : log[m] \in Jobs /\ log[m].file \in Files
<1>1. \A m \in Ids : log[m] \in Jobs
  BY DEF TypeOK, StreamTypeOK, Ids
<1> QED
  BY <1>1 DEF Jobs

(* What the requests add is a job of the upload they finish.                   *)
LEMMA UploadsAddJob ==
  ASSUME MaxReprocess = 0, TypeOK, UploadsBefore, NEW f \in Files, APIStep(f)
  PROVE  \/ UNCHANGED streamVars
         \/ /\ upload[f] \in {"created", "createdForced", "dupCreated"} /\ upload'[f] = "done"
            /\ \E job \in Jobs : /\ job.file = f /\ job.start = "parsing" /\ XADD(job)
                                 /\ job.force => upload[f] # "created"
<1>1. ~ Reprocess(f) /\ ~ ReprocessStep(f)
  BY DEF Reprocess, ReprocessStep, ReprocessVectors, ReprocessStatus, ReprocessEnqueue,
    UploadsBefore, TypeOK, APITypeOK
<1>2. CASE UploadEnqueue(f) \/ UploadTrigger(f)
  <2>1. upload[f] \in {"created", "createdForced", "dupCreated"} /\ upload'[f] = "done"
    BY <1>2 DEF UploadEnqueue, UploadTrigger, SetUpload, TypeOK, APITypeOK
  <2>2. \A b, p : /\ UploadJob(f, b, p).file = f /\ UploadJob(f, b, p).start = "parsing"
                 /\ UploadJob(f, b, p).force = b
    BY DEF UploadJob
  <2>3. \/ UNCHANGED streamVars
        \/ XADD(UploadJob(f, upload[f] = "createdForced", 1))
        \/ upload[f] = "dupCreated" /\ XADD(UploadJob(f, TRUE, 2))
    BY <1>2 DEF UploadEnqueue, UploadTrigger
  <2>4. ASSUME XADD(UploadJob(f, upload[f] = "createdForced", 1))
        PROVE  \E job \in Jobs : /\ job.file = f /\ job.start = "parsing" /\ XADD(job)
                                 /\ job.force => upload[f] # "created"
    <3>1. /\ UploadJob(f, upload[f] = "createdForced", 1) \in Jobs
          /\ UploadJob(f, upload[f] = "createdForced", 1).force => upload[f] # "created"
      BY <2>2, APIJobs
    <3> QED
      BY <2>2, <2>4, <3>1
  <2>5. ASSUME upload[f] = "dupCreated", XADD(UploadJob(f, TRUE, 2))
        PROVE  \E job \in Jobs : /\ job.file = f /\ job.start = "parsing" /\ XADD(job)
                                 /\ job.force => upload[f] # "created"
    <3>1. UploadJob(f, TRUE, 2) \in Jobs /\ upload[f] # "created"
      BY <2>5, APIJobs
    <3> QED
      BY <2>2, <2>5, <3>1
  <2> QED
    BY <2>1, <2>3, <2>4, <2>5
<1> QED
  BY <1>1, <1>2 DEF APIStep, UploadStep, CancelStep, DeleteStep, UploadCheckDuplicate, UploadForced,
    UploadCreate, UploadMedia, UploadReuse, CancelRead, CancelFlag, CancelWrite, CancelExpire,
    Delete, DeleteVectorsStep, DeleteRow

(* Whether it is forced or not.                                               *)
LEMMA UploadsAdd ==
  ASSUME MaxReprocess = 0, TypeOK, UploadsBefore, NEW f \in Files, APIStep(f)
  PROVE  \/ UNCHANGED streamVars
         \/ /\ upload[f] \in {"created", "createdForced", "dupCreated"} /\ upload'[f] = "done"
            /\ \E job \in Jobs : job.file = f /\ job.start = "parsing" /\ XADD(job)
<1>1. \/ UNCHANGED streamVars
      \/ /\ upload[f] \in {"created", "createdForced", "dupCreated"} /\ upload'[f] = "done"
         /\ \E job \in Jobs : /\ job.file = f /\ job.start = "parsing" /\ XADD(job)
                              /\ job.force => upload[f] # "created"
  BY UploadsAddJob
<1> QED
  BY <1>1

(* The requests.                                                               *)
LEMMA UploadsBeforeAPI ==
  ASSUME MaxReprocess = 0, TypeOK, UploadsBefore, NEW f \in Files, APIStep(f)
  PROVE  UploadsBefore'
<1>1. ~ Reprocess(f) /\ ~ ReprocessStep(f)
  BY DEF Reprocess, ReprocessStep, ReprocessVectors, ReprocessStatus, ReprocessEnqueue,
    UploadsBefore, TypeOK, APITypeOK
<1>2. /\ reproc' = reproc /\ row' \subseteq row \cup {f}
      /\ \A g \in Files \ {f} : upload'[g] = upload[g]
      /\ upload[f] = "done" => upload'[f] = "done"
      /\ upload'[f] \in Early => upload[f] \in Early /\ row' \subseteq row
  BY <1>1 DEF APIStep, UploadStep, CancelStep, DeleteStep, UploadCheckDuplicate, UploadForced,
    UploadCreate, UploadMedia, UploadEnqueue, UploadReuse, UploadTrigger, CancelRead, CancelFlag,
    CancelWrite, CancelExpire, Delete, DeleteVectorsStep, DeleteRow, SetUpload, CreateRow,
    DeleteRows, Early, storeVars, dbVars, apiVars, TypeOK, APITypeOK
<1>3. \A m \in Ids' : upload'[log'[m].file] = "done"
  <2>1. CASE UNCHANGED streamVars
    BY <1>2, <2>1, JobsTyped DEF UploadsBefore, streamVars, Ids
  <2>2. ASSUME NEW job \in Jobs, job.file = f, XADD(job), upload'[f] = "done"
        PROVE  \A m \in Ids' : upload'[log'[m].file] = "done"
    <3>1. log' = Append(log, job)
      BY <2>2 DEF XADD
    <3>2. \A m \in Ids' : log'[m] = job \/ (m \in Ids /\ log'[m] = log[m])
      BY <3>1 DEF TypeOK, StreamTypeOK, Ids
    <3> QED
      BY <1>2, <2>2, <3>2, JobsTyped DEF UploadsBefore
  <2> QED
    BY <2>1, <2>2, UploadsAdd
<1> QED
  BY <1>2, <1>3 DEF UploadsBefore

(* A status is written of the file of the job only.                            *)
LEMMA StageOfOne ==
  ASSUME TypeOK, NEW w \in Workers, ProcessStep(w)
  PROVE  \A g \in Files \ {File(w)} : stage'[g] = stage[g]
<1>1. Working(w) /\ File(w) \in Files
  BY ProcessStepIs, JobType
<1>2. CASE StatusStep(w)
  BY <1>1, <1>2, StatusStepIs DEF UpdateStatus, SetStage, TypeOK, StoreTypeOK
<1>3. CASE ~ StatusStep(w)
  BY <1>1, <1>3 DEF ProcessStep, PipelineStep, StatusStep, ErrorStep, Begin, Duplicate, Load, Store,
    Markdown, AppendVectors, Pass1, Pass2, CancelOr, HandleCancellation, Replace, MarkdownAgain,
    RecordMarkdown, EnqueuePass2, Fail, ShouldRetry, RequeueCount, Requeue, RequeueAdd, MarkFailed,
    SetStageIfRow, SetStage, storeVars, dbVars, TypeOK, StoreTypeOK
<1> QED
  BY <1>2, <1>3

(* The jobs process_job adds are of its own file.                              *)
LEMMA ProcessAddsJob ==
  ASSUME TypeOK, NEW w \in Workers, ProcessStep(w)
  PROVE  \/ UNCHANGED streamVars
         \/ /\ EnqueuePass2(w) \/ (RequeueAdd(w) /\ pc'[w] = "return")
            /\ \E job \in Jobs : /\ job.file = File(w) /\ job.start = "parsing" /\ XADD(job)
                                 /\ job.force => Job(w).force
<1>1. Working(w) /\ Job(w) \in Jobs /\ count[w] \in Nat
  BY ProcessStepIs, JobType DEF TypeOK, WorkerTypeOK
<1>2. CASE EnqueuePass2(w) \/ RequeueAdd(w)
  <2>1. Pass2Job(Job(w)) \in Jobs /\ RetryJob(Job(w), count[w]) \in Jobs
    BY <1>1, WorkerJobs
  <2>2. /\ Pass2Job(Job(w)).file = File(w) /\ RetryJob(Job(w), count[w]).file = File(w)
        /\ Pass2Job(Job(w)).start = "parsing" /\ RetryJob(Job(w), count[w]).start = "parsing"
        /\ ~ Pass2Job(Job(w)).force /\ RetryJob(Job(w), count[w]).force = Job(w).force
    BY <1>1 DEF Pass2Job, RetryJob, File, Jobs
  <2> QED
    BY <1>2, <2>1, <2>2 DEF EnqueuePass2, RequeueAdd, Goto, TypeOK, WorkerTypeOK
<1>3. CASE StatusStep(w)
  BY <1>3, StatusStepIs DEF StatusOnly, streamVars
<1>4. CASE ~ StatusStep(w) /\ ~ EnqueuePass2(w) /\ ~ RequeueAdd(w)
  BY <1>4 DEF ProcessStep, PipelineStep, StatusStep, ErrorStep, Begin, Duplicate, Load, Store,
    Markdown, AppendVectors, Pass1, Pass2, Replace, MarkdownAgain, RecordMarkdown, Fail,
    ShouldRetry, RequeueCount, Requeue, MarkFailed
<1> QED
  BY <1>2, <1>3, <1>4

(* Whether they are forced or not.                                            *)
LEMMA ProcessAddsOwn ==
  ASSUME TypeOK, NEW w \in Workers, ProcessStep(w)
  PROVE  \/ UNCHANGED streamVars
         \/ /\ EnqueuePass2(w) \/ (RequeueAdd(w) /\ pc'[w] = "return")
            /\ \E job \in Jobs : job.file = File(w) /\ job.start = "parsing" /\ XADD(job)
<1>1. \/ UNCHANGED streamVars
      \/ /\ EnqueuePass2(w) \/ (RequeueAdd(w) /\ pc'[w] = "return")
         /\ \E job \in Jobs : /\ job.file = File(w) /\ job.start = "parsing" /\ XADD(job)
                              /\ job.force => Job(w).force
  BY ProcessAddsJob
<1> QED
  BY <1>1

(* Every step.                                                                 *)
LEMMA UploadsBeforeStep ==
  ASSUME MaxReprocess = 0
  PROVE  TypeOK /\ UploadsBefore /\ [Next]_vars => UploadsBefore'
<1> SUFFICES ASSUME TypeOK, UploadsBefore, [Next]_vars PROVE UploadsBefore'
  OBVIOUS
<1>1. CASE UNCHANGED <<log, row, apiVars>>
  BY <1>1 DEF UploadsBefore, apiVars, Ids
<1>2. ASSUME NEW w \in Workers, ProcessStep(w) PROVE UploadsBefore'
  <2>1. UNCHANGED <<apiVars, row>> /\ msg[w] \in Ids
    BY <1>2, ProcessStepIs, ProcessStepRow, JobType
  <2>2. upload[File(w)] = "done"
    BY <2>1 DEF UploadsBefore, File, Job
  <2>3. CASE UNCHANGED streamVars
    BY <1>1, <2>1, <2>3 DEF streamVars
  <2>4. ASSUME NEW job \in Jobs, job.file = File(w), XADD(job) PROVE UploadsBefore'
    <3>1. log' = Append(log, job)
      BY <2>4 DEF XADD
    <3>2. \A m \in Ids' : log'[m] = job \/ (m \in Ids /\ log'[m] = log[m])
      BY <3>1 DEF TypeOK, StreamTypeOK, Ids
    <3> QED
      BY <2>1, <2>2, <2>4, <3>2 DEF UploadsBefore, apiVars
  <2> QED
    BY <1>2, <2>3, <2>4, ProcessAddsOwn
<1>3. ASSUME NEW w \in Workers, LoopStep(w) PROVE UploadsBefore'
  BY <1>1, <1>3, LoopStepIs DEF storeVars
<1>4. CASE \E m \in Pending : BecomeIdle(m)
  BY <1>1, <1>4 DEF BecomeIdle, storeVars
<1> QED
  BY <1>1, <1>2, <1>3, <1>4, UploadsBeforeAPI, WorkerStepIs DEF Next, vars, storeVars, streamVars

(* Full runs, as long as nobody asks for another start.                        *)
LEMMA FullRunsStep ==
  ASSUME MaxReprocess = 0, \A f \in Files : Kind[f] # "pdf"
  PROVE  TypeOK /\ UploadsBefore /\ FullRuns /\ [Next]_vars => FullRuns'
<1> SUFFICES ASSUME TypeOK, UploadsBefore, FullRuns, [Next]_vars PROVE FullRuns'
  OBVIOUS
<1>0. ASSUME NEW job \in Jobs, XADD(job), job.start = "parsing"
      PROVE  \A m \in Ids' : log'[m].start = "parsing"
  <2>1. log' = Append(log, job)
    BY <1>0 DEF XADD
  <2>2. \A m \in Ids' : log'[m] = job \/ (m \in Ids /\ log'[m] = log[m])
    BY <2>1 DEF TypeOK, StreamTypeOK, Ids
  <2> QED
    BY <1>0, <2>2 DEF FullRuns
<1>1. CASE UNCHANGED <<log, pc>>
  BY <1>1 DEF FullRuns, Ids
<1>2. CASE \E f \in Files : APIStep(f) /\ UNCHANGED workerVars
  BY <1>0, <1>1, <1>2, UploadsAdd DEF FullRuns, workerVars, streamVars
<1>3. ASSUME NEW w \in Workers, LoopStep(w) PROVE FullRuns'
  <2>1. \A v \in Workers : pc'[v] \notin OtherPaths
    <3>1. \A v \in Workers : pc'[v] = "begin" \/ pc'[v] \notin JobSteps \/ pc'[v] = pc[v]
      BY <1>3, LoopStepIs DEF Working
    <3>2. OtherPaths \subseteq JobSteps \ {"begin"}
      BY DEF OtherPaths, JobSteps, TrySteps
    <3> QED
      BY <3>1, <3>2 DEF FullRuns
  <2> QED
    BY <1>3, <2>1, LoopStepIs DEF FullRuns, Ids
<1>4. ASSUME NEW w \in Workers, ProcessStep(w) PROVE FullRuns'
  <2>1. \A v \in Workers : pc'[v] \notin OtherPaths
    BY <1>4, FullRun, ProcessStepMoves DEF FullRuns, TypeOK, WorkerTypeOK
  <2>2. \A m \in Ids' : log'[m].start = "parsing"
    BY <1>0, <1>4, ProcessAddsOwn DEF FullRuns, streamVars, Ids
  <2> QED
    BY <2>1, <2>2 DEF FullRuns
<1>5. CASE \E m \in Pending : BecomeIdle(m)
  BY <1>1, <1>5 DEF BecomeIdle, workerVars
<1> QED
  BY <1>1, <1>2, <1>3, <1>4, <1>5, WorkerStepIs DEF Next, vars, workerVars, streamVars

------------------------------------------------------------------------------
(* While no worker dies, no job lasts longer than a claim waits and Redis      *)
(* answers, the jobs of a file run one after the other.                        *)
Calm ==
  /\ Faults \cap {"crash", "slow", "redis", "db"} = {}
  /\ MaxReprocess = 0
  /\ \A f \in Files : Kind[f] # "pdf"

(* w has not come to an end of its job.                                        *)
Running(w) == Working(w) /\ pc[w] \notin {"return", "raise"}

OneRunner == \A v, w \in Workers : Running(v) /\ Running(w) /\ File(v) = File(w) => v = w

(* Nothing is claimed, and a file has one message unread or one job running.   *)
OneAtATime ==
  /\ idle = {}
  /\ \A m \in Pending : \E w \in Workers : Working(w) /\ msg[w] = m
  /\ \A w \in Workers : ~ claimed[w]
  /\ \A m, n \in unread : log[m].file = log[n].file => m = n
  /\ \A m \in unread, w \in Workers : Running(w) => File(w) # log[m].file
  /\ OneRunner

(* A step that starts no job, and adds one at most, to a file that has none.   *)
LEMMA OneKept ==
  ASSUME TypeOK, OneAtATime, Adds(Jobs), idle' = idle, claimed' = claimed,
         \A m \in Pending' : \E w \in Workers : Working(w)' /\ msg'[w] = m,
         \A w \in Workers : Running(w)' => Running(w) /\ msg'[w] = msg[w],
         NEW f,
         \A m \in unread' : m \in unread \/ (m = Len(log) + 1 /\ log'[m].file = f),
         unread' \subseteq unread \/ (/\ \A m \in unread : log[m].file # f
                                      /\ \A w \in Workers : Running(w)' => File(w) # f)
  PROVE  OneAtATime'
<1>1. \A w \in Workers : Running(w)' => File(w)' = File(w)
  BY JobStays DEF Running
<1>2. \A m \in unread : log'[m] = log[m]
  BY JobsStay DEF TypeOK, StreamTypeOK
<1>3. ASSUME NEW m \in unread', NEW n \in unread', log'[m].file = log'[n].file PROVE m = n
  BY <1>2, <1>3 DEF OneAtATime
<1>4. ASSUME NEW m \in unread', NEW w \in Workers, Running(w)' PROVE File(w)' # log'[m].file
  BY <1>1, <1>2, <1>4 DEF OneAtATime
<1>5. OneRunner'
  BY <1>1 DEF OneAtATime, OneRunner
<1> QED
  BY <1>3, <1>4, <1>5 DEF OneAtATime

(* The job that XADD adds, for OneKept.                                        *)
LEMMA XADDAdds ==
  ASSUME TypeOK, NEW job \in Jobs, XADD(job)
  PROVE  /\ Adds(Jobs) /\ UNCHANGED <<pel, idle>>
         /\ \A m \in unread' : m \in unread \/ (m = Len(log) + 1 /\ log'[m].file = job.file)
<1>1. log' = Append(log, job) /\ Len(log') = Len(log) + 1 /\ UNCHANGED <<pel, idle>>
  BY DEF XADD, TypeOK, StreamTypeOK
<1>2. log'[Len(log) + 1] = job
  BY <1>1 DEF TypeOK, StreamTypeOK
<1>3. unread' \subseteq unread \cup {Len(log) + 1}
  BY <1>1 DEF XADD
<1> QED
  BY <1>1, <1>2, <1>3 DEF Adds

(* The requests.                                                               *)
LEMMA OneAPI ==
  ASSUME Calm, TypeOK, UploadsBefore, OneAtATime, NEW f \in Files, APIStep(f), UNCHANGED workerVars
  PROVE  OneAtATime'
<1>1. \A w \in Workers : Working(w)' = Working(w) /\ Running(w)' = Running(w) /\ msg'[w] = msg[w]
  BY DEF workerVars, Working, Running
<1>2. CASE UNCHANGED streamVars
  <2>1. Adds(Jobs) /\ Pending' = Pending
    BY <1>2 DEF Adds, streamVars, Pending
  <2> QED
    BY <1>1, <1>2, <2>1, OneKept DEF OneAtATime, streamVars, workerVars
<1>3. ASSUME NEW job \in Jobs, job.file = f, XADD(job), upload[f] # "done" PROVE OneAtATime'
  <2>1. \A m \in unread : log[m].file # f
    BY <1>3 DEF UploadsBefore, TypeOK, StreamTypeOK
  <2>2. \A w \in Workers : Running(w) => File(w) # f
    BY <1>3, JobType DEF UploadsBefore, Running, File, Job
  <2>3. Pending' = Pending
    BY <1>3, XADDAdds DEF Pending
  <2> QED
    BY <1>1, <1>3, <2>1, <2>2, <2>3, XADDAdds, OneKept, ZenonT(40) DEF OneAtATime, workerVars
<1> QED
  BY <1>2, <1>3, UploadsAdd DEF Calm

(* process_job has not ended while it takes a step.                            *)
LEMMA ProcessStepRuns ==
  ASSUME TypeOK, NEW w \in Workers, ProcessStep(w)
  PROVE  pc[w] \notin {"return", "raise"}
<1>1. CASE StatusStep(w)
  BY <1>1, StatusStepIs DEF At, During, TrySteps
<1>2. CASE ~ StatusStep(w)
  BY <1>2 DEF ProcessStep, PipelineStep, StatusStep, ErrorStep, Begin, Duplicate, Load, Store,
    Markdown, AppendVectors, Pass1, EnqueuePass2, Pass2, Replace, MarkdownAgain, Fail,
    ShouldRetry, RequeueCount, Requeue, RequeueAdd, MarkFailed, At, During, TrySteps
<1> QED
  BY <1>1, <1>2

(* process_job adds a job as its last step.                                    *)
LEMMA OneProcess ==
  ASSUME Calm, TypeOK, FullRuns, OneAtATime, NEW w \in Workers, ProcessStep(w)
  PROVE  OneAtATime'
<1>1. /\ Working(w) /\ Working(w)' /\ UNCHANGED <<msg, claimed>>
      /\ \A v \in Workers \ {w} : pc'[v] = pc[v]
  BY ProcessStepIs, ProcessStepMoves DEF Working, TypeOK, WorkerTypeOK
<1>2. pc[w] \notin {"return", "raise"}
  BY ProcessStepRuns
<1>3. /\ \A v \in Workers : Running(v)' => Running(v) /\ msg'[v] = msg[v]
      /\ \A v \in Workers : Working(v)' = Working(v) /\ msg'[v] = msg[v]
  BY <1>1, <1>2 DEF Running, Working
<1>4. CASE UNCHANGED streamVars
  <2>1. Adds(Jobs) /\ Pending' = Pending
    BY <1>4 DEF Adds, streamVars, Pending
  <2> QED
    BY <1>1, <1>3, <1>4, <2>1, OneKept DEF OneAtATime, streamVars
<1>5. ASSUME NEW job \in Jobs, job.file = File(w), XADD(job), pc'[w] = "return"
      PROVE  OneAtATime'
  <2>1. PICK f \in Files : f = File(w)
    BY <1>1, JobType
  <2>2. \A m \in unread : log[m].file # f
    BY <1>1, <1>2, <2>1 DEF OneAtATime, Running
  <2>3. \A v \in Workers : Running(v)' => File(v) # f
    BY <1>1, <1>2, <1>3, <1>5, <2>1 DEF OneAtATime, OneRunner, Running
  <2>4. Pending' = Pending
    BY <1>5, XADDAdds DEF Pending
  <2>5. \A m \in unread' : m \in unread \/ (m = Len(log) + 1 /\ log'[m].file = f)
    BY <1>5, <2>1, XADDAdds
  <2> QED
    BY <1>1, <1>3, <1>5, <2>2, <2>3, <2>4, <2>5, XADDAdds, OneKept DEF OneAtATime
<1>6. ~ EnqueuePass2(w)
  BY DEF EnqueuePass2, At, During, FullRuns, OtherPaths
<1> QED
  BY <1>4, <1>5, <1>6, ProcessAddsOwn

(* A worker is given an unread message, the only one of its file.              *)
LEMMA OneRead ==
  ASSUME TypeOK, OneAtATime, NEW w \in Workers, ~ Working(w), NEW s, NEW m, XREADGROUP(s, m),
         StartJob(w, m, FALSE)
  PROVE  OneAtATime'
<1>1. /\ m \in unread /\ unread' = unread \ {m} /\ UNCHANGED <<log, idle>>
      /\ Pending' = Pending \cup {m}
  BY DEF XREADGROUP, Oldest, Unread, Pending
<1>2. /\ \A v \in Workers \ {w} : /\ pc'[v] = pc[v] /\ msg'[v] = msg[v]
                                  /\ claimed'[v] = claimed[v]
      /\ pc'[w] = "begin" /\ msg'[w] = m /\ ~ claimed'[w]
  BY DEF StartJob, Goto, TypeOK, WorkerTypeOK
<1>3. \A v \in Workers \ {w} : /\ Working(v)' = Working(v) /\ Running(v)' = Running(v)
                               /\ File(v)' = File(v)
  BY <1>1, <1>2 DEF Working, Running, File, Job
<1>4. Working(w)' /\ File(w)' = log[m].file
  BY <1>1, <1>2 DEF Working, JobSteps, TrySteps, File, Job
<1>5. \A n \in Pending' : \E v \in Workers : Working(v)' /\ msg'[v] = n
  <2>1. \A n \in Pending : \E v \in Workers \ {w} : Working(v) /\ msg[v] = n
    BY DEF OneAtATime
  <2> QED
    BY <1>1, <1>2, <1>3, <1>4, <2>1
<1>6. \A n \in unread', v \in Workers : Running(v)' => File(v)' # log'[n].file
  BY <1>1, <1>3, <1>4 DEF OneAtATime
<1>7. OneRunner'
  BY <1>1, <1>3, <1>4 DEF OneAtATime, OneRunner
<1>8. \A n, k \in unread' : log'[n].file = log'[k].file => n = k
  BY <1>1 DEF OneAtATime
<1>9. idle' = {} /\ \A v \in Workers : ~ claimed'[v]
  BY <1>1, <1>2 DEF OneAtATime
<1> QED
  BY <1>5, <1>6, <1>7, <1>8, <1>9 DEF OneAtATime

(* The worker between its jobs.                                                *)
LEMMA OneLoop ==
  ASSUME Calm, TypeOK, OneAtATime, NEW w \in Workers, LoopStep(w)
  PROVE  OneAtATime'
<1>0. ASSUME unread' \subseteq unread, idle' = {}, claimed' = claimed, Adds(Jobs),
             \A v \in Workers \ {w} : pc'[v] = pc[v] /\ msg'[v] = msg[v],
             Pending' \subseteq Pending, ~ Working(w)',
             Working(w) => msg[w] \notin Pending'
      PROVE  OneAtATime'
  <2>1. \A v \in Workers \ {w} : Working(v)' = Working(v) /\ msg'[v] = msg[v]
                                 /\ Running(v)' = Running(v)
    BY <1>0 DEF Working, Running
  <2>2. \A m \in Pending' : \E v \in Workers : Working(v)' /\ msg'[v] = m
    BY <1>0, <2>1 DEF OneAtATime
  <2>3. \A v \in Workers : Running(v)' => Running(v) /\ msg'[v] = msg[v]
    BY <1>0, <2>1 DEF Running
  <2> QED
    BY <1>0, <2>2, <2>3, OneKept DEF OneAtATime
<1>1. /\ \A v \in Workers \ {w} : pc'[v] = pc[v] /\ msg'[v] = msg[v]
      /\ Adds(Jobs)
  BY LoopStepIs DEF Adds
<1>2. ~ Crash(w) /\ ~ ScanAborted(w)
  BY DEF Crash, ScanAborted, Calm
<1>3. CASE Start(w) \/ PeriodicScan(w) \/ ScanDone(w)
  <2>1. ~ Working(w) /\ ~ Working(w)' /\ UNCHANGED <<claimed, streamVars>>
    BY <1>3 DEF Start, PeriodicScan, Scan, ScanDone, Goto, Working, JobSteps, TrySteps, ErrorSteps,
      ScanSteps, TypeOK, WorkerTypeOK
  <2> QED
    BY <1>0, <1>1, <2>1 DEF streamVars, Pending, OneAtATime
<1>4. CASE ReadStep(w)
  <2>1. ~ Working(w)
    BY <1>4 DEF ReadStep, ReadHigh, ReadLow, Working, JobSteps, TrySteps, ErrorSteps
  <2>2. CASE \E s, m : XREADGROUP(s, m) /\ StartJob(w, m, FALSE)
    BY <2>1, <2>2, OneRead
  <2>3. CASE UNCHANGED <<claimed, streamVars>> /\ (Goto(w, "low") \/ Goto(w, "loop"))
    <3>1. ~ Working(w)'
      BY <2>3 DEF Goto, Working, JobSteps, TrySteps, ErrorSteps, TypeOK, WorkerTypeOK
    <3> QED
      BY <1>0, <1>1, <2>1, <2>3, <3>1 DEF streamVars, Pending, OneAtATime
  <2> QED
    BY <1>4, <2>2, <2>3 DEF ReadStep, ReadHigh, ReadLow
<1>5. ASSUME NEW t \in todo[w],
             DeadLetter(w, t) \/ ClaimNothing(w, t) \/ Claim(w, t) \/ AckOrphan(w, t)
      PROVE  OneAtATime'
  <2>1. DeadLetter(w, t) \/ ClaimNothing(w, t)
    BY <1>5 DEF Claim, XCLAIM, AckOrphan, OneAtATime
  <2>2. ~ Working(w) /\ ~ Working(w)' /\ claimed' = claimed
    BY <2>1 DEF DeadLetter, ClaimNothing, Inspects, Working, JobSteps, TrySteps, ErrorSteps,
      ScanSteps
  <2>3. unread' = unread /\ idle' = {} /\ Pending' \subseteq Pending
    BY <2>1 DEF DeadLetter, ClaimNothing, XACK, Acked, streamVars, Pending, OneAtATime
  <2> QED
    BY <1>0, <1>1, <2>2, <2>3
<1>6. CASE Return(w) \/ Raise(w)
  <2>1. Working(w) /\ ~ Working(w)' /\ ~ claimed[w] /\ claimed' = claimed
    <3>1. Working(w) /\ ~ claimed[w]
      BY <1>6 DEF Return, Raise, Working, JobSteps, OneAtATime
    <3>2. /\ pc'[w] \in {"loop", "scanHigh", "scanLow"}
          /\ claimed' = [claimed EXCEPT ![w] = FALSE] /\ claimed \in [Workers -> BOOLEAN]
      BY <1>6 DEF Return, Raise, LeaveJob, Goto, TypeOK, WorkerTypeOK
    <3>3. claimed' = claimed
      BY <3>1, <3>2
    <3> QED
      BY <3>1, <3>2, <3>3 DEF Working, JobSteps, TrySteps, ErrorSteps
  <2>2. XACKandXTRIM(msg[w]) \/ XACK(msg[w])
    BY <1>6, <2>1 DEF Return, Raise, Calm
  <2>3. /\ unread' \subseteq unread /\ idle' = {} /\ Pending' \subseteq Pending
        /\ msg[w] \notin Pending'
    BY <2>2 DEF XACKandXTRIM, XACK, Acked, Pending, OneAtATime
  <2> QED
    BY <1>0, <1>1, <2>1, <2>3
<1> QED
  BY <1>2, <1>3, <1>4, <1>5, <1>6 DEF LoopStep, ScanStep

(* Every step.                                                                 *)
LEMMA OneStep ==
  ASSUME Calm
  PROVE  TypeOK /\ UploadsBefore /\ FullRuns /\ OneAtATime /\ [Next]_vars => OneAtATime'
<1> SUFFICES ASSUME TypeOK, UploadsBefore, FullRuns, OneAtATime, [Next]_vars PROVE OneAtATime'
  OBVIOUS
<1>1. CASE UNCHANGED vars
  BY <1>1 DEF OneAtATime, OneRunner, vars, streamVars, workerVars, Pending, Running, Working, File,
    Job
<1>2. ~ \E m \in Pending : BecomeIdle(m)
  BY DEF BecomeIdle, Calm, OneAtATime
<1> QED
  BY <1>1, <1>2, OneAPI, OneLoop, OneProcess, WorkerStepIs DEF Next

------------------------------------------------------------------------------
(* Milvus appends: the run of a job adds one copy of the vectors, and a run    *)
(* after it is one the retry count knows of.                                   *)

(* The steps of a run that may have added its vectors.                         *)
Appended == {"complete", "error", "requeueCount", "requeue", "markFailed"}

VectorsOf(f) ==
  /\ vecs[f] <= 1 + retries[f]
  /\ (\E m \in unread : log[m].file = f) => vecs[f] <= retries[f]
  /\ \A w \in Workers : Running(w) /\ File(w) = f =>
       /\ pc[w] \notin Appended => vecs[f] <= retries[f]
       /\ pc[w] = "requeue" => count[w] > retries[f]
       /\ pc[w] = "markFailed" => count[w] = retries[f]

VectorInv ==
  \A f \in Files : /\ upload[f] # "done" => vecs[f] = 0
                   /\ f \in row => VectorsOf(f)

(* A step that is none of g's business.                                        *)
LEMMA VectorsKept ==
  ASSUME TypeOK, Adds(Jobs), NEW g \in Files, VectorsOf(g), retries'[g] = retries[g],
         vecs'[g] \in {vecs[g], 0},
         \A m \in unread' : log'[m].file = g => m \in unread,
         \A w \in Workers : Running(w)' /\ File(w)' = g =>
           Running(w) /\ pc'[w] = pc[w] /\ msg'[w] = msg[w] /\ count'[w] = count[w]
  PROVE  VectorsOf(g)'
<1>1. \A w \in Workers : Running(w)' /\ File(w)' = g =>
        Running(w) /\ File(w) = g /\ pc'[w] = pc[w] /\ count'[w] = count[w]
  BY JobStays DEF Running
<1>2. \A m \in unread' : log'[m].file = g => m \in unread /\ log[m].file = g
  BY JobsStay DEF TypeOK, StreamTypeOK
<1>3. vecs[g] \in Nat /\ retries[g] \in Nat /\ vecs'[g] <= vecs[g]
  BY DEF TypeOK, StoreTypeOK
<1>4. vecs'[g] <= 1 + retries'[g] /\ (vecs[g] <= retries[g] => vecs'[g] <= retries'[g])
  BY <1>3 DEF VectorsOf
<1> QED
  BY <1>1, <1>2, <1>4 DEF VectorsOf

(* A file whose upload is not done has no vectors, and no job.                 *)
LEMMA VectorsNone ==
  ASSUME TypeOK, UploadsBefore, UNCHANGED workerVars, Adds(Jobs), NEW g \in Files,
         upload[g] # "done", vecs'[g] = 0, retries'[g] \in Nat
  PROVE  VectorsOf(g)'
<1>1. \A w \in Workers : Running(w)' => File(w)' # g
  <2>1. \A w \in Workers : Running(w)' = Running(w) /\ msg'[w] = msg[w]
    BY DEF Running, Working, workerVars
  <2>2. \A w \in Workers : Running(w) => Working(w) /\ File(w) # g
    BY JobType DEF UploadsBefore, Running, File, Job
  <2> QED
    BY <2>1, <2>2, JobStays
<1> QED
  BY <1>1 DEF VectorsOf

(* The requests delete vectors and rows, and never a row's retry count alone.  *)
LEMMA VectorsAPI ==
  ASSUME Calm, TypeOK, TypeOK', UploadsBefore, OneAtATime, VectorInv, NEW f \in Files, APIStep(f),
         UNCHANGED workerVars
  PROVE  VectorInv'
<1>1. ~ Reprocess(f) /\ ~ ReprocessStep(f)
  BY DEF Reprocess, ReprocessStep, ReprocessVectors, ReprocessStatus, ReprocessEnqueue,
    UploadsBefore, Calm, TypeOK, APITypeOK
<1>2. /\ \A g \in Files : vecs'[g] \in {vecs[g], 0}
      /\ \A g \in Files : upload[g] = "done" => upload'[g] = "done"
  BY <1>1, ZenonT(40) DEF APIStep, UploadStep, CancelStep, DeleteStep, UploadCheckDuplicate, UploadForced,
    UploadCreate, UploadMedia, UploadEnqueue, UploadReuse, UploadTrigger, CancelRead, CancelFlag,
    CancelWrite, CancelExpire, Delete, DeleteVectorsStep, DeleteRow, SetUpload, DeleteVectors,
    storeVars, dbVars, apiVars, TypeOK, APITypeOK, StoreTypeOK
<1>3. \A g \in row' : upload[g] = "done" => g \in row /\ retries'[g] = retries[g]
  BY <1>1 DEF APIStep, UploadStep, CancelStep, DeleteStep, UploadCheckDuplicate, UploadForced,
    UploadCreate, UploadMedia, UploadEnqueue, UploadReuse, UploadTrigger, CancelRead, CancelFlag,
    CancelWrite, CancelExpire, Delete, DeleteVectorsStep, DeleteRow, CreateRow, DeleteRows,
    storeVars, dbVars, TypeOK, StoreTypeOK
<1>4. /\ Adds(Jobs)
      /\ \A m \in unread' : m \in unread \/ upload[log'[m].file] # "done"
  <2>1. CASE UNCHANGED streamVars
    BY <2>1 DEF Adds, streamVars
  <2>2. ASSUME NEW job \in Jobs, XADD(job), upload[job.file] # "done"
        PROVE  /\ Adds(Jobs)
               /\ \A m \in unread' : m \in unread \/ upload[log'[m].file] # "done"
    BY <2>2, XADDAdds
  <2> QED
    BY <2>1, <2>2, UploadsAdd DEF Calm
<1>5. ASSUME NEW g \in Files, upload[g] # "done"
      PROVE  vecs'[g] = 0 /\ VectorsOf(g)'
  <2>1. vecs'[g] = 0 /\ retries'[g] \in Nat
    BY <1>2, <1>5 DEF VectorInv, TypeOK, StoreTypeOK
  <2> QED
    BY <1>4, <1>5, <2>1, VectorsNone
<1>6. ASSUME NEW g \in Files, upload[g] = "done", g \in row' PROVE VectorsOf(g)'
  <2>1. /\ VectorsOf(g) /\ retries'[g] = retries[g] /\ vecs'[g] \in {vecs[g], 0}
        /\ \A m \in unread' : log'[m].file = g => m \in unread
    BY <1>2, <1>3, <1>4, <1>6 DEF VectorInv
  <2>2. \A w \in Workers : Running(w)' => /\ Running(w) /\ pc'[w] = pc[w] /\ msg'[w] = msg[w]
                                          /\ count'[w] = count[w]
    BY DEF Running, Working, workerVars
  <2> QED
    BY <1>4, <2>1, <2>2, VectorsKept
<1> QED
  BY <1>2, <1>5, <1>6 DEF VectorInv

(* A worker starts a job that was unread.                                      *)
LEMMA VectorsLoop ==
  ASSUME Calm, TypeOK, OneAtATime, VectorInv, NEW w \in Workers, LoopStep(w)
  PROVE  VectorInv'
<1>1. /\ UNCHANGED <<apiVars, storeVars, log>>
      /\ \A v \in Workers \ {w} : pc'[v] = pc[v] /\ msg'[v] = msg[v] /\ count'[v] = count[v]
  BY LoopStepIs
<1>2. unread' \subseteq unread /\ (Working(w)' => pc'[w] = "begin" /\ msg'[w] \in unread)
  <2>1. CASE ReadStep(w)
    <3>1. ASSUME NEW s, NEW m, XREADGROUP(s, m), StartJob(w, m, FALSE)
          PROVE  unread' \subseteq unread /\ pc'[w] = "begin" /\ msg'[w] \in unread
      BY <3>1 DEF XREADGROUP, Oldest, Unread, StartJob, Goto, TypeOK, WorkerTypeOK
    <3>2. CASE UNCHANGED streamVars /\ (Goto(w, "low") \/ Goto(w, "loop"))
      BY <3>2 DEF streamVars, Goto, Working, JobSteps, TrySteps, ErrorSteps, TypeOK, WorkerTypeOK
    <3> QED
      BY <2>1, <3>1, <3>2 DEF ReadStep, ReadHigh, ReadLow
  <2>2. CASE Start(w) \/ PeriodicScan(w) \/ ScanAborted(w) \/ ScanDone(w) \/ Crash(w)
    BY <2>2 DEF Start, PeriodicScan, Scan, ScanAborted, ScanDone, Crash, Goto, Working, JobSteps,
      TrySteps, ErrorSteps, ScanSteps, streamVars, TypeOK, WorkerTypeOK
  <2>3. CASE Return(w) \/ Raise(w)
    BY <2>3 DEF Return, Raise, LeaveJob, XACK, XACKandXTRIM, Acked, Goto, Working, JobSteps,
      TrySteps, ErrorSteps, streamVars, TypeOK, WorkerTypeOK
  <2>4. ASSUME NEW t \in todo[w],
               DeadLetter(w, t) \/ ClaimNothing(w, t) \/ Claim(w, t) \/ AckOrphan(w, t)
        PROVE  unread' \subseteq unread /\ ~ Working(w)'
    <3>1. DeadLetter(w, t) \/ ClaimNothing(w, t)
      BY <2>4 DEF Claim, XCLAIM, AckOrphan, OneAtATime
    <3> QED
      BY <3>1 DEF DeadLetter, ClaimNothing, Inspects, XACK, Acked, streamVars, Working, JobSteps,
        TrySteps, ErrorSteps, ScanSteps
  <2> QED
    BY <2>1, <2>2, <2>3, <2>4 DEF LoopStep, ScanStep
<1>3. ASSUME NEW f \in Files, f \in row PROVE VectorsOf(f)'
  <2>1. \A v \in Workers : Running(v)' /\ File(v)' = f =>
          \/ Running(v) /\ File(v) = f /\ pc'[v] = pc[v] /\ count'[v] = count[v]
          \/ pc'[v] = "begin" /\ \E m \in unread : log[m].file = f
    <3>1. \A v \in Workers \ {w} : Running(v)' = Running(v) /\ File(v)' = File(v)
      BY <1>1 DEF Running, Working, File, Job
    <3>2. Running(w)' => pc'[w] = "begin" /\ msg'[w] \in unread /\ File(w)' = log[msg'[w]].file
      BY <1>1, <1>2 DEF Running, File, Job
    <3> QED
      BY <1>1, <3>1, <3>2
  <2>2. VectorsOf(f) /\ UNCHANGED <<vecs, retries, log>>
    BY <1>1, <1>3 DEF VectorInv, storeVars
  <2> QED
    BY <1>2, <2>1, <2>2 DEF VectorsOf, Appended
<1> QED
  BY <1>1, <1>3 DEF VectorInv, apiVars, storeVars

(* process_job writes the vectors, chunks and retry count of its own file.     *)
LEMMA WritesOwn ==
  ASSUME TypeOK, NEW w \in Workers, ProcessStep(w)
  PROVE  \A g \in Files \ {File(w)} :
           vecs'[g] = vecs[g] /\ retries'[g] = retries[g] /\ (g \in chunks => g \in chunks')
<1>1. Working(w) /\ File(w) \in Files
  BY ProcessStepIs, JobType
<1>2. CASE StatusStep(w)
  BY <1>2, StatusStepIs DEF StatusOnly
<1>3. CASE ~ StatusStep(w)
  BY <1>1, <1>3 DEF ProcessStep, PipelineStep, StatusStep, ErrorStep, Begin, Duplicate, Load, Store,
    Markdown, AppendVectors, InsertVectors, Pass1, Pass2, Replace, DeleteVectors, MarkdownAgain,
    RecordMarkdown, EnqueuePass2, Fail, ShouldRetry, RequeueCount, Requeue, RequeueAdd, MarkFailed,
    storeVars, dbVars, TypeOK, StoreTypeOK
<1> QED
  BY <1>2, <1>3

(* What a full run does to the vectors and the retry count of a file.          *)
LEMMA VectorsRun ==
  ASSUME Calm, TypeOK, FullRuns, NEW w \in Workers, ProcessStep(w), NEW f \in Files, f = File(w),
         f \in row, VectorsOf(f)
  PROVE  /\ vecs'[f] <= 1 + retries'[f]
         /\ UNCHANGED streamVars \/ vecs'[f] <= retries'[f]
         /\ pc'[w] \notin {"return", "raise"} =>
              /\ pc'[w] \notin Appended => vecs'[f] <= retries'[f]
              /\ pc'[w] = "requeue" => count'[w] > retries'[f]
              /\ pc'[w] = "markFailed" => count'[w] = retries'[f]
<1>1. /\ Working(w) /\ vecs[f] \in Nat /\ retries[f] \in Nat /\ count[w] \in Nat
      /\ pc[w] \notin OtherPaths /\ pc'[w] \notin OtherPaths
      /\ RetryCounts(f) = {retries[f]} /\ "db" \notin Faults /\ "redis" \notin Faults
  BY ProcessStepIs, FullRun DEF Calm, RetryCounts, TypeOK, StoreTypeOK, WorkerTypeOK
<1>2. /\ vecs[f] <= 1 + retries[f]
      /\ pc[w] \notin {"return", "raise"} =>
           /\ pc[w] \notin Appended => vecs[f] <= retries[f]
           /\ pc[w] = "requeue" => count[w] > retries[f]
           /\ pc[w] = "markFailed" => count[w] = retries[f]
  BY <1>1 DEF VectorsOf, Running
<1>3. CASE StatusStep(w)
  <2>1. UNCHANGED StatusOnly /\ pc[w] \in TrySteps
    BY <1>3, StatusStepIs DEF At, During
  <2>2. pc[w] \notin Appended \/ pc'[w] = "return"
    BY <1>1, <1>3 DEF StatusStep, Entity, EntityDone, Fast, FastDone, Parsing, Chunking, Indexing,
      Complete, View, Pass1Done, Enhanced, UpdateStatus, Goto, Appended, At, During, TypeOK,
      WorkerTypeOK
  <2>3. pc'[w] \notin {"requeue", "markFailed"}
    BY <1>1, <1>3 DEF StatusStep, Entity, EntityDone, Fast, FastDone, Parsing, Chunking, Indexing,
      Complete, View, Pass1Done, Enhanced, UpdateStatus, FileGone, Raises, Goto, OtherPaths, At,
      During, TypeOK, WorkerTypeOK
  <2>4. UNCHANGED <<vecs, retries, streamVars>>
    BY <2>1 DEF StatusOnly
  <2>5. pc'[w] \notin {"return", "raise"} => vecs[f] <= retries[f]
    BY <1>2, <2>1, <2>2 DEF TrySteps
  <2> QED
    BY <1>2, <2>3, <2>4, <2>5
<1>4. CASE Begin(w) \/ Duplicate(w) \/ Load(w) \/ Store(w) \/ Markdown(w)
  <2>1. UNCHANGED <<vecs, retries, streamVars>> /\ pc[w] \in TrySteps \cup {"duplicate"}
        /\ pc[w] \notin Appended
    BY <1>4 DEF Begin, Duplicate, Load, Store, Markdown, RecordMarkdown, storeVars, Appended, At,
      During, TrySteps
  <2>2. pc'[w] \notin {"requeue", "markFailed"}
    BY <1>4 DEF Begin, Duplicate, Load, Store, AfterStore, Markdown, Dispatch, FileGone, Raises,
      Goto, TypeOK, WorkerTypeOK
  <2> QED
    BY <1>2, <2>1, <2>2 DEF TrySteps
<1>5. CASE AppendVectors(w)
  <2>1. /\ vecs'[f] \in {vecs[f], vecs[f] + 1} /\ UNCHANGED <<retries, streamVars>> /\ vecs[f] <= retries[f]
    BY <1>2, <1>5 DEF AppendVectors, InsertVectors, dbVars, Appended, At, During, TypeOK,
      StoreTypeOK
  <2>2. pc'[w] = "complete"
    <3>1. pc'[w] \in {"complete", "markdown", "markdownAgain"} /\ ~ Progressive(Job(w))
      BY <1>1, <1>5, JobType DEF AppendVectors, Goto, Progressive, Calm, File, TypeOK, WorkerTypeOK
    <3> QED
      BY <1>5, <3>1 DEF AppendVectors, Goto, TypeOK, WorkerTypeOK
  <2> QED
    BY <1>1, <2>1, <2>2 DEF Appended
<1>6. CASE Fail(w)
  <2>1. UNCHANGED <<vecs, retries, streamVars>> /\ pc'[w] = "error"
    BY <1>6 DEF Fail, Raises, Goto, storeVars, TypeOK, WorkerTypeOK
  <2> QED
    BY <1>2, <2>1 DEF Appended
<1>7. CASE ShouldRetry(w) \/ RequeueCount(w)
  <2>1. UNCHANGED <<vecs, retries, streamVars>>
    BY <1>7 DEF ShouldRetry, RequeueCount, storeVars
  <2>2. \/ pc'[w] = "requeueCount"
        \/ pc'[w] = "requeue" /\ count'[w] = retries[f] + 1
        \/ pc'[w] = "markFailed" /\ count'[w] = retries[f]
    BY <1>1, <1>7 DEF ShouldRetry, RequeueCount, RetryOrFail, Goto, TypeOK, WorkerTypeOK
  <2> QED
    BY <1>1, <1>2, <2>1, <2>2 DEF Appended
<1>8. CASE Requeue(w)
  <2>1. /\ pc[w] = "requeue" /\ pc'[w] = "requeueAdd" /\ UNCHANGED <<vecs, streamVars>>
        /\ retries'[f] = count[w]
    BY <1>1, <1>8 DEF Requeue, Goto, At, During, TypeOK, WorkerTypeOK, StoreTypeOK
  <2> QED
    BY <1>1, <1>2, <2>1
<1>9. CASE RequeueAdd(w)
  <2>1. pc[w] = "requeueAdd" /\ pc'[w] = "return" /\ UNCHANGED <<vecs, retries>>
    BY <1>9 DEF RequeueAdd, Goto, At, During, storeVars, TypeOK, WorkerTypeOK
  <2> QED
    BY <1>2, <2>1 DEF Appended
<1>10. CASE MarkFailed(w)
  <2>1. /\ pc[w] = "markFailed" /\ pc'[w] = "raise" /\ UNCHANGED <<vecs, streamVars>>
        /\ retries'[f] = count[w]
    BY <1>1, <1>10 DEF MarkFailed, Goto, At, During, TypeOK, WorkerTypeOK, StoreTypeOK
  <2> QED
    BY <1>2, <2>1
<1>11. ~ Pass1(w) /\ ~ EnqueuePass2(w) /\ ~ Pass2(w) /\ ~ Replace(w) /\ ~ MarkdownAgain(w)
  BY <1>1 DEF Pass1, EnqueuePass2, Pass2, Replace, MarkdownAgain, OtherPaths, At, During
<1> QED
  BY <1>3, <1>4, <1>5, <1>6, <1>7, <1>8, <1>9, <1>10, <1>11
    DEF ProcessStep, PipelineStep, StatusStep, ErrorStep

(* process_job.                                                                *)
LEMMA VectorsProcess ==
  ASSUME Calm, TypeOK, UploadsBefore, FullRuns, OneAtATime, OneAtATime', VectorInv,
         NEW w \in Workers, ProcessStep(w)
  PROVE  VectorInv'
<1>1. /\ Working(w) /\ Working(w)' /\ UNCHANGED <<msg, apiVars, row>> /\ msg[w] \in Ids
      /\ \A v \in Workers \ {w} : pc'[v] = pc[v]
  BY ProcessStepIs, ProcessStepMoves, ProcessStepRow, JobType DEF Working, TypeOK, WorkerTypeOK
<1>2. Adds(Jobs) /\ \A m \in unread' : m \in unread \/ log'[m].file = File(w)
  <2>1. CASE UNCHANGED streamVars
    BY <2>1 DEF Adds, streamVars
  <2>2. ASSUME NEW job \in Jobs, XADD(job), job.file = File(w)
        PROVE  Adds(Jobs) /\ \A m \in unread' : m \in unread \/ log'[m].file = File(w)
    BY <2>2, XADDAdds
  <2> QED
    BY <2>1, <2>2, ProcessAddsOwn
<1>3. PICK f \in Files : f = File(w) /\ f = File(w)'
  BY <1>1, <1>2, JobType, JobStays
<1>4. \A v \in Workers \ {w} : count'[v] = count[v]
  <2>1. CASE UNCHANGED count
    BY <2>1
  <2>2. CASE ShouldRetry(w) \/ RequeueCount(w)
    BY <2>2 DEF ShouldRetry, RetryOrFail, RequeueCount, TypeOK, WorkerTypeOK
  <2>3. CASE StatusStep(w)
    BY <2>1, <2>3, StatusStepIs DEF At
  <2> QED
    BY <2>1, <2>2, <2>3 DEF ProcessStep, PipelineStep, StatusStep, ErrorStep, Begin, Duplicate, Load,
      Store, Markdown, AppendVectors, Pass1, EnqueuePass2, Pass2, Replace, MarkdownAgain, Fail,
      Requeue, RequeueAdd, MarkFailed, At
<1>5. ASSUME NEW g \in Files, g # f, g \in row PROVE VectorsOf(g)'
  <2>1. VectorsOf(g) /\ retries'[g] = retries[g] /\ vecs'[g] = vecs[g]
    BY <1>3, <1>5, WritesOwn DEF VectorInv
  <2>2. \A m \in unread' : log'[m].file = g => m \in unread
    BY <1>2, <1>3, <1>5
  <2>3. \A v \in Workers : Running(v)' /\ File(v)' = g =>
          Running(v) /\ pc'[v] = pc[v] /\ msg'[v] = msg[v] /\ count'[v] = count[v]
    BY <1>1, <1>3, <1>4, <1>5 DEF Running, Working
  <2> QED
    BY <1>2, <2>1, <2>2, <2>3, VectorsKept
<1>6. ASSUME f \in row PROVE VectorsOf(f)'
  <2>1. VectorsOf(f)
    BY <1>6 DEF VectorInv
  <2>2. pc[w] \notin {"return", "raise"}
    BY <1>1, ProcessStepRuns
  <2>3. \A v \in Workers : Running(v)' /\ File(v)' = f => v = w
    BY <1>1, <1>2, <1>3, <2>2, JobStays DEF OneAtATime, OneRunner, Running, Working
  <2>4. UNCHANGED streamVars => ~ \E m \in unread' : log'[m].file = f
    <3>1. \A m \in unread : File(w) # log[m].file
      BY <1>1, <2>2 DEF OneAtATime, Running
    <3> QED
      BY <1>3, <3>1 DEF streamVars
  <2> QED
    BY <1>3, <1>6, <2>1, <2>3, <2>4, VectorsRun DEF VectorsOf, Running
<1>7. upload[f] = "done"
  BY <1>1, <1>3 DEF UploadsBefore, File, Job
<1> QED
  BY <1>1, <1>3, <1>5, <1>6, <1>7, WritesOwn DEF VectorInv, apiVars

(* Every step.                                                                 *)
LEMMA VectorsStep ==
  ASSUME Calm
  PROVE  /\ TypeOK /\ TypeOK' /\ UploadsBefore /\ FullRuns /\ OneAtATime /\ OneAtATime' /\ VectorInv
         /\ [Next]_vars
         => VectorInv'
<1> SUFFICES ASSUME TypeOK, TypeOK', UploadsBefore, FullRuns, OneAtATime, OneAtATime', VectorInv,
                    [Next]_vars
             PROVE  VectorInv'
  OBVIOUS
<1>1. CASE UNCHANGED vars
  BY <1>1 DEF VectorInv, VectorsOf, Running, Working, File, Job, vars, streamVars, storeVars,
    apiVars, workerVars
<1>2. ~ \E m \in Pending : BecomeIdle(m)
  BY DEF BecomeIdle, Calm, OneAtATime
<1> QED
  BY <1>1, <1>2, VectorsAPI, VectorsLoop, VectorsProcess, WorkerStepIs DEF Next

(* Milvus holds one copy of the vectors of a file for its first run and at most *)
(* one for each retry, whatever fails inside the jobs, is cancelled, deleted,   *)
(* uploaded twice or trimmed from the streams, for any number of workers: while *)
(* no worker dies, no job outlasts the idle time of a claim, PostgreSQL and     *)
(* Redis answer, nobody reprocesses a file and no PDF is among them             *)
(* (insert_text_chunks, requeue_job and the acknowledgements of run).           *)
THEOREM VectorsAreCounted ==
  ASSUME Calm
  PROVE  Spec => []NoExtraVectors
<1>1. Init => UploadsBefore /\ FullRuns /\ OneAtATime /\ VectorInv
  BY DEF Init, StreamInit, StoreInit, APIInit, WorkerInit, NoReprocess, UploadsBefore, FullRuns,
    OneAtATime, OneRunner, VectorInv, Ids, Pending, OtherPaths, Running, Working, JobSteps, TrySteps,
    ErrorSteps
<1>2. TypeOK /\ VectorInv => NoExtraVectors
  BY DEF VectorInv, VectorsOf, NoExtraVectors, TypeOK, StoreTypeOK
<1>3. MaxReprocess = 0 /\ \A f \in Files : Kind[f] # "pdf"
  BY DEF Calm
<1>4. /\ TypeOK /\ UploadsBefore /\ [Next]_vars => UploadsBefore'
      /\ TypeOK /\ UploadsBefore /\ FullRuns /\ [Next]_vars => FullRuns'
  BY <1>3, UploadsBeforeStep, FullRunsStep
<1> QED
  BY <1>1, <1>2, <1>4, TypeCorrect, OneStep, VectorsStep, PTL DEF Spec

------------------------------------------------------------------------------
(* CompletedIsFinal.  No upload is forced, nobody reprocesses a file and no     *)
(* trigger fires: every job is one that _check_duplicate may stop; and          *)
(* PostgreSQL answers, for the check fails open.                               *)
AsUploaded ==
  /\ MaxReprocess = 0
  /\ TRUE \notin ForceUploads
  /\ Triggered = {}
  /\ "db" \notin Faults

(* Where a worker whose file is completed may be: before the check, past the    *)
(* end, or in the error handler.                                               *)
AtRest == {"begin", "duplicate", "return", "raise"} \cup ErrorSteps

FinalInv ==
  /\ \A f \in Files : upload[f] \notin {"newForced", "createdForced", "dupCreated"}
  /\ \A m \in Ids : ~ log[m].force
  /\ \A w \in Workers : Working(w) /\ stage[File(w)] = "completed" => pc[w] \in AtRest

(* What a step of process_job does to a completed file, and when it completes  *)
(* the file.                                                                   *)
LEMMA FinalStatus ==
  ASSUME TypeOK, NEW w \in Workers, StatusStep(w)
  PROVE  /\ pc[w] \notin AtRest
         /\ stage'[File(w)] = "completed" => stage[File(w)] = "completed" \/ pc'[w] = "return"
<1>1. pc[w] \notin AtRest
  BY DEF StatusStep, Entity, EntityDone, Fast, FastDone, Parsing, Chunking, Indexing, Complete, View,
    Pass1Done, Enhanced, At, During, AtRest, ErrorSteps
<1>2. Working(w) /\ File(w) \in Files
  BY JobType, ProcessStepIs DEF ProcessStep, PipelineStep, StatusStep
<1>3. \/ \E s \in Stages \ {"completed"} : \E next : UpdateStatus(w, s, next)
      \/ UpdateStatus(w, "completed", "return")
  BY DEF StatusStep, Entity, EntityDone, Fast, FastDone, Parsing, Chunking, Indexing, Complete, View,
    Pass1Done, Enhanced, Stages
<1> QED
  BY <1>1, <1>2, <1>3 DEF UpdateStatus, SetStage, Goto, TypeOK, StoreTypeOK, WorkerTypeOK

LEMMA FinalRun ==
  ASSUME AsUploaded, TypeOK, NoResurrection, FinalInv, NEW w \in Workers, ProcessStep(w),
         NEW f \in Files, f = File(w)
  PROVE  /\ stage'[f] = "completed" => pc'[w] \in AtRest
         /\ stage[f] = "completed"
            => /\ stage'[f] \in {"completed", "queued", "failed"} /\ vecs'[f] = vecs[f]
               /\ f \in chunks => f \in chunks'
<1>1. Working(w) /\ msg[w] \in Ids /\ Job(w) \in Jobs
  BY ProcessStepIs, JobType
<1>2. /\ stage[f] = "completed" => pc[w] \in AtRest
      /\ ~ Job(w).force
      /\ stage[f] = "completed" => f \in row
  BY <1>1 DEF FinalInv, NoResurrection, Job
<1>3. CASE StatusStep(w)
  BY <1>2, <1>3, FinalStatus DEF AtRest
<1>4. CASE Begin(w)
  <2>1. stage' = stage /\ vecs' = vecs /\ chunks' = chunks
    BY <1>4 DEF Begin, storeVars
  <2>2. ASSUME stage[f] = "completed" PROVE pc'[w] \in AtRest
    <3>1. CASE Visible(Job(w))
      <4>1. f \in CompletedCopies(Job(w))
        BY <1>2, <2>2, <3>1 DEF CompletedCopies, Twins, Visible, File
      <4> QED
        BY <1>2, <1>4, <4>1 DEF Begin, Goto, AtRest, TypeOK, WorkerTypeOK
    <3>2. CASE ~ Visible(Job(w))
      BY <1>4, <3>2 DEF Begin, Goto, AtRest, TypeOK, WorkerTypeOK
    <3> QED
      BY <3>1, <3>2
  <2> QED
    BY <2>1, <2>2
<1>5. CASE Duplicate(w)
  <2>1. vecs' = vecs /\ chunks' = chunks
    BY <1>5 DEF Duplicate
  <2>2. CASE f \in row
    BY <1>5, <2>1, <2>2 DEF Duplicate, AsUploaded, SetStage, Goto, AtRest, TypeOK, StoreTypeOK,
      WorkerTypeOK
  <2>3. CASE f \notin row
    <3>1. stage' = stage /\ stage[f] = "none"
      BY <1>5, <2>3 DEF Duplicate, NoResurrection
    <3> QED
      BY <2>1, <3>1
  <2> QED
    BY <2>2, <2>3
<1>6. CASE Fail(w) \/ ErrorStep(w)
  <2>1. vecs' = vecs /\ chunks' = chunks
    BY <1>6 DEF Fail, ErrorStep, ShouldRetry, RequeueCount, Requeue, RequeueAdd, MarkFailed,
      storeVars
  <2>2. stage'[f] \in {stage[f], "queued", "failed"}
    BY <1>6 DEF Fail, ErrorStep, ShouldRetry, RequeueCount, Requeue, RequeueAdd, MarkFailed,
      storeVars, SetStageIfRow, SetStage, TypeOK, StoreTypeOK
  <2>3. pc'[w] \in AtRest
    BY <1>6 DEF Fail, Raises, ErrorStep, ShouldRetry, RetryOrFail, RequeueCount, Requeue, RequeueAdd,
      MarkFailed, Goto, AtRest, ErrorSteps, TypeOK, WorkerTypeOK
  <2> QED
    BY <2>1, <2>2, <2>3
<1>7. CASE \/ Load(w) \/ Store(w) \/ Markdown(w) \/ AppendVectors(w) \/ Pass1(w) \/ EnqueuePass2(w)
           \/ Pass2(w) \/ Replace(w) \/ MarkdownAgain(w)
  <2>1. pc[w] \notin AtRest
    BY <1>7 DEF Load, Store, Markdown, AppendVectors, Pass1, EnqueuePass2, Pass2, Replace,
      MarkdownAgain, At, During, AtRest, ErrorSteps
  <2>2. stage'[f] # "completed"
    BY <1>2, <1>7, <2>1 DEF Load, Store, Markdown, AppendVectors, Pass1, EnqueuePass2, Pass2,
      CancelOr, HandleCancellation, SetStage, RecordMarkdown, Replace, MarkdownAgain, storeVars,
      dbVars, TypeOK, StoreTypeOK
  <2> QED
    BY <1>2, <2>1, <2>2
<1> QED
  BY <1>3, <1>4, <1>5, <1>6, <1>7 DEF ProcessStep, PipelineStep, StatusStep

(* The requests complete a file only before it has a job.                      *)
LEMMA FinalAPI ==
  ASSUME AsUploaded, TypeOK, UploadsBefore, FinalInv, NEW f \in Files, APIStep(f),
         UNCHANGED workerVars
  PROVE  FinalInv'
<1>1. ~ Reprocess(f) /\ ~ ReprocessStep(f)
  BY DEF AsUploaded, Reprocess, ReprocessStep, ReprocessVectors, ReprocessStatus, ReprocessEnqueue,
    UploadsBefore, TypeOK, APITypeOK
<1>2. \A g \in Files : upload'[g] \notin {"newForced", "createdForced", "dupCreated"}
  BY <1>1 DEF APIStep, UploadStep, CancelStep, DeleteStep, UploadCheckDuplicate, UploadForced,
    UploadCreate, UploadMedia, UploadEnqueue, UploadReuse, UploadTrigger, CancelRead, CancelFlag,
    CancelWrite, CancelExpire, Delete, DeleteVectorsStep, DeleteRow, SetUpload, apiVars, FinalInv,
    AsUploaded, TypeOK, APITypeOK
<1>3. \A g \in Files : upload[g] = "done" /\ stage'[g] = "completed" => stage[g] = "completed"
  BY <1>1 DEF APIStep, UploadStep, CancelStep, DeleteStep, UploadCheckDuplicate, UploadForced,
    UploadCreate, UploadMedia, UploadEnqueue, UploadReuse, UploadTrigger, CancelRead, CancelFlag,
    CancelWrite, CancelExpire, Delete, DeleteVectorsStep, DeleteRow, SetStageIfRow, SetStage,
    CreateRow, DeleteRows, storeVars, dbVars, TypeOK, StoreTypeOK
<1>4. /\ Adds(Jobs)
      /\ \A m \in Ids' : ~ log'[m].force
  <2>1. CASE UNCHANGED streamVars
    BY <2>1 DEF streamVars, Adds, Ids, FinalInv
  <2>2. ASSUME NEW job \in Jobs, XADD(job), ~ job.force
        PROVE  Adds(Jobs) /\ \A m \in Ids' : ~ log'[m].force
    <3>1. log' = Append(log, job)
      BY <2>2 DEF XADD
    <3>2. \A m \in Ids' : log'[m] = job \/ (m \in Ids /\ log'[m] = log[m])
      BY <3>1 DEF TypeOK, StreamTypeOK, Ids
    <3> QED
      BY <2>2, <3>1, <3>2 DEF Adds, FinalInv
  <2> QED
    BY <2>1, <2>2, UploadsAddJob DEF AsUploaded, FinalInv
<1>5. ASSUME NEW w \in Workers, Working(w)', stage'[File(w)'] = "completed" PROVE pc'[w] \in AtRest
  <2>1. Working(w) /\ pc'[w] = pc[w] /\ File(w)' = File(w)
    BY <1>4, <1>5, JobStays DEF workerVars, Working
  <2>2. upload[File(w)] = "done" /\ File(w) \in Files
    BY <2>1, JobType DEF UploadsBefore, File, Job
  <2> QED
    BY <1>3, <1>5, <2>1, <2>2 DEF FinalInv
<1> QED
  BY <1>2, <1>4, <1>5 DEF FinalInv

(* process_job, whose file no other job is running on.                         *)
LEMMA FinalProcess ==
  ASSUME AsUploaded, TypeOK, NoResurrection, OneRunner, FinalInv, NEW w \in Workers, ProcessStep(w)
  PROVE  FinalInv'
<1>1. /\ Working(w) /\ msg[w] \in Ids /\ UNCHANGED <<msg, apiVars>>
      /\ \A v \in Workers \ {w} : pc'[v] = pc[v]
  BY ProcessStepIs, JobType, ProcessStepMoves DEF TypeOK, WorkerTypeOK
<1>2. PICK f \in Files : f = File(w)
  BY <1>1, JobType
<1>3. /\ Adds(Jobs)
      /\ \A m \in Ids' : ~ log'[m].force
  <2>1. CASE UNCHANGED streamVars
    BY <2>1 DEF streamVars, Adds, Ids, FinalInv
  <2>2. ASSUME NEW job \in Jobs, XADD(job), ~ job.force
        PROVE  Adds(Jobs) /\ \A m \in Ids' : ~ log'[m].force
    <3>1. log' = Append(log, job)
      BY <2>2 DEF XADD
    <3>2. \A m \in Ids' : log'[m] = job \/ (m \in Ids /\ log'[m] = log[m])
      BY <3>1 DEF TypeOK, StreamTypeOK, Ids
    <3> QED
      BY <2>2, <3>1, <3>2 DEF Adds, FinalInv
  <2>3. ~ Job(w).force
    BY <1>1 DEF FinalInv, Job
  <2> QED
    BY <2>1, <2>2, <2>3, ProcessAddsJob
<1>4. ASSUME NEW v \in Workers, Working(v)', stage'[File(v)'] = "completed" PROVE pc'[v] \in AtRest
  <2>1. CASE v = w
    BY <1>1, <1>2, <1>3, <1>4, <2>1, FinalRun, JobStays
  <2>2. CASE v # w
    <3>1. Working(v) /\ pc'[v] = pc[v] /\ msg'[v] = msg[v]
      BY <1>1, <1>4, <2>2 DEF Working
    <3>2. File(v)' = File(v) /\ File(v) \in Files
      BY <1>3, <3>1, JobStays, JobType
    <3>3. CASE File(v) = File(w)
      <4>1. ~ Running(v)
        BY <1>1, <2>2, <3>3, ProcessStepRuns DEF OneRunner, Running
      <4> QED
        BY <3>1, <4>1 DEF Running, AtRest
    <3>4. CASE File(v) # File(w)
      BY <1>4, <3>1, <3>2, <3>4, StageOfOne DEF FinalInv
    <3> QED
      BY <3>3, <3>4
  <2> QED
    BY <2>1, <2>2
<1>5. \A g \in Files : upload'[g] \notin {"newForced", "createdForced", "dupCreated"}
  BY <1>1 DEF FinalInv, apiVars
<1> QED
  BY <1>3, <1>4, <1>5 DEF FinalInv

(* Every step.                                                                 *)
LEMMA FinalStep ==
  ASSUME AsUploaded
  PROVE  TypeOK /\ UploadsBefore /\ NoResurrection /\ OneRunner /\ FinalInv /\ [Next]_vars
         => FinalInv'
<1> SUFFICES ASSUME TypeOK, UploadsBefore, NoResurrection, OneRunner, FinalInv, [Next]_vars
             PROVE  FinalInv'
  OBVIOUS
<1>1. CASE UNCHANGED <<log, stage, apiVars, workerVars>>
  BY <1>1 DEF FinalInv, apiVars, workerVars, Ids, Working, File, Job
<1>2. CASE \E m \in Pending : BecomeIdle(m)
  BY <1>1, <1>2 DEF BecomeIdle, storeVars
<1>3. ASSUME NEW w \in Workers, LoopStep(w) PROVE FinalInv'
  <2>1. UNCHANGED <<apiVars, storeVars, log>>
    BY <1>3, LoopStepIs
  <2>2. ASSUME NEW v \in Workers, Working(v)', stage'[File(v)'] = "completed"
        PROVE  pc'[v] \in AtRest
    <3>1. CASE v = w
      BY <1>3, <2>2, <3>1, LoopStepIs DEF AtRest
    <3>2. CASE v # w
      <4>1. pc'[v] = pc[v] /\ msg'[v] = msg[v]
        BY <1>3, <3>2, LoopStepIs
      <4> QED
        BY <2>1, <2>2, <4>1 DEF FinalInv, storeVars, Working, File, Job
    <3> QED
      BY <3>1, <3>2
  <2> QED
    BY <2>1, <2>2 DEF FinalInv, apiVars, Ids
<1> QED
  BY <1>1, <1>2, <1>3, FinalAPI, FinalProcess, WorkerStepIs DEF Next, vars, streamVars, storeVars

(* What a step does to a completed file that nobody asks for.                  *)
Stays ==
  \A f \in row :
    stage[f] = "completed" /\ ~ Asked(f) /\ f \in row'
      => /\ stage'[f] \in {"completed", "queued", "failed"} /\ vecs'[f] = vecs[f]
         /\ f \in chunks => f \in chunks'

LEMMA StaysAPI ==
  ASSUME AsUploaded, TypeOK, UploadsBefore, NEW e \in Files, APIStep(e), NEW f \in row,
         stage[f] = "completed", ~ Asked(f), f \in row'
  PROVE  /\ stage'[f] \in {"completed", "queued", "failed"} /\ vecs'[f] = vecs[f]
         /\ f \in chunks => f \in chunks'
<1>1. ~ Reprocess(e) /\ ~ ReprocessStep(e)
  BY DEF AsUploaded, Reprocess, ReprocessStep, ReprocessVectors, ReprocessStatus, ReprocessEnqueue,
    UploadsBefore, TypeOK, APITypeOK
<1>2. f \in Files /\ upload[f] \notin Early
  BY DEF UploadsBefore, TypeOK, StoreTypeOK
<1>3. deletion[f] = "none" /\ canceling[f] # "write"
  BY DEF Asked
<1>4. CASE UploadStep(e)
  BY <1>2, <1>4 DEF UploadStep, UploadCheckDuplicate, UploadForced, UploadCreate, UploadMedia,
    UploadEnqueue, UploadReuse, UploadTrigger, SetStageIfRow, SetStage, CreateRow, DeleteRows, Early,
    storeVars, dbVars, TypeOK, StoreTypeOK
<1>5. CASE CancelRead(e) \/ CancelStep(e) \/ CancelExpire(e) \/ Delete(e) \/ DeleteStep(e)
  BY <1>2, <1>3, <1>5 DEF CancelStep, DeleteStep, CancelRead, CancelFlag, CancelWrite, CancelExpire,
    Delete, DeleteVectorsStep, DeleteVectors, DeleteRow, SetStageIfRow, SetStage, DeleteRows,
    storeVars, dbVars, TypeOK, StoreTypeOK
<1> QED
  BY <1>1, <1>4, <1>5 DEF APIStep

LEMMA StaysStep ==
  ASSUME AsUploaded
  PROVE  TypeOK /\ UploadsBefore /\ NoResurrection /\ FinalInv /\ [Next]_vars => Stays
<1> SUFFICES ASSUME TypeOK, UploadsBefore, NoResurrection, FinalInv, [Next]_vars, NEW f \in row,
                    stage[f] = "completed", ~ Asked(f), f \in row'
             PROVE  /\ stage'[f] \in {"completed", "queued", "failed"} /\ vecs'[f] = vecs[f]
                    /\ f \in chunks => f \in chunks'
  BY DEF Stays
<1>1. CASE UNCHANGED storeVars
  BY <1>1 DEF storeVars
<1>2. ASSUME NEW w \in Workers, ProcessStep(w)
      PROVE  /\ stage'[f] \in {"completed", "queued", "failed"} /\ vecs'[f] = vecs[f]
             /\ f \in chunks => f \in chunks'
  <2>1. f \in Files
    BY DEF TypeOK, StoreTypeOK
  <2>2. CASE f = File(w)
    BY <1>2, <2>1, <2>2, FinalRun
  <2>3. CASE f # File(w)
    BY <1>2, <2>1, <2>3, StageOfOne, WritesOwn
  <2> QED
    BY <2>2, <2>3
<1>3. ASSUME NEW w \in Workers, LoopStep(w) PROVE UNCHANGED storeVars
  BY <1>3, LoopStepIs
<1>4. CASE \E m \in Pending : BecomeIdle(m)
  BY <1>1, <1>4 DEF BecomeIdle
<1> QED
  BY <1>1, <1>2, <1>3, <1>4, StaysAPI, WorkerStepIs DEF Next, vars

(* While nobody asks for a completed file, its vectors and chunks stay and its  *)
(* status leaves completed only through the error handler, whichever of its    *)
(* jobs are read late, retried or delivered again, and whatever fails in them: *)
(* no upload is forced, no trigger fires, nobody reprocesses a file, PostgreSQL *)
(* answers, and one worker runs, which may die (PDFs included), or any number  *)
(* while all is calm (_check_duplicate, requeue_job, mark_failed).             *)
THEOREM CompletedStays ==
  ASSUME AsUploaded, Calm \/ \A v, w \in Workers : v = w
  PROVE  Spec => CompletedIsFinal
<1>1. Init => UploadsBefore /\ FullRuns /\ OneAtATime /\ FinalInv
  BY DEF Init, StreamInit, StoreInit, APIInit, WorkerInit, NoReprocess, UploadsBefore, FullRuns,
    OneAtATime, OneRunner, FinalInv, Ids, Pending, OtherPaths, Running, Working, JobSteps, TrySteps,
    ErrorSteps
<1>2. TypeOK /\ UploadsBefore /\ [Next]_vars => UploadsBefore'
  BY UploadsBeforeStep DEF AsUploaded
<1>3. Spec => []UploadsBefore
  BY <1>1, <1>2, TypeCorrect, PTL DEF Spec
<1>4. Spec => []OneRunner
  <2>1. CASE Calm
    <3>1. TypeOK /\ UploadsBefore /\ FullRuns /\ [Next]_vars => FullRuns'
      BY <2>1, FullRunsStep DEF Calm
    <3>2. TypeOK /\ UploadsBefore /\ FullRuns /\ OneAtATime /\ [Next]_vars => OneAtATime'
      BY <2>1, OneStep
    <3>3. OneAtATime => OneRunner
      BY DEF OneAtATime
    <3> QED
      BY <1>1, <1>3, <3>1, <3>2, <3>3, TypeCorrect, PTL DEF Spec
  <2>2. CASE \A v, w \in Workers : v = w
    <3>1. OneRunner
      BY <2>2 DEF OneRunner
    <3> QED
      BY <3>1, PTL
  <2> QED
    BY <2>1, <2>2
<1>5. TypeOK /\ UploadsBefore /\ NoResurrection /\ OneRunner /\ FinalInv /\ [Next]_vars => FinalInv'
  BY FinalStep
<1>6. Spec => []FinalInv
  BY <1>1, <1>3, <1>4, <1>5, TypeCorrect, NothingResurrected, PTL DEF Spec
<1>7. TypeOK /\ UploadsBefore /\ NoResurrection /\ FinalInv /\ [Next]_vars => Stays
  BY StaysStep
<1>8. Stays => [\A f \in row :
         stage[f] = "completed" /\ ~ Asked(f) /\ f \in row'
           => /\ stage'[f] \in {"completed", "queued", "failed"} /\ vecs'[f] = vecs[f]
              /\ f \in chunks => f \in chunks']_vars
  BY DEF Stays
<1> QED
  BY <1>3, <1>6, <1>7, <1>8, TypeCorrect, NothingResurrected, PTL DEF Spec, CompletedIsFinal
==============================================================================
