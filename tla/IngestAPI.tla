------------------------------ MODULE IngestAPI ------------------------------
(* The requests of the data API that touch ingestion: upload, reprocess,       *)
(* cancel and delete.  A request is a sequence of steps, one per call to        *)
(* PostgreSQL, Milvus or Redis; requests on a file interleave with one another  *)
(* and with the workers.  A request that never takes its next step is one whose *)
(* API process stopped.                                                         *)
EXTENDS FileStore

CONSTANTS
  Faults,          \* the kinds of failure that may happen: "crash", "redis", ...
  Triggered,       \* files uploaded into a library with active triggers
  ForceUploads,    \* force_reprocess values uploads are made with
  Reprocesses,     \* the [start, pass, force] reprocess requests ask for
  MaxReprocess,    \* bound of the model: reprocess requests ever made
  MaxCancels,      \* bound of the model: cancel requests ever made
  Deletable        \* files that may be deleted by their owner

ReprocessKinds == [start: StartStages, pass: 1..3, force: BOOLEAN]
FaultKinds == {"crash", "redis", "db", "milvus", "markdown", "slow", "error"}

ASSUME APIAssumption ==
  /\ Faults \subseteq FaultKinds
  /\ Triggered \subseteq Files
  /\ ForceUploads \subseteq BOOLEAN
  /\ Reprocesses \subseteq ReprocessKinds
  /\ MaxReprocess \in Nat
  /\ MaxCancels \in Nat
  /\ Deletable \subseteq Files

VARIABLES
  upload,      \* step of the upload of each file
  origin,      \* the completed file an upload was found to duplicate
  reproc,      \* step and body of the reprocess request of each file
  deletion,    \* step of the delete request
  canceling,   \* step of the cancel request
  reprocs,     \* reprocess requests so far
  cancels      \* cancel requests so far

apiVars == <<upload, origin, reproc, deletion, canceling, reprocs, cancels>>

UploadSteps == {"none", "new", "newForced", "created", "createdForced",
                "dup", "dupCreated", "done"}
NoReprocess == [step |-> "none", start |-> "parsing", pass |-> 1, force |-> FALSE]

APITypeOK ==
  /\ upload \in [Files -> UploadSteps]
  /\ origin \in [Files -> Files]
  /\ reproc \in [Files -> [step: {"none", "vectors", "status", "enqueue"},
                           start: StartStages, pass: 1..3, force: BOOLEAN]]
  /\ deletion \in [Files -> {"none", "vectors", "row"}]
  /\ canceling \in [Files -> {"none", "flag", "flagQueued", "write"}]
  /\ reprocs \in Nat
  /\ cancels \in Nat

APIInit ==
  /\ upload = [f \in Files |-> "none"]
  /\ origin = [f \in Files |-> f]
  /\ reproc = [f \in Files |-> NoReprocess]
  /\ deletion = [f \in Files |-> "none"]
  /\ canceling = [f \in Files |-> "none"]
  /\ reprocs = 0
  /\ cancels = 0

SetUpload(f, s) == upload' = [upload EXCEPT ![f] = s]
UploadJob(f, force, pass) ==
  [file |-> f, stream |-> "high", start |-> "parsing", pass |-> pass,
   force |-> force, roles |-> TRUE, retry |-> 0]

------------------------------------------------------------------------------
(* upload_file                                                                 *)

(* check_duplicate: the rows of the same content that are fully completed, and *)
(* those that it deletes if they are older than 30 minutes (any of them may    *)
(* be).  A forced upload skips the check.                                      *)
(* data_files.chunk_count > 0: every run of the pipeline writes it before it    *)
(* completes the file, and reuse_vectors and the worker's duplicate check copy  *)
(* it.  It is positive for a content with text, or if OCR made some of it.     *)
HasChunkCount(g) == HasText(g) \/ Twins(g) \cap chunks # {}

(* Variant: has_markdown and chunk_count taken for completion.                 *)
FullyExtracted(f) == {g \in Twins(f) : g \in md /\ HasChunkCount(g)}

FullyCompleted(f) ==
  {g \in Twins(f) : stage[g] = "completed" /\ g \in md /\ HasChunkCount(g)}

UploadCheckDuplicate(f) ==
  /\ upload[f] = "none"
  /\ FALSE \in ForceUploads
  /\ \/ /\ FullyCompleted(f) = {}
        /\ \E D \in SUBSET Twins(f) : DeleteRows(D)
        /\ SetUpload(f, "new")
        /\ UNCHANGED origin
     \/ \E e \in FullyCompleted(f) :
        /\ \E D \in SUBSET (Twins(f) \ FullyCompleted(f)) : DeleteRows(D)
        /\ SetUpload(f, "dup")
        /\ origin' = [origin EXCEPT ![f] = e]
  /\ UNCHANGED <<vecs, cancel, reproc, deletion, canceling, reprocs, cancels, streamVars>>

UploadForced(f) ==
  /\ upload[f] = "none"
  /\ TRUE \in ForceUploads
  /\ SetUpload(f, "newForced")
  /\ UNCHANGED <<origin, reproc, deletion, canceling, reprocs, cancels, storeVars, streamVars>>

(* create_file_record: one transaction inserts the file and its queued status. *)
UploadCreate(f) ==
  /\ upload[f] \in {"new", "newForced"}
  /\ CreateRow(f, "queued")
  /\ SetUpload(f, IF upload[f] = "new" THEN "created" ELSE "createdForced")
  /\ UNCHANGED <<retries, chunks, md, vecs, cancel, origin, reproc, deletion,
                 canceling, reprocs, cancels, streamVars>>

(* Media files are not processed: their status becomes completed at once.  The *)
(* UPDATE runs on a connection without a user, which row level security lets   *)
(* see no row.                                                                 *)
UploadMedia(f) ==
  /\ upload[f] \in {"created", "createdForced"}
  /\ Kind[f] = "media"
  /\ IF BypassRLS THEN SetStageIfRow(f, "completed") ELSE UNCHANGED stage
  /\ SetUpload(f, "done")
  /\ UNCHANGED <<row, retries, chunks, md, vecs, cancel, origin, reproc, deletion,
                 canceling, reprocs, cancels, streamVars>>

UploadEnqueue(f) ==
  /\ upload[f] \in {"created", "createdForced"}
  /\ Kind[f] # "media"
  /\ \/ XADD(UploadJob(f, upload[f] = "createdForced", 1))
     \/ "redis" \in Faults /\ UNCHANGED streamVars     \* 500: the row stays queued
  /\ SetUpload(f, "done")
  /\ UNCHANGED <<origin, reproc, deletion, canceling, reprocs, cancels, storeVars>>

(* reuse_vectors: a completed record for the new file and no vectors of its    *)
(* own; ValueError when the original is gone by then.                          *)
UploadReuse(f) ==
  /\ upload[f] = "dup"
  /\ IF origin[f] \in row
     THEN /\ CreateRow(f, "completed")
          /\ md' = IF origin[f] \in md THEN md \cup {f} ELSE md
          /\ SetUpload(f, IF f \in Triggered THEN "dupCreated" ELSE "done")
     ELSE /\ SetUpload(f, "done")
          /\ UNCHANGED <<row, stage, md>>
  /\ UNCHANGED <<retries, chunks, vecs, cancel, origin, reproc, deletion,
                 canceling, reprocs, cancels, streamVars>>

(* Variant: the schema accepts the stage 'processing'.                         *)
UploadTriggerProcessing(f) ==
  /\ upload[f] = "dupCreated"
  /\ XADD(UploadJob(f, TRUE, 2))
  /\ SetStageIfRow(f, "processing")
  /\ SetUpload(f, "done")
  /\ UNCHANGED <<origin, reproc, deletion, canceling, reprocs, cancels, row, retries,
                 chunks, md, vecs, cancel>>

(* The job that fires the library's triggers.  The statement after it, SET     *)
(* stage = 'processing', fails on the CHECK constraint and changes nothing.    *)
UploadTrigger(f) ==
  /\ upload[f] = "dupCreated"
  /\ \/ XADD(UploadJob(f, TRUE, 2))
     \/ "redis" \in Faults /\ UNCHANGED streamVars
  /\ SetUpload(f, "done")
  /\ UNCHANGED <<origin, reproc, deletion, canceling, reprocs, cancels, storeVars>>

------------------------------------------------------------------------------
(* reprocess_file                                                              *)

ChunkStages  == {"parsing", "chunking"}
VectorStages == {"parsing", "chunking", "cleanup", "embedding", "indexing"}

Reprocess(f) ==
  /\ f \in row
  /\ reproc[f].step = "none"
  /\ reprocs < MaxReprocess
  /\ reprocs' = reprocs + 1
  /\ \E r \in Reprocesses :
        /\ reproc' = [reproc EXCEPT ![f] =
                        [step |-> "vectors", start |-> r.start, pass |-> r.pass,
                         force |-> r.force]]
        /\ chunks' = IF r.start \in ChunkStages THEN chunks \ {f} ELSE chunks
  /\ UNCHANGED <<row, stage, retries, md, vecs, cancel, upload, origin, deletion,
                 canceling, cancels, streamVars>>

ReprocessVectors(f) ==
  /\ reproc[f].step = "vectors"
  /\ \/ reproc[f].start \in VectorStages /\ DeleteVectors(f)
     \/ /\ reproc[f].start \notin VectorStages \/ "milvus" \in Faults
        /\ UNCHANGED vecs
  /\ reproc' = [reproc EXCEPT ![f].step = "status"]
  /\ UNCHANGED <<dbVars, cancel, upload, origin, deletion, canceling, reprocs,
                 cancels, streamVars>>

(* retry_count is left as it is, and so is the cancel key.                     *)
ReprocessStatus(f) ==
  /\ reproc[f].step = "status"
  /\ SetStageIfRow(f, "queued")
  /\ reproc' = [reproc EXCEPT ![f].step = "enqueue"]
  /\ UNCHANGED <<row, retries, chunks, md, vecs, cancel, upload, origin, deletion,
                 canceling, reprocs, cancels, streamVars>>

(* The message carries neither visibility nor role_ids.                        *)
ReprocessJob(f) ==
  [file |-> f, stream |-> "high", start |-> reproc[f].start, pass |-> reproc[f].pass,
   force |-> reproc[f].force, roles |-> FALSE, retry |-> 0]

ReprocessEnqueue(f) ==
  /\ reproc[f].step = "enqueue"
  /\ \/ XADDUntrimmed(ReprocessJob(f))
     \/ "redis" \in Faults /\ UNCHANGED streamVars
  /\ reproc' = [reproc EXCEPT ![f] = NoReprocess]
  /\ UNCHANGED <<upload, origin, deletion, canceling, reprocs, cancels, storeVars>>

------------------------------------------------------------------------------
(* cancel_processing                                                           *)

CancelRead(f) ==
  /\ f \in row
  /\ canceling[f] = "none"
  /\ cancels < MaxCancels
  /\ cancels' = cancels + 1
  /\ canceling' = [canceling EXCEPT ![f] =
                     IF stage[f] = "queued" THEN "flagQueued" ELSE "flag"]
  /\ UNCHANGED <<upload, origin, reproc, deletion, reprocs, storeVars, streamVars>>

CancelFlag(f) ==
  /\ canceling[f] \in {"flag", "flagQueued"}
  /\ cancel' = cancel \cup {f}
  /\ canceling' = [canceling EXCEPT ![f] =
                     IF @ = "flagQueued" THEN "write" ELSE "none"]
  /\ UNCHANGED <<dbVars, vecs, upload, origin, reproc, deletion, reprocs, cancels, streamVars>>

CancelWrite(f) ==
  /\ canceling[f] = "write"
  /\ SetStageIfRow(f, "cancelled")
  /\ canceling' = [canceling EXCEPT ![f] = "none"]
  /\ UNCHANGED <<row, retries, chunks, md, vecs, cancel, upload, origin, reproc,
                 deletion, reprocs, cancels, streamVars>>

(* The key is set with ex=300.                                                 *)
CancelExpire(f) ==
  /\ f \in cancel
  /\ cancel' = cancel \ {f}
  /\ UNCHANGED <<dbVars, vecs, apiVars, streamVars>>

------------------------------------------------------------------------------
(* delete_file                                                                 *)

Delete(f) ==
  /\ f \in row \cap Deletable
  /\ deletion[f] = "none"
  /\ deletion' = [deletion EXCEPT ![f] = "vectors"]
  /\ UNCHANGED <<upload, origin, reproc, canceling, reprocs, cancels, storeVars, streamVars>>

DeleteVectorsStep(f) ==
  /\ deletion[f] = "vectors"
  /\ \/ DeleteVectors(f)
     \/ "milvus" \in Faults /\ UNCHANGED vecs
  /\ deletion' = [deletion EXCEPT ![f] = "row"]
  /\ UNCHANGED <<dbVars, cancel, upload, origin, reproc, canceling, reprocs, cancels, streamVars>>

DeleteRow(f) ==
  /\ deletion[f] = "row"
  /\ DeleteRows({f})
  /\ deletion' = [deletion EXCEPT ![f] = "none"]
  /\ UNCHANGED <<vecs, cancel, upload, origin, reproc, canceling, reprocs, cancels, streamVars>>

------------------------------------------------------------------------------
UploadStep(f) ==
  \/ UploadCheckDuplicate(f) \/ UploadForced(f) \/ UploadCreate(f) \/ UploadMedia(f)
  \/ UploadEnqueue(f) \/ UploadReuse(f) \/ UploadTrigger(f)
ReprocessStep(f) ==
  ReprocessVectors(f) \/ ReprocessStatus(f) \/ ReprocessEnqueue(f)
CancelStep(f) == CancelFlag(f) \/ CancelWrite(f)
DeleteStep(f) == DeleteVectorsStep(f) \/ DeleteRow(f)

APIStep(f) ==
  \/ UploadStep(f)
  \/ Reprocess(f) \/ ReprocessStep(f)
  \/ CancelRead(f) \/ CancelStep(f) \/ CancelExpire(f)
  \/ Delete(f) \/ DeleteStep(f)
==============================================================================
