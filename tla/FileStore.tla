------------------------------ MODULE FileStore ------------------------------
(* What the services share about a file: its rows in PostgreSQL (data_files,   *)
(* data_status, data_chunks), its vectors in Milvus and its cancel key in      *)
(* Redis.  Each operator is one statement or one transaction.                  *)
EXTENDS JobStream

CONSTANTS
  Hash,         \* Hash[f]: content_hash of the file uploaded as f
  Kind,         \* Kind[f]: "doc", "pdf" or "media"
  NoText,       \* contents in which text extraction finds nothing
  Shared,       \* files whose visibility is 'shared' (visible through roles only)
  BypassRLS     \* the PostgreSQL role of the services bypasses row level security

Kinds  == {"doc", "pdf", "media"}
(* data_status.stage; 'classifying' and 'extracting_metadata' are folded into  *)
(* 'parsing', 'cleanup' and 'markdown' into 'chunking', 'embedding' into       *)
(* 'indexing': no other step of the system falls between them.                 *)
Stages == {"none", "queued", "parsing", "chunking", "indexing",
           "entity_extraction", "available", "completed", "failed", "cancelled"}
Settled == {"completed", "failed", "cancelled"}

ASSUME StoreAssumption ==
  /\ Kind \in [Files -> Kinds]
  /\ NoText \subseteq {Hash[f] : f \in Files}
  /\ Shared \subseteq Files
  /\ BypassRLS \in BOOLEAN

VARIABLES
  row,       \* files with a data_files row
  stage,     \* data_status.stage, "none" without a status row
  retries,   \* data_status.retry_count
  chunks,    \* files with rows in data_chunks
  md,        \* files with has_markdown
  vecs,      \* number of copies of the file's vectors in Milvus
  cancel     \* files whose Redis key cancel:<file_id> is set

storeVars == <<row, stage, retries, chunks, md, vecs, cancel>>
dbVars    == <<row, stage, retries, chunks, md>>

StoreTypeOK ==
  /\ row \subseteq Files
  /\ stage \in [Files -> Stages]
  /\ retries \in [Files -> Nat]
  /\ chunks \subseteq Files
  /\ md \subseteq Files
  /\ vecs \in [Files -> Nat]
  /\ cancel \subseteq Files

StoreInit ==
  /\ row = {}
  /\ stage = [f \in Files |-> "none"]
  /\ retries = [f \in Files |-> 0]
  /\ chunks = {}
  /\ md = {}
  /\ vecs = [f \in Files |-> 0]
  /\ cancel = {}

Twins(f) == {g \in row : Hash[g] = Hash[f]}

HasText(f) == Hash[f] \notin NoText

(* Row level security under the context a job carries.                         *)
Visible(job) == job.file \in row /\ (job.file \in Shared => job.roles \/ BypassRLS)

(* _check_file_exists clears the session variables: no policy then shows any   *)
(* row, unless the role bypasses row level security.                           *)
SeenWithoutContext(f) == f \in row /\ BypassRLS

SetStage(f, s) == stage' = [stage EXCEPT ![f] = s]

(* UPDATE ... WHERE file_id: without a row it changes nothing.                 *)
SetStageIfRow(f, s) == IF f \in row THEN SetStage(f, s) ELSE UNCHANGED stage

CreateRow(f, s) == row' = row \cup {f} /\ SetStage(f, s)

(* DELETE FROM data_files cascades to data_status and data_chunks.             *)
DeleteRows(D) ==
  /\ row' = row \ D
  /\ stage' = [f \in Files |-> IF f \in D THEN "none" ELSE stage[f]]
  /\ retries' = [f \in Files |-> IF f \in D THEN 0 ELSE retries[f]]
  /\ chunks' = chunks \ D
  /\ md' = md \ D

(* insert_text_chunks: Milvus adds the vectors to those it has; without chunks *)
(* it is not called.                                                           *)
InsertVectors(f, found) == vecs' = IF found THEN [vecs EXCEPT ![f] = @ + 1] ELSE vecs
DeleteVectors(f) == vecs' = [vecs EXCEPT ![f] = 0]
==============================================================================
