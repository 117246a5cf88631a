---------------------------- MODULE StructuredData ----------------------------
(* DataService over PostgreSQL and the cached copy: the requests on one        *)
(* structured data document, each a sequence of statements (PostgreSQL         *)
(* commits each on its own, there is no transaction) and Redis commands that   *)
(* interleave with those of the other requests.  A request that never takes    *)
(* its next step is one whose API process stopped.                             *)
EXTENDS DocCache, FiniteSets

CONSTANTS
  Requests,      \* requests ever made
  Ops,           \* the operations they ask for
  MaxActive,     \* bound of the model: requests in progress at a time
  RedisFails     \* calls to Redis may fail

OpNames == {"get", "activate", "deactivate", "drop", "put", "schema", "insert", "update", "remove"}

ASSUME StructuredAssumption ==
  /\ Ops \subseteq OpNames
  /\ MaxActive \in Nat
  /\ RedisFails \in BOOLEAN
  /\ Null \notin Schemas
  /\ IsFiniteSet(RecordIds)

VARIABLES
  row,      \* data_files: does the row exist, data_version, data_schema, data_record_count
  recs,     \* ids of the document's data_records
  req       \* state of each request

docVars == <<row, recs, req>>
vars == <<cacheVars, docVars>>

Steps == {"none", "meta", "copy", "touch", "exists", "row", "rows", "storeMeta", "storeCopy", "compare", "compared",
          "write", "apply", "count", "sync", "flushMeta", "flushCopy", "flush", "clean", "invalidate", "done"}
Seen == [exists: BOOLEAN, version: Nat, schema: Schemas \cup {Null}]
Rows == [exists: BOOLEAN, version: Nat, schema: Schemas \cup {Null}, count: Nat]
Outcomes == {"none", "ok", "error"}
NoRequest == [op |-> "get", step |-> "none", before |-> {}, seen |-> [exists |-> FALSE, version |-> 0, schema |-> Null],
              recs |-> {}, todo |-> {}, count |-> 0, removed |-> FALSE, outcome |-> "none"]

StructuredTypeOK ==
  /\ CacheTypeOK
  /\ row \in Rows
  /\ recs \subseteq RecordIds
  /\ req \in [Requests -> [op: OpNames, step: Steps, before: SUBSET Requests, seen: Seen,
                           recs: SUBSET RecordIds, todo: SUBSET RecordIds, count: Nat, removed: BOOLEAN, outcome: Outcomes]]

(* create_document has committed, with or without enable_cache.                *)
Init ==
  /\ \E R \in SUBSET RecordIds, s \in Schemas \cup {Null} :
       /\ row = [exists |-> TRUE, version |-> 1, schema |-> s, count |-> Cardinality(R)]
       /\ recs = R
       /\ \/ meta = NoMeta /\ copy = NoCopy /\ expires = FALSE
          \/ meta = [version |-> 1, schema |-> s] /\ copy = [held |-> TRUE, recs |-> R] /\ expires = TRUE
  /\ req = [r \in Requests |-> NoRequest]

Active   == {r \in Requests : req[r].step \notin {"none", "done"}}
Finished == {r \in Requests : req[r].step = "done"}

At(r, op, s) == req[r].op = op /\ req[r].step = s
Goto(r, s) == req' = [req EXCEPT ![r].step = s]
(* A request that fails answers with an error.  What it had read of the row    *)
(* goes with it.                                                               *)
Over(q, out) == [q EXCEPT !.step = "done", !.outcome = out, !.seen.version = 0, !.seen.schema = Null, !.count = 0]
End(r, out) == req' = [req EXCEPT ![r] = Over(req[r], out)]

(* Mutant: the request keeps the row itself, its count included.               *)
WholeRow == row

(* UPDATE data_files ... WHERE file_id: without a row it changes nothing.      *)
Snapshot == [exists |-> row.exists, version |-> row.version, schema |-> row.schema]
UpdateRow(new) == row' = IF row.exists THEN new ELSE row
Bumped == [row EXCEPT !.version = @ + 1]

FirstStep(op) ==
  CASE op \in {"get", "activate"} -> {"meta"}
    [] op = "deactivate" -> {"flushMeta", "invalidate"}    \* flush=true, flush=false
    [] op = "put" -> {"compare", "write"}                  \* with and without expectedVersion
    [] op \in {"drop", "schema"} -> {"write"}
    [] OTHER -> {"row"}

(* The client of a put has read the version it expects.                        *)
Begin(r) ==
  /\ req[r].step = "none"
  /\ Cardinality(Active) < MaxActive
  /\ \E op \in Ops : \E s \in FirstStep(op) :
       req' = [req EXCEPT ![r].op = op, ![r].step = s, ![r].before = Finished, ![r].seen = Snapshot]
  /\ UNCHANGED <<cacheVars, row, recs>>

------------------------------------------------------------------------------
(* get_document: the cached copy if there is one and the row is visible, else  *)
(* the row and then its records.  put and schema answer with it; activate      *)
(* caches what it returns.                                                     *)
ReadMeta(r) ==
  /\ req[r].step = "meta"
  /\ \/ /\ HasMeta
        /\ req' = [req EXCEPT ![r].step = "copy", ![r].seen.version = meta.version, ![r].seen.schema = meta.schema]
     \/ ~ HasMeta /\ Goto(r, "row")
     \/ RedisFails /\ Goto(r, "row")
  /\ UNCHANGED <<cacheVars, row, recs>>

ReadCopy(r) ==
  /\ req[r].step = "copy"
  /\ \/ copy.held /\ req' = [req EXCEPT ![r].step = "touch", ![r].recs = copy.recs]
     \/ ~ copy.held /\ Goto(r, "row")
  /\ UNCHANGED <<cacheVars, row, recs>>

TouchCopy(r) == req[r].step = "touch" /\ Touch /\ Goto(r, "exists") /\ UNCHANGED <<row, recs>>

Answer(r) == IF req[r].op = "activate" THEN Goto(r, "storeMeta") ELSE End(r, "ok")

(* Mutant: the cached copy is answered without the existence check.            *)
CheckNothing(r) == req[r].step = "exists" /\ Answer(r) /\ UNCHANGED <<cacheVars, row, recs>>

CheckExists(r) ==
  /\ req[r].step = "exists"
  /\ IF row.exists THEN Answer(r) ELSE Goto(r, "row")
  /\ UNCHANGED <<cacheVars, row, recs>>

(* The SELECT of the row, then the SELECT of the records.                      *)
Reads(r) == req[r].op \in {"get", "activate", "put", "schema"}

ReadRow(r) ==
  /\ req[r].step = "row" /\ Reads(r)
  /\ IF row.exists THEN req' = [req EXCEPT ![r].step = "rows", ![r].seen = Snapshot] ELSE End(r, "error")
  /\ UNCHANGED <<cacheVars, row, recs>>

ReadRows(r) ==
  /\ req[r].step = "rows" /\ Reads(r)
  /\ LET read == [req[r] EXCEPT !.recs = recs] IN
       req' = [req EXCEPT ![r] = IF req[r].op = "activate" THEN [read EXCEPT !.step = "storeMeta"] ELSE Over(read, "ok")]
  /\ UNCHANGED <<cacheVars, row, recs>>

(* cache_document of what get_document returned; its failure is an error.      *)
CacheMeta(r) ==
  /\ req[r].step = "storeMeta"
  /\ \/ StoreMeta(req[r].seen.version, req[r].seen.schema) /\ Goto(r, "storeCopy")
     \/ RedisFails /\ End(r, "error") /\ UNCHANGED cacheVars
  /\ UNCHANGED <<row, recs>>

CacheCopy(r) ==
  /\ req[r].step = "storeCopy"
  /\ \/ StoreCopy(req[r].recs) /\ End(r, "ok")
     \/ RedisFails /\ End(r, "error") /\ UNCHANGED cacheVars
  /\ UNCHANGED <<row, recs>>

------------------------------------------------------------------------------
(* update_document compares the expected version in a statement of its own;    *)
(* update_schema compares nothing and leaves the cached copy alone.            *)
Compare(r) ==
  /\ At(r, "put", "compare")
  /\ IF row.exists /\ row.version = req[r].seen.version THEN Goto(r, "compared") ELSE End(r, "error")
  /\ UNCHANGED <<cacheVars, row, recs>>

WriteDocument(r) ==
  /\ req[r].op = "put" /\ req[r].step \in {"write", "compared"}
  /\ \E s \in Schemas \cup {row.schema} : UpdateRow([Bumped EXCEPT !.schema = s])
  /\ Goto(r, "invalidate")
  /\ UNCHANGED <<cacheVars, recs>>

WriteSchema(r) ==
  /\ At(r, "schema", "write")
  /\ \E s \in Schemas : UpdateRow([Bumped EXCEPT !.schema = s])
  /\ Goto(r, "meta")
  /\ UNCHANGED <<cacheVars, recs>>

(* delete_document; the records go with the row.                               *)
Drop(r) ==
  /\ At(r, "drop", "write")
  /\ row' = [row EXCEPT !.exists = FALSE]
  /\ recs' = {}
  /\ IF row.exists THEN Goto(r, "invalidate") ELSE End(r, "error")
  /\ UNCHANGED cacheVars

------------------------------------------------------------------------------
(* insert_records, update_records, delete_records: the row must be readable,   *)
(* then one statement per record, the count read and written apart.            *)
Unused == RecordIds \ (recs \cup UNION {req[r].todo \cup req[r].recs : r \in Requests})

FindRow(r) ==
  /\ req[r].step = "row" /\ ~ Reads(r)
  /\ \/ /\ row.exists /\ req[r].op = "insert"
        /\ \E B \in SUBSET Unused \ {{}} : req' = [req EXCEPT ![r].step = "apply", ![r].todo = B]
     \/ row.exists /\ req[r].op # "insert" /\ Goto(r, "rows")
     \/ ~ row.exists /\ End(r, "error")
  /\ UNCHANGED <<cacheVars, row, recs>>

(* The records the filter selects among those the request sees.                *)
Select(r) ==
  /\ req[r].step = "rows" /\ ~ Reads(r)
  /\ \E S \in SUBSET recs :
       req' = [req EXCEPT ![r].todo = S, ![r].step = IF S = {} THEN "invalidate" ELSE "apply"]
  /\ UNCHANGED <<cacheVars, row, recs>>

AfterApply(r, x) ==
  IF req[r].todo # {x} THEN "apply" ELSE IF req[r].op = "update" THEN "write" ELSE "count"

(* Mutant: no foreign key ties a record to its document.                       *)
ApplyUntied(r) ==
  /\ req[r].step = "apply"
  /\ \E x \in req[r].todo :
       /\ req' = [req EXCEPT ![r].todo = @ \ {x}, ![r].recs = @ \cup {x},
                             ![r].step = AfterApply(r, x)]
       /\ recs' = IF req[r].op = "insert" THEN recs \cup {x} ELSE IF req[r].op = "remove" THEN recs \ {x} ELSE recs
  /\ UNCHANGED <<cacheVars, row>>

(* A record is inserted, or deleted if it is still there; req.recs collects    *)
(* the records done.  Without its row the history entry violates its foreign   *)
(* key, and a record that fails validation ends the request: what was done     *)
(* before stays.                                                               *)
Apply(r) ==
  /\ req[r].step = "apply"
  /\ \/ /\ row.exists
        /\ \E x \in req[r].todo :
             /\ req' = [req EXCEPT ![r].todo = @ \ {x}, ![r].recs = @ \cup {x},
                                   ![r].step = AfterApply(r, x)]
             /\ recs' = CASE req[r].op = "insert" -> recs \cup {x}
                          [] req[r].op = "remove" -> recs \ {x}
                          [] OTHER -> recs
     \/ ~ row.exists /\ End(r, "error") /\ UNCHANGED recs
     \/ req[r].op \in {"insert", "update"} /\ End(r, "error") /\ UNCHANGED recs
  /\ UNCHANGED <<cacheVars, row>>

BumpVersion(r) ==
  /\ At(r, "update", "write")
  /\ UpdateRow(Bumped)
  /\ Goto(r, "invalidate")
  /\ UNCHANGED <<cacheVars, recs>>

CountRecords(r) ==
  /\ req[r].step = "count"
  /\ req' = [req EXCEPT ![r].step = "sync", ![r].count = Cardinality(recs)]
  /\ UNCHANGED <<cacheVars, row, recs>>

(* Mutant: the count is written with the version the request read first.       *)
SyncCountStale(r) ==
  /\ req[r].step = "sync"
  /\ UpdateRow([row EXCEPT !.version = req[r].seen.version + 1, !.count = req[r].count])
  /\ Goto(r, "invalidate")
  /\ UNCHANGED <<cacheVars, recs>>

SyncCount(r) ==
  /\ req[r].step = "sync"
  /\ UpdateRow([Bumped EXCEPT !.count = req[r].count])
  /\ Goto(r, "invalidate")
  /\ UNCHANGED <<cacheVars, recs>>

------------------------------------------------------------------------------
(* deactivate_cache flushes the copy, dirty or not, and then removes it.       *)
ReadForFlush(r) ==
  /\ req[r].step \in {"flushMeta", "flushCopy"}
  /\ \/ /\ At(r, "deactivate", "flushMeta") /\ HasMeta
        /\ req' = [req EXCEPT ![r].step = "flushCopy", ![r].seen.version = meta.version, ![r].seen.schema = meta.schema]
     \/ /\ At(r, "deactivate", "flushCopy") /\ copy.held
        /\ req' = [req EXCEPT ![r].step = "flush", ![r].recs = copy.recs]
     \/ At(r, "deactivate", "flushCopy") /\ ~ copy.held /\ Goto(r, "invalidate")
     \/ At(r, "deactivate", "flushMeta") /\ (~ HasMeta \/ RedisFails) /\ Goto(r, "invalidate")
  /\ UNCHANGED <<cacheVars, row, recs>>

(* flush_callback of get_data_service: data_content, which nothing reads while *)
(* data_records exists, and the version, schema and count of the copy.         *)
Flush(r) ==
  /\ At(r, "deactivate", "flush")
  /\ UpdateRow([exists |-> TRUE, version |-> req[r].seen.version, schema |-> req[r].seen.schema,
                count |-> Cardinality(req[r].recs)])
  /\ Goto(r, "clean")
  /\ UNCHANGED <<cacheVars, recs>>

Clean(r) == At(r, "deactivate", "clean") /\ MarkClean /\ Goto(r, "invalidate") /\ UNCHANGED <<row, recs>>

(* invalidate_document returns whether it removed the copy.  Nobody looks: a   *)
(* failure is logged and the request succeeds all the same.                    *)
Invalidated(r, gone) ==
  LET q == [req[r] EXCEPT !.removed = gone] IN
    req' = [req EXCEPT ![r] = IF q.op = "put" THEN [q EXCEPT !.step = "meta"] ELSE Over(q, "ok")]

Invalidate(r) ==
  /\ req[r].step = "invalidate"
  /\ \/ Remove /\ Invalidated(r, TRUE)
     \/ RedisFails /\ UNCHANGED cacheVars /\ Invalidated(r, FALSE)
  /\ UNCHANGED <<row, recs>>

Step(r) ==
  \/ Begin(r) \/ ReadMeta(r) \/ ReadCopy(r) \/ TouchCopy(r) \/ CheckExists(r) \/ ReadRow(r) \/ ReadRows(r)
  \/ CacheMeta(r) \/ CacheCopy(r)
  \/ Compare(r) \/ WriteDocument(r) \/ WriteSchema(r) \/ Drop(r)
  \/ FindRow(r) \/ Select(r) \/ Apply(r) \/ BumpVersion(r) \/ CountRecords(r) \/ SyncCount(r)
  \/ ReadForFlush(r) \/ Flush(r) \/ Clean(r) \/ Invalidate(r)

Expiry == (ExpireMeta \/ ExpireCopy) /\ UNCHANGED docVars

Next == Expiry \/ \E r \in Requests : Step(r)

Spec == Init /\ [][Next]_vars
==============================================================================
