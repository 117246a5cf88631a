------------------------------- MODULE DocCache -------------------------------
(* CacheManager: the two Redis keys that hold the cached copy of a structured  *)
(* data document, data:{id}:meta (a hash) and data:{id}:records (a string).    *)
(* The module is about one document; documents share nothing.  No request      *)
(* calls update_records of CacheManager or starts its flush loop, so no copy   *)
(* is ever dirty and the flag is left out.                                     *)
EXTENDS Naturals

CONSTANTS
  RecordIds,   \* ids records may have
  Schemas      \* schemas a document may be given

VARIABLES
  meta,        \* version and schema in the hash; NoMeta without the key
  copy,        \* set of the records in the string; [held |-> FALSE, ...] without the key
  expires      \* the meta key has a time to live

cacheVars == <<meta, copy, expires>>

Null   == "null"                                \* json.loads("null")
NoMeta == [version |-> 0, schema |-> Null]
(* What a reader makes of a hash without version and schema: HSET of another   *)
(* field creates it when the key has gone in the meantime.                     *)
Bare   == [version |-> 1, schema |-> Null]
NoCopy == [held |-> FALSE, recs |-> {}]

CacheTypeOK ==
  /\ meta \in [version: Nat, schema: Schemas \cup {Null}]
  /\ copy \in [held: BOOLEAN, recs: SUBSET RecordIds]
  /\ expires \in BOOLEAN

HasMeta == meta # NoMeta

(* HSET and EXPIRE of cache_document, then SET of the records.                 *)
StoreMeta(v, s) == meta' = [version |-> v, schema |-> s] /\ expires' = TRUE /\ UNCHANGED copy
StoreCopy(R)    == copy' = [held |-> TRUE, recs |-> R] /\ UNCHANGED <<meta, expires>>

(* The access count and the new time to live get_document writes.              *)
Touch == meta' = (IF HasMeta THEN meta ELSE Bare) /\ expires' = TRUE /\ UNCHANGED copy

(* dirty = 0, without EXPIRE.                                                  *)
MarkClean ==
  /\ meta' = IF HasMeta THEN meta ELSE Bare
  /\ expires' = (HasMeta /\ expires)
  /\ UNCHANGED copy

(* Mutant: only the hash is deleted.                                           *)
RemoveMeta == meta' = NoMeta /\ expires' = FALSE /\ UNCHANGED copy

(* DELETE of both keys, one command.                                           *)
Remove == meta' = NoMeta /\ copy' = NoCopy /\ expires' = FALSE

(* The keys expire on their own and apart.                                     *)
ExpireMeta == HasMeta /\ expires /\ meta' = NoMeta /\ expires' = FALSE /\ UNCHANGED copy
ExpireCopy == copy.held /\ copy' = NoCopy /\ UNCHANGED <<meta, expires>>
==============================================================================
