--------------------------- MODULE StructuredProofs ---------------------------
(* Theorems about the requests on a structured data document, for any number   *)
(* of requests, records and schemas, and whatever fails in Redis.              *)
EXTENDS StructuredProperties, FiniteSetTheorems, TLAPS

ReqType == [op: OpNames, step: Steps, before: SUBSET Requests, seen: Seen,
            recs: SUBSET RecordIds, todo: SUBSET RecordIds, count: Nat, removed: BOOLEAN, outcome: Outcomes]

LEMMA CountIsNat == ASSUME NEW R \in SUBSET RecordIds PROVE Cardinality(R) \in Nat
BY StructuredAssumption, FS_Subset, FS_CardinalityType

(* What the helpers that move a request on keep of its type.                   *)
LEMMA GotoType ==
  ASSUME StructuredTypeOK, NEW r \in Requests, NEW s \in Steps, Goto(r, s)
  PROVE  req' \in [Requests -> ReqType]
BY DEF StructuredTypeOK, Goto, ReqType

LEMMA OverType ==
  ASSUME NEW q \in ReqType, NEW b \in Outcomes
  PROVE  /\ Over(q, b) \in ReqType /\ Over(q, b).step = "done" /\ Over(q, b).outcome = b
         /\ Over(q, b).op = q.op /\ Over(q, b).seen.exists = q.seen.exists
         /\ Over(q, b).before = q.before /\ Over(q, b).recs = q.recs /\ Over(q, b).todo = q.todo
         /\ Over(q, b).removed = q.removed
<1>1. [q.seen EXCEPT !.version = 0, !.schema = Null] \in Seen
  BY DEF ReqType, Seen
<1>2. Over(q, b) = [q EXCEPT !.step = "done", !.outcome = b, !.seen = [q.seen EXCEPT !.version = 0, !.schema = Null], !.count = 0]
  BY DEF Over, ReqType, Seen
<1>3. [q.seen EXCEPT !.version = 0, !.schema = Null].exists = q.seen.exists
  BY DEF ReqType, Seen
<1> DEFINE e == [q.seen EXCEPT !.version = 0, !.schema = Null]
<1> HIDE DEF e
<1>4. e \in Seen /\ e.exists = q.seen.exists
  BY <1>1, <1>3 DEF e
<1>5. Over(q, b) = [q EXCEPT !.step = "done", !.outcome = b, !.seen = e, !.count = 0]
  BY <1>2 DEF e
<1>6. Over(q, b) \in ReqType
  <2>1. "done" \in Steps /\ 0 \in Nat
    BY DEF Steps
  <2> QED
    BY <1>4, <1>5, <2>1 DEF ReqType
<1>7. /\ Over(q, b).step = "done" /\ Over(q, b).outcome = b
      /\ Over(q, b).op = q.op /\ Over(q, b).seen = e
      /\ Over(q, b).before = q.before /\ Over(q, b).recs = q.recs /\ Over(q, b).todo = q.todo
      /\ Over(q, b).removed = q.removed
  BY <1>5 DEF ReqType
<1> QED
  BY <1>4, <1>6, <1>7

LEMMA EndType ==
  ASSUME StructuredTypeOK, NEW r \in Requests, NEW b \in Outcomes, End(r, b)
  PROVE  req' \in [Requests -> ReqType] /\ req'[r] = Over(req[r], b)
<1>1. req \in [Requests -> ReqType]
  BY DEF StructuredTypeOK, ReqType
<1> QED
  BY <1>1, OverType DEF End

LEMMA CacheStepType ==
  ASSUME CacheTypeOK,
         \/ UNCHANGED cacheVars \/ Touch \/ MarkClean \/ Remove \/ ExpireMeta \/ ExpireCopy
         \/ \E v \in Nat, s \in Schemas \cup {Null} : StoreMeta(v, s)
         \/ \E R \in SUBSET RecordIds : StoreCopy(R)
  PROVE  CacheTypeOK'
<1> USE DEF CacheTypeOK
<1>1. NoMeta \in [version: Nat, schema: Schemas \cup {Null}] /\ Bare \in [version: Nat, schema: Schemas \cup {Null}]
  BY DEF NoMeta, Bare
<1>2. NoCopy \in [held: BOOLEAN, recs: SUBSET RecordIds]
  BY DEF NoCopy
<1>3. CASE UNCHANGED cacheVars
  BY <1>3 DEF cacheVars
<1>4. CASE Touch
  BY <1>4, <1>1 DEF Touch
<1>5. CASE MarkClean
  <2>1. expires' \in BOOLEAN
    BY <1>5, Zenon DEF MarkClean
  <2> QED
    BY <1>5, <1>1, <2>1 DEF MarkClean
<1>6. CASE Remove
  BY <1>6, <1>1, <1>2 DEF Remove
<1>7. CASE ExpireMeta \/ ExpireCopy
  BY <1>7, <1>1, <1>2 DEF ExpireMeta, ExpireCopy
<1>8. CASE \E v \in Nat, s \in Schemas \cup {Null} : StoreMeta(v, s)
  BY <1>8 DEF StoreMeta
<1>9. CASE \E R \in SUBSET RecordIds : StoreCopy(R)
  BY <1>9 DEF StoreCopy
<1> QED
  BY <1>3, <1>4, <1>5, <1>6, <1>7, <1>8, <1>9

(* Each field of a request, written on its own.                                *)
LEMMA FieldTypes ==
  ASSUME NEW q \in ReqType
  PROVE  /\ \A s \in Steps : [q EXCEPT !.step = s] \in ReqType
         /\ \A o \in OpNames : [q EXCEPT !.op = o] \in ReqType
         /\ \A o \in Outcomes : [q EXCEPT !.outcome = o] \in ReqType
         /\ \A n \in Nat : [q EXCEPT !.count = n] \in ReqType
         /\ \A e \in Seen : [q EXCEPT !.seen = e] \in ReqType
         /\ \A R \in SUBSET RecordIds : [q EXCEPT !.recs = R] \in ReqType /\ [q EXCEPT !.todo = R] \in ReqType
         /\ \A B \in SUBSET Requests : [q EXCEPT !.before = B] \in ReqType
BY DEF ReqType

(* A request that has read the hash.                                           *)
LEMMA MetaReadType ==
  ASSUME StructuredTypeOK, NEW r \in Requests, NEW s \in Steps,
         req' = [req EXCEPT ![r].step = s, ![r].seen.version = meta.version, ![r].seen.schema = meta.schema]
  PROVE  req' \in [Requests -> ReqType]
<1> DEFINE e == [req[r].seen EXCEPT !.version = meta.version, !.schema = meta.schema]
<1>1. req \in [Requests -> ReqType] /\ req[r] \in ReqType
  BY DEF StructuredTypeOK, ReqType
<1>2. e \in Seen
  BY <1>1 DEF StructuredTypeOK, CacheTypeOK, ReqType, Seen
<1>3. req' = [req EXCEPT ![r] = [[req[r] EXCEPT !.step = s] EXCEPT !.seen = e]]
  BY <1>1 DEF ReqType, Seen
<1> HIDE DEF e
<1>4. [req[r] EXCEPT !.step = s] \in ReqType
  BY <1>1, FieldTypes
<1>5. [[req[r] EXCEPT !.step = s] EXCEPT !.seen = e] \in ReqType
  BY <1>2, <1>4, FieldTypes
<1> QED
  BY <1>1, <1>3, <1>5

LEMMA InvalidatedFields ==
  ASSUME StructuredTypeOK, NEW r \in Requests, NEW b \in BOOLEAN, Invalidated(r, b)
  PROVE  /\ req' \in [Requests -> ReqType]
         /\ req'[r].op = req[r].op /\ req'[r].before = req[r].before /\ req'[r].recs = req[r].recs
         /\ req'[r].todo = req[r].todo /\ req'[r].removed = b /\ req'[r].seen.exists = req[r].seen.exists
         /\ req[r].op = "put" => req'[r].step = "meta"
         /\ req[r].op # "put" => req'[r].step = "done" /\ req'[r].outcome = "ok"
<1> DEFINE q == [req[r] EXCEPT !.removed = b]
<1>1. /\ q \in ReqType /\ q.op = req[r].op /\ q.before = req[r].before /\ q.recs = req[r].recs
      /\ q.todo = req[r].todo /\ q.removed = b /\ q.seen = req[r].seen
      /\ req \in [Requests -> ReqType]
  BY DEF StructuredTypeOK, ReqType
<1>2. req' = [req EXCEPT ![r] = IF q.op = "put" THEN [q EXCEPT !.step = "meta"] ELSE Over(q, "ok")]
  BY DEF Invalidated
<1> HIDE DEF q
<1>3. CASE q.op = "put"
  <2>1. [q EXCEPT !.step = "meta"] \in ReqType
    BY <1>1, FieldTypes DEF Steps
  <2>2. req'[r] = [q EXCEPT !.step = "meta"]
    BY <1>1, <1>2, <1>3
  <2>3. req' \in [Requests -> ReqType]
    BY <1>1, <1>2, <1>3, <2>1
  <2> QED
    BY <1>1, <1>3, <2>2, <2>3 DEF ReqType
<1>4. CASE q.op # "put"
  <2>1. "ok" \in Outcomes
    BY DEF Outcomes
  <2>2. Over(q, "ok") \in ReqType
    BY <1>1, <2>1, OverType
  <2>3. req'[r] = Over(q, "ok") /\ req' \in [Requests -> ReqType]
    BY <1>1, <1>2, <1>4, <2>2
  <2> QED
    BY <1>1, <1>4, <2>1, <2>3, OverType
<1> QED
  BY <1>3, <1>4

(* The row as the statements write it.                                         *)
LEMMA RowType ==
  ASSUME StructuredTypeOK
  PROVE  /\ Bumped \in Rows
         /\ Snapshot \in Seen
         /\ \A n \in Nat : [Bumped EXCEPT !.count = n] \in Rows
         /\ \A s \in Schemas \cup {row.schema} : [Bumped EXCEPT !.schema = s] \in Rows
         /\ \A new \in Rows : UpdateRow(new) => row' \in Rows
<1> USE DEF StructuredTypeOK, Rows
<1>1. Bumped \in Rows /\ Snapshot \in Seen
  BY DEF Bumped, Snapshot, Seen
<1>2. /\ \A n \in Nat : [Bumped EXCEPT !.count = n] \in Rows
      /\ \A s \in Schemas \cup {row.schema} : [Bumped EXCEPT !.schema = s] \in Rows
  BY <1>1
<1>3. \A new \in Rows : UpdateRow(new) => row' \in Rows
  BY DEF UpdateRow
<1> QED
  BY <1>1, <1>2, <1>3

------------------------------------------------------------------------------
(* Type correctness, action by action.                                         *)
LEMMA TypeStep ==
  ASSUME StructuredTypeOK, NEW r \in Requests, Step(r)
  PROVE  StructuredTypeOK'
<1> USE DEF StructuredTypeOK
<1>0. CASE Begin(r)
  <2>1. req' \in [Requests -> ReqType]
    <3>0. PICK op \in Ops : \E s \in FirstStep(op) :
            req' = [req EXCEPT ![r].op = op, ![r].step = s, ![r].before = Finished, ![r].seen = Snapshot]
      BY <1>0 DEF Begin
    <3>1. PICK s \in FirstStep(op) :
            req' = [req EXCEPT ![r].op = op, ![r].step = s, ![r].before = Finished, ![r].seen = Snapshot]
      BY <3>0
    <3>2. op \in OpNames /\ s \in Steps /\ Finished \subseteq Requests /\ req[r] \in ReqType
      BY StructuredAssumption DEF FirstStep, Steps, OpNames, Finished, ReqType
    <3>3. [[req[r] EXCEPT !.op = op] EXCEPT !.step = s] \in ReqType
      <4>1. [req[r] EXCEPT !.op = op] \in ReqType
        BY <3>2, FieldTypes
      <4> QED
        BY <4>1, <3>2, FieldTypes
    <3>4. [[[req[r] EXCEPT !.op = op] EXCEPT !.step = s] EXCEPT !.before = Finished] \in ReqType
      BY <3>2, <3>3, FieldTypes
    <3>5. [[[[req[r] EXCEPT !.op = op] EXCEPT !.step = s] EXCEPT !.before = Finished] EXCEPT !.seen = Snapshot] \in ReqType
      BY <3>4, RowType, FieldTypes
    <3> QED
      BY <3>1, <3>2, <3>5 DEF ReqType
  <2>2. row' \in Rows /\ recs' \subseteq RecordIds
    BY <1>0 DEF Begin
  <2>3. CacheTypeOK'
    BY <1>0, CacheStepType DEF Begin
  <2> QED
    BY <2>1, <2>2, <2>3 DEF ReqType
<1>1. CASE ReadMeta(r)
  <2>1. req' \in [Requests -> ReqType]
    <3>1. "copy" \in Steps /\ "row" \in Steps
      BY DEF Steps
    <3> QED
      BY <1>1, <3>1, GotoType, MetaReadType DEF ReadMeta
  <2>2. row' \in Rows /\ recs' \subseteq RecordIds
    BY <1>1, RowType DEF ReadMeta, Bumped, At
  <2>3. CacheTypeOK'
    BY <1>1, CacheStepType DEF ReadMeta, ReqType, Seen
  <2> QED
    BY <2>1, <2>2, <2>3 DEF ReqType
<1>2. CASE ReadCopy(r)
  <2>1. req' \in [Requests -> ReqType]
    BY <1>2, GotoType, EndType, CountIsNat, RowType DEF ReadCopy, ReqType, Steps, Outcomes, Seen, CacheTypeOK
  <2>2. row' \in Rows /\ recs' \subseteq RecordIds
    BY <1>2, RowType DEF ReadCopy, Bumped, At
  <2>3. CacheTypeOK'
    BY <1>2, CacheStepType DEF ReadCopy, ReqType, Seen
  <2> QED
    BY <2>1, <2>2, <2>3 DEF ReqType
<1>3. CASE TouchCopy(r)
  <2>1. req' \in [Requests -> ReqType]
    BY <1>3, GotoType, EndType, CountIsNat, RowType DEF TouchCopy, ReqType, Steps, Outcomes, Seen
  <2>2. row' \in Rows /\ recs' \subseteq RecordIds
    BY <1>3, RowType DEF TouchCopy, Bumped, At
  <2>3. CacheTypeOK'
    BY <1>3, CacheStepType DEF TouchCopy, ReqType, Seen
  <2> QED
    BY <2>1, <2>2, <2>3 DEF ReqType
<1>4. CASE CheckExists(r)
  <2>1. req' \in [Requests -> ReqType]
    BY <1>4, GotoType, EndType, CountIsNat, RowType DEF CheckExists, ReqType, Steps, Outcomes, Seen, Answer
  <2>2. row' \in Rows /\ recs' \subseteq RecordIds
    BY <1>4, RowType DEF CheckExists, Bumped, At
  <2>3. CacheTypeOK'
    BY <1>4, CacheStepType DEF CheckExists, ReqType, Seen
  <2> QED
    BY <2>1, <2>2, <2>3 DEF ReqType
<1>5. CASE ReadRow(r)
  <2>1. req' \in [Requests -> ReqType]
    BY <1>5, GotoType, EndType, CountIsNat, RowType DEF ReadRow, ReqType, Steps, Outcomes, Seen
  <2>2. row' \in Rows /\ recs' \subseteq RecordIds
    BY <1>5, RowType DEF ReadRow, Bumped, At
  <2>3. CacheTypeOK'
    BY <1>5, CacheStepType DEF ReadRow, ReqType, Seen
  <2> QED
    BY <2>1, <2>2, <2>3 DEF ReqType
<1>6. CASE ReadRows(r)
  <2>1. req' \in [Requests -> ReqType]
    <3>1. req[r] \in ReqType
      BY DEF ReqType
    <3> DEFINE q == [req[r] EXCEPT !.recs = recs]
    <3>2. [q EXCEPT !.step = "storeMeta"] \in ReqType /\ Over(q, "ok") \in ReqType
      <4>1. q \in ReqType
        BY <3>1, FieldTypes
      <4> HIDE DEF q
      <4> QED
        BY <4>1, FieldTypes, OverType DEF Steps, Outcomes
    <3> QED
      BY <1>6, <3>1, <3>2 DEF ReadRows, ReqType
  <2>2. row' \in Rows /\ recs' \subseteq RecordIds
    BY <1>6, RowType DEF ReadRows, Bumped, At
  <2>3. CacheTypeOK'
    BY <1>6, CacheStepType DEF ReadRows, ReqType, Seen
  <2> QED
    BY <2>1, <2>2, <2>3 DEF ReqType
<1>7. CASE CacheMeta(r)
  <2>1. req' \in [Requests -> ReqType]
    BY <1>7, GotoType, EndType, CountIsNat, RowType DEF CacheMeta, ReqType, Steps, Outcomes, Seen
  <2>2. row' \in Rows /\ recs' \subseteq RecordIds
    BY <1>7, RowType DEF CacheMeta, Bumped, At
  <2>3. CacheTypeOK'
    BY <1>7, CacheStepType DEF CacheMeta, ReqType, Seen
  <2> QED
    BY <2>1, <2>2, <2>3 DEF ReqType
<1>8. CASE CacheCopy(r)
  <2>1. req' \in [Requests -> ReqType]
    BY <1>8, GotoType, EndType, CountIsNat, RowType DEF CacheCopy, ReqType, Steps, Outcomes, Seen
  <2>2. row' \in Rows /\ recs' \subseteq RecordIds
    BY <1>8, RowType DEF CacheCopy, Bumped, At
  <2>3. CacheTypeOK'
    BY <1>8, CacheStepType DEF CacheCopy, ReqType, Seen
  <2> QED
    BY <2>1, <2>2, <2>3 DEF ReqType
<1>9. CASE Compare(r)
  <2>1. req' \in [Requests -> ReqType]
    BY <1>9, GotoType, EndType, CountIsNat, RowType DEF Compare, ReqType, Steps, Outcomes, Seen
  <2>2. row' \in Rows /\ recs' \subseteq RecordIds
    BY <1>9, RowType DEF Compare, Bumped, At
  <2>3. CacheTypeOK'
    BY <1>9, CacheStepType DEF Compare, ReqType, Seen
  <2> QED
    BY <2>1, <2>2, <2>3 DEF ReqType
<1>10. CASE WriteDocument(r)
  <2>1. req' \in [Requests -> ReqType]
    BY <1>10, GotoType, EndType, CountIsNat, RowType DEF WriteDocument, ReqType, Steps, Outcomes, Seen
  <2>2. row' \in Rows /\ recs' \subseteq RecordIds
    BY <1>10, RowType DEF WriteDocument, Bumped, At
  <2>3. CacheTypeOK'
    BY <1>10, CacheStepType DEF WriteDocument, ReqType, Seen
  <2> QED
    BY <2>1, <2>2, <2>3 DEF ReqType
<1>11. CASE WriteSchema(r)
  <2>1. req' \in [Requests -> ReqType]
    BY <1>11, GotoType, EndType, CountIsNat, RowType DEF WriteSchema, ReqType, Steps, Outcomes, Seen
  <2>2. row' \in Rows /\ recs' \subseteq RecordIds
    BY <1>11, RowType DEF WriteSchema, Bumped, At
  <2>3. CacheTypeOK'
    BY <1>11, CacheStepType DEF WriteSchema, ReqType, Seen
  <2> QED
    BY <2>1, <2>2, <2>3 DEF ReqType
<1>12. CASE Drop(r)
  <2>1. req' \in [Requests -> ReqType]
    BY <1>12, GotoType, EndType, CountIsNat, RowType DEF Drop, ReqType, Steps, Outcomes, Seen
  <2>2. row' \in Rows /\ recs' \subseteq RecordIds
    BY <1>12 DEF Drop, Rows
  <2>3. CacheTypeOK'
    BY <1>12, CacheStepType DEF Drop, ReqType, Seen
  <2> QED
    BY <2>1, <2>2, <2>3 DEF ReqType
<1>13. CASE FindRow(r)
  <2>1. req' \in [Requests -> ReqType]
    BY <1>13, GotoType, EndType, CountIsNat, RowType DEF FindRow, ReqType, Steps, Outcomes, Seen
  <2>2. row' \in Rows /\ recs' \subseteq RecordIds
    BY <1>13, RowType DEF FindRow, Bumped, At
  <2>3. CacheTypeOK'
    BY <1>13, CacheStepType DEF FindRow, ReqType, Seen
  <2> QED
    BY <2>1, <2>2, <2>3 DEF ReqType
<1>14. CASE Select(r)
  <2>1. req' \in [Requests -> ReqType]
    <3>1. req[r] \in ReqType /\ "invalidate" \in Steps /\ "apply" \in Steps
      BY DEF ReqType, Steps
    <3>2. PICK S \in SUBSET recs :
            req' = [req EXCEPT ![r].todo = S, ![r].step = IF S = {} THEN "invalidate" ELSE "apply"]
      BY <1>14 DEF Select
    <3>3. [[req[r] EXCEPT !.todo = S] EXCEPT !.step = IF S = {} THEN "invalidate" ELSE "apply"] \in ReqType
      <4>1. [req[r] EXCEPT !.todo = S] \in ReqType
        BY <3>1, FieldTypes
      <4> QED
        BY <4>1, <3>1, FieldTypes
    <3> QED
      BY <3>1, <3>2, <3>3 DEF ReqType
  <2>2. row' \in Rows /\ recs' \subseteq RecordIds
    BY <1>14, RowType DEF Select, Bumped, At
  <2>3. CacheTypeOK'
    BY <1>14, CacheStepType DEF Select, ReqType, Seen
  <2> QED
    BY <2>1, <2>2, <2>3 DEF ReqType
<1>15. CASE Apply(r)
  <2>1. req' \in [Requests -> ReqType]
    <3>1. req[r] \in ReqType /\ {"apply", "write", "count"} \subseteq Steps
      BY DEF ReqType, Steps
    <3>2. CASE End(r, "error")
      BY <3>2, EndType DEF Outcomes, ReqType
    <3>3. ASSUME NEW x \in req[r].todo,
                 NEW s \in {"apply", "write", "count"},
                 req' = [req EXCEPT ![r].todo = @ \ {x}, ![r].recs = @ \cup {x}, ![r].step = s]
          PROVE  req' \in [Requests -> ReqType]
      <4>1. req[r].todo \ {x} \subseteq RecordIds /\ req[r].recs \cup {x} \subseteq RecordIds
        BY <3>1 DEF ReqType
      <4>2. [[req[r] EXCEPT !.todo = req[r].todo \ {x}] EXCEPT !.recs = req[r].recs \cup {x}] \in ReqType
        <5>1. [req[r] EXCEPT !.todo = req[r].todo \ {x}] \in ReqType
          BY <3>1, <4>1, FieldTypes
        <5> QED
          BY <4>1, <5>1, FieldTypes
      <4>3. [[[req[r] EXCEPT !.todo = req[r].todo \ {x}] EXCEPT !.recs = req[r].recs \cup {x}] EXCEPT !.step = s] \in ReqType
        BY <4>2, <3>1, FieldTypes
      <4> QED
        BY <3>1, <3>3, <4>3 DEF ReqType
    <3> QED
      BY <1>15, <3>2, <3>3 DEF Apply, AfterApply
  <2>2. row' \in Rows /\ recs' \subseteq RecordIds
    BY <1>15, RowType DEF Apply, Bumped, At
  <2>3. CacheTypeOK'
    BY <1>15, CacheStepType DEF Apply, ReqType, Seen
  <2> QED
    BY <2>1, <2>2, <2>3 DEF ReqType
<1>16. CASE BumpVersion(r)
  <2>1. req' \in [Requests -> ReqType]
    BY <1>16, GotoType, EndType, CountIsNat, RowType DEF BumpVersion, ReqType, Steps, Outcomes, Seen
  <2>2. row' \in Rows /\ recs' \subseteq RecordIds
    BY <1>16, RowType DEF BumpVersion, Bumped, At
  <2>3. CacheTypeOK'
    BY <1>16, CacheStepType DEF BumpVersion, ReqType, Seen
  <2> QED
    BY <2>1, <2>2, <2>3 DEF ReqType
<1>17. CASE CountRecords(r)
  <2>1. req' \in [Requests -> ReqType]
    <3>1. req[r] \in ReqType /\ "sync" \in Steps /\ Cardinality(recs) \in Nat
      BY CountIsNat DEF ReqType, Steps
    <3>2. [[req[r] EXCEPT !.step = "sync"] EXCEPT !.count = Cardinality(recs)] \in ReqType
      <4>1. [req[r] EXCEPT !.step = "sync"] \in ReqType
        BY <3>1, FieldTypes
      <4> QED
        BY <4>1, <3>1, FieldTypes
    <3> QED
      BY <1>17, <3>1, <3>2 DEF CountRecords, ReqType
  <2>2. row' \in Rows /\ recs' \subseteq RecordIds
    BY <1>17, RowType DEF CountRecords, Bumped, At
  <2>3. CacheTypeOK'
    BY <1>17, CacheStepType DEF CountRecords, ReqType, Seen
  <2> QED
    BY <2>1, <2>2, <2>3 DEF ReqType
<1>18. CASE SyncCount(r)
  <2>1. req' \in [Requests -> ReqType]
    BY <1>18, GotoType, EndType, CountIsNat, RowType DEF SyncCount, ReqType, Steps, Outcomes, Seen
  <2>2. row' \in Rows /\ recs' \subseteq RecordIds
    BY <1>18, RowType DEF SyncCount, Bumped, At
  <2>3. CacheTypeOK'
    BY <1>18, CacheStepType DEF SyncCount, ReqType, Seen
  <2> QED
    BY <2>1, <2>2, <2>3 DEF ReqType
<1>19. CASE ReadForFlush(r)
  <2>1. req' \in [Requests -> ReqType]
    BY <1>19, GotoType, EndType, CountIsNat, RowType DEF ReadForFlush, ReqType, Steps, Outcomes, Seen
  <2>2. row' \in Rows /\ recs' \subseteq RecordIds
    BY <1>19, RowType DEF ReadForFlush, Bumped, At
  <2>3. CacheTypeOK'
    BY <1>19, CacheStepType DEF ReadForFlush, ReqType, Seen
  <2> QED
    BY <2>1, <2>2, <2>3 DEF ReqType
<1>20. CASE Flush(r)
  <2>1. req' \in [Requests -> ReqType]
    BY <1>20, GotoType, EndType, CountIsNat, RowType DEF Flush, ReqType, Steps, Outcomes, Seen
  <2>2. row' \in Rows /\ recs' \subseteq RecordIds
    <3>1. req[r].seen \in Seen /\ Cardinality(req[r].recs) \in Nat
      BY CountIsNat
    <3>2. [exists |-> TRUE, version |-> req[r].seen.version, schema |-> req[r].seen.schema,
           count |-> Cardinality(req[r].recs)] \in Rows
      BY <3>1 DEF Rows, Seen
    <3> QED
      BY <1>20, <3>2, RowType DEF Flush
  <2>3. CacheTypeOK'
    BY <1>20, CacheStepType DEF Flush, ReqType, Seen
  <2> QED
    BY <2>1, <2>2, <2>3 DEF ReqType
<1>21. CASE Clean(r)
  <2>1. req' \in [Requests -> ReqType]
    BY <1>21, GotoType, EndType, CountIsNat, RowType DEF Clean, ReqType, Steps, Outcomes, Seen
  <2>2. row' \in Rows /\ recs' \subseteq RecordIds
    BY <1>21, RowType DEF Clean, Bumped, At
  <2>3. CacheTypeOK'
    BY <1>21, CacheStepType DEF Clean, ReqType, Seen
  <2> QED
    BY <2>1, <2>2, <2>3 DEF ReqType
<1>22. CASE Invalidate(r)
  <2>1. req' \in [Requests -> ReqType]
    BY <1>22, InvalidatedFields DEF Invalidate
  <2>2. row' \in Rows /\ recs' \subseteq RecordIds
    BY <1>22 DEF Invalidate
  <2>3. CacheTypeOK'
    BY <1>22, CacheStepType DEF Invalidate
  <2> QED
    BY <2>1, <2>2, <2>3 DEF ReqType
<1> QED
  BY <1>0, <1>1, <1>2, <1>3, <1>4, <1>5, <1>6, <1>7, <1>8, <1>9, <1>10, <1>11, <1>12, <1>13, <1>14, <1>15, <1>16, <1>17, <1>18, <1>19, <1>20, <1>21, <1>22 DEF Step

(* Every reachable state is well typed: among others, what is cached is a      *)
(* version, a schema and records a document may have.                          *)
THEOREM StructuredTypeCorrect == Spec => []StructuredTypeOK
<1>1. Init => StructuredTypeOK
  <2> SUFFICES ASSUME Init PROVE StructuredTypeOK
    OBVIOUS
  <2>1. PICK R \in SUBSET RecordIds, s \in Schemas \cup {Null} :
          /\ row = [exists |-> TRUE, version |-> 1, schema |-> s, count |-> Cardinality(R)]
          /\ recs = R
          /\ \/ meta = NoMeta /\ copy = NoCopy /\ expires = FALSE
             \/ meta = [version |-> 1, schema |-> s] /\ copy = [held |-> TRUE, recs |-> R] /\ expires = TRUE
    BY DEF Init
  <2>2. row \in Rows /\ recs \subseteq RecordIds
    BY <2>1, CountIsNat DEF Rows
  <2>3. CacheTypeOK
    <3>1. [version |-> 1, schema |-> s] \in [version: Nat, schema: Schemas \cup {Null}] /\ NoMeta \in [version: Nat, schema: Schemas \cup {Null}]
      BY DEF NoMeta
    <3>2. [held |-> TRUE, recs |-> R] \in [held: BOOLEAN, recs: SUBSET RecordIds] /\ NoCopy \in [held: BOOLEAN, recs: SUBSET RecordIds]
      BY DEF NoCopy
    <3> QED
      BY <2>1, <3>1, <3>2 DEF CacheTypeOK
  <2>4. NoRequest \in ReqType
    BY DEF NoRequest, ReqType, OpNames, Steps, Seen, Outcomes
  <2>5. req \in [Requests -> ReqType]
    BY <2>4 DEF Init
  <2> QED
    BY <2>2, <2>3, <2>5 DEF StructuredTypeOK, ReqType
<1>2. StructuredTypeOK /\ [Next]_vars => StructuredTypeOK'
  <2> SUFFICES ASSUME StructuredTypeOK, [Next]_vars PROVE StructuredTypeOK'
    OBVIOUS
  <2>1. CASE UNCHANGED vars
    <3>1. CacheTypeOK'
      BY <2>1, CacheStepType DEF StructuredTypeOK, vars
    <3> QED
      BY <2>1, <3>1 DEF StructuredTypeOK, vars, docVars
  <2>2. CASE Expiry
    <3>1. CacheTypeOK'
      BY <2>2, CacheStepType DEF StructuredTypeOK, Expiry
    <3> QED
      BY <2>2, <3>1 DEF StructuredTypeOK, Expiry, docVars
  <2>3. CASE \E r \in Requests : Step(r)
    BY <2>3, TypeStep
  <2> QED
    BY <2>1, <2>2, <2>3 DEF Next
<1> QED
  BY <1>1, <1>2, PTL DEF Spec

------------------------------------------------------------------------------
(* What a step makes of the row: only a delete takes it away, nothing brings   *)
(* it back, and only a flush writes an older version.                          *)
LEMMA RowStep ==
  ASSUME StructuredTypeOK, NEW r \in Requests, Step(r)
  PROVE  /\ row'.exists => row.exists
         /\ row.exists /\ ~ row'.exists => Drop(r)
         /\ row'.version < row.version => At(r, "deactivate", "flush")
<1>1. row \in Rows /\ row.version \in Nat /\ Bumped \in Rows
  BY RowType DEF StructuredTypeOK, Rows
<1>2. CASE WriteDocument(r) \/ WriteSchema(r) \/ BumpVersion(r) \/ SyncCount(r)
  <2>1. \E new \in Rows : UpdateRow(new) /\ new.exists = row.exists /\ new.version = row.version + 1
    <3>1. Bumped.exists = row.exists /\ Bumped.version = row.version + 1
      BY <1>1 DEF Bumped, Rows
    <3>2. CASE BumpVersion(r)
      BY <3>2, <3>1, <1>1 DEF BumpVersion
    <3>3. CASE SyncCount(r)
      <4>1. req[r].count \in Nat
        BY DEF StructuredTypeOK
      <4> QED
        BY <3>3, <3>1, <1>1, <4>1, RowType DEF SyncCount, Rows
    <3>4. CASE WriteDocument(r) \/ WriteSchema(r)
      <4>1. PICK s \in Schemas \cup {row.schema} : UpdateRow([Bumped EXCEPT !.schema = s])
        BY <3>4 DEF WriteDocument, WriteSchema
      <4> QED
        BY <4>1, <3>1, <1>1, RowType DEF Rows
    <3> QED
      BY <1>2, <3>2, <3>3, <3>4
  <2>2. row' = row \/ (row.exists /\ row'.exists = row.exists /\ row'.version = row.version + 1)
    BY <2>1 DEF UpdateRow
  <2> QED
    BY <2>2, <1>1
<1>3. CASE Flush(r)
  BY <1>3 DEF Flush, UpdateRow
<1>4. CASE Drop(r)
  <2>1. row'.exists = FALSE /\ row'.version = row.version
    BY <1>4, <1>1 DEF Drop, Rows
  <2> QED
    BY <1>1, <1>4, <2>1
<1>5. CASE UNCHANGED row
  BY <1>5, <1>1
<1> QED
  BY <1>2, <1>3, <1>4, <1>5
    DEF Step, Begin, ReadMeta, ReadCopy, TouchCopy, CheckExists, ReadRow, ReadRows, CacheMeta, CacheCopy,
        Compare, FindRow, Select, Apply, CountRecords, ReadForFlush, Clean, Invalidate

(* Nothing brings back the records of a deleted document: NothingLeftOfDropped *)
(* is inductive, because a row once gone is never written again and a record   *)
(* is written only with the row.                                               *)
THEOREM NothingLeft == Spec => []NothingLeftOfDropped
<1>1. Init => NothingLeftOfDropped
  BY DEF Init, NothingLeftOfDropped
<1>2. StructuredTypeOK /\ NothingLeftOfDropped /\ [Next]_vars => NothingLeftOfDropped'
  <2> SUFFICES ASSUME StructuredTypeOK, NothingLeftOfDropped, [Next]_vars PROVE NothingLeftOfDropped'
    OBVIOUS
  <2>1. CASE UNCHANGED <<row, recs>>
    BY <2>1 DEF NothingLeftOfDropped
  <2>2. ASSUME NEW r \in Requests, Step(r) PROVE NothingLeftOfDropped'
    <3>1. CASE Drop(r)
      BY <3>1 DEF Drop, NothingLeftOfDropped
    <3>2. CASE Apply(r)
      BY <3>2 DEF Apply, NothingLeftOfDropped
    <3>3. CASE UNCHANGED recs /\ ~ Drop(r)
      BY <2>2, <3>3, RowStep DEF NothingLeftOfDropped
    <3> QED
      BY <2>2, <3>1, <3>2, <3>3
        DEF Step, Begin, ReadMeta, ReadCopy, TouchCopy, CheckExists, ReadRow, ReadRows, CacheMeta, CacheCopy,
            Compare, WriteDocument, WriteSchema, FindRow, Select, BumpVersion, CountRecords, SyncCount,
            ReadForFlush, Flush, Clean, Invalidate
  <2> QED
    BY <2>1, <2>2 DEF Next, Expiry, vars, docVars
<1> QED
  BY <1>1, <1>2, StructuredTypeCorrect, PTL DEF Spec

(* data_version never falls but for a flush, whatever the requests and however *)
(* they interleave: every other statement adds to the version it finds.        *)
THEOREM VersionNeverFalls == Spec => VersionGrows
<1>1. ASSUME StructuredTypeOK, [Next]_vars
      PROVE  [row'.version < row.version => \E r \in Requests : At(r, "deactivate", "flush")]_vars
  <2>1. row.version \in Nat
    BY <1>1 DEF StructuredTypeOK, Rows
  <2>2. CASE UNCHANGED row
    BY <2>1, <2>2
  <2>3. ASSUME NEW r \in Requests, Step(r) PROVE row'.version < row.version => At(r, "deactivate", "flush")
    BY <1>1, <2>3, RowStep
  <2> QED
    BY <1>1, <2>2, <2>3 DEF Next, Expiry, vars, docVars
<1> QED
  BY <1>1, StructuredTypeCorrect, PTL DEF Spec, VersionGrows

------------------------------------------------------------------------------
(* DroppedIsGone needs to know what a request has seen: a document that is     *)
(* there now was there when the request began, a request reads records only    *)
(* after it found the row, and a get takes no other steps.                     *)
GetSteps == {"none", "meta", "copy", "touch", "exists", "row", "rows", "done"}

SeenBy(r) ==
  /\ req[r].step # "none" /\ row.exists => req[r].seen.exists
  /\ req[r].op = "get" => req[r].step \in GetSteps
  /\ req[r].op = "get" /\ req[r].step = "rows" => req[r].seen.exists
  /\ Answered(r) => req[r].seen.exists

SeenInv == \A r \in Requests : SeenBy(r)

(* A request moves itself only.                                                *)
LEMMA OthersStay ==
  ASSUME StructuredTypeOK, NEW r \in Requests, Step(r), NEW q \in Requests, q # r
  PROVE  req'[q] = req[q]
BY DEF StructuredTypeOK, Step, Begin, ReadMeta, ReadCopy, TouchCopy, CheckExists, ReadRow, ReadRows,
       CacheMeta, CacheCopy, Compare, WriteDocument, WriteSchema, Drop, FindRow, Select, Apply, BumpVersion,
       CountRecords, SyncCount, ReadForFlush, Flush, Clean, Invalidate, Invalidated, Goto, End, Answer

LEMMA SeenStep ==
  ASSUME StructuredTypeOK, SeenInv, NEW r \in Requests, Step(r)
  PROVE  SeenBy(r)'
<1>1. /\ row'.exists => row.exists
      /\ SeenBy(r)
      /\ req[r] \in ReqType
      /\ req \in [Requests -> ReqType]
  BY RowStep DEF SeenInv, StructuredTypeOK, ReqType
<1>e. \A b \in Outcomes : End(r, b) =>
        /\ req'[r].op = req[r].op /\ req'[r].step = "done" /\ req'[r].outcome = b
        /\ req'[r].seen.exists = req[r].seen.exists
  BY <1>1, EndType, OverType
<1>o. "ok" \in Outcomes /\ "error" \in Outcomes
  BY DEF Outcomes
<1> USE DEF Goto, Answer, Answered, SeenBy, ReqType
<1>2. CASE Begin(r)
  <2>1. PICK op \in Ops : \E s \in FirstStep(op) :
          req' = [req EXCEPT ![r].op = op, ![r].step = s, ![r].before = Finished, ![r].seen = Snapshot]
    BY <1>2 DEF Begin
  <2>2. PICK s \in FirstStep(op) :
          req' = [req EXCEPT ![r].op = op, ![r].step = s, ![r].before = Finished, ![r].seen = Snapshot]
    BY <2>1
  <2>3. s \notin {"rows", "done"} /\ (op = "get" => s = "meta") /\ Snapshot.exists = row.exists
    BY DEF FirstStep, Snapshot
  <2> QED
    BY <1>1, <1>2, <2>2, <2>3 DEF Begin, GetSteps
<1>3. CASE ReadMeta(r)
  BY <1>1, <1>3 DEF ReadMeta, Seen, GetSteps
<1>4. CASE ReadCopy(r) \/ TouchCopy(r)
  BY <1>1, <1>4 DEF ReadCopy, TouchCopy, GetSteps
<1>5. CASE CheckExists(r)
  BY <1>1, <1>e, <1>o, <1>5 DEF CheckExists, GetSteps
<1>6. CASE ReadRow(r)
  BY <1>1, <1>e, <1>o, <1>6 DEF ReadRow, Snapshot, GetSteps
<1>7. CASE ReadRows(r)
  <2> DEFINE q == [req[r] EXCEPT !.recs = recs]
  <2>1. q \in ReqType /\ q.op = req[r].op /\ q.seen = req[r].seen /\ q.outcome = req[r].outcome
    BY <1>1, <1>7 DEF ReadRows, StructuredTypeOK
  <2>2. req' = [req EXCEPT ![r] = IF req[r].op = "activate" THEN [q EXCEPT !.step = "storeMeta"] ELSE Over(q, "ok")]
    BY <1>7 DEF ReadRows
  <2> HIDE DEF q
  <2>3. CASE req[r].op = "activate"
    BY <1>1, <1>7, <2>1, <2>2, <2>3 DEF ReadRows, GetSteps
  <2>4. CASE req[r].op # "activate"
    <3>1. req'[r] = Over(q, "ok")
      BY <1>1, <2>2, <2>4
    <3>2. req'[r].op = req[r].op /\ req'[r].step = "done" /\ req'[r].seen.exists = req[r].seen.exists
      BY <1>o, <2>1, <3>1, OverType
    <3> QED
      BY <1>1, <1>7, <3>2 DEF ReadRows, GetSteps
  <2> QED
    BY <2>3, <2>4
<1>8. CASE req[r].op # "get" /\ req'[r].op # "get" /\ req'[r].seen.exists = req[r].seen.exists /\ req[r].step # "none"
  BY <1>1, <1>8
<1>9. CASE CacheMeta(r) \/ CacheCopy(r) \/ Compare(r) \/ WriteDocument(r) \/ WriteSchema(r) \/ Drop(r)
  BY <1>1, <1>e, <1>o, <1>8, <1>9
    DEF CacheMeta, CacheCopy, Compare, WriteDocument, WriteSchema, Drop, At, GetSteps
<1>10. CASE FindRow(r) \/ Select(r) \/ Apply(r)
  <2>1. req[r].op # "get" /\ req[r].step # "none"
    BY <1>1, <1>10 DEF FindRow, Select, Apply, Reads, GetSteps
  <2>2. CASE FindRow(r)
    BY <1>1, <1>e, <1>o, <1>8, <2>1, <2>2 DEF FindRow
  <2>3. CASE Select(r)
    BY <1>1, <1>8, <2>1, <2>3 DEF Select
  <2>4. CASE Apply(r)
    <3>1. req'[r].op = req[r].op /\ req'[r].seen.exists = req[r].seen.exists
      <4>1. CASE End(r, "error")
        BY <1>e, <1>o, <4>1
      <4>2. ASSUME NEW x, NEW s, req' = [req EXCEPT ![r].todo = @ \ {x}, ![r].recs = @ \cup {x}, ![r].step = s]
            PROVE  req'[r].op = req[r].op /\ req'[r].seen.exists = req[r].seen.exists
        BY <1>1, <4>2
      <4> QED
        BY <2>4, <4>1, <4>2 DEF Apply
    <3> QED
      BY <1>8, <2>1, <3>1
  <2> QED
    BY <1>10, <2>2, <2>3, <2>4
<1>11. CASE BumpVersion(r) \/ CountRecords(r) \/ SyncCount(r)
  BY <1>1, <1>e, <1>o, <1>8, <1>11 DEF BumpVersion, CountRecords, SyncCount, At, GetSteps
<1>12. CASE ReadForFlush(r) \/ Flush(r) \/ Clean(r)
  BY <1>1, <1>e, <1>o, <1>8, <1>12 DEF ReadForFlush, Flush, Clean, At, GetSteps, Seen
<1>13. CASE Invalidate(r)
  <2>1. req[r].op # "get" /\ req[r].step # "none"
    BY <1>1, <1>13 DEF Invalidate, GetSteps
  <2>2. req'[r].op = req[r].op /\ req'[r].seen.exists = req[r].seen.exists
    BY <1>13, InvalidatedFields DEF Invalidate
  <2> QED
    BY <1>8, <2>1, <2>2
<1> QED
  BY <1>2, <1>3, <1>4, <1>5, <1>6, <1>7, <1>9, <1>10, <1>11, <1>12, <1>13 DEF Step

(* get_document never returns a document that was gone when the request began, *)
(* whatever copy of it is left in the cache or stored again.                   *)
THEOREM DroppedStaysGone == Spec => []DroppedIsGone
<1>1. Init => SeenInv
  BY DEF Init, SeenInv, SeenBy, Answered, NoRequest, GetSteps
<1>2. StructuredTypeOK /\ SeenInv /\ [Next]_vars => SeenInv'
  <2> SUFFICES ASSUME StructuredTypeOK, SeenInv, [Next]_vars, NEW q \in Requests PROVE SeenBy(q)'
    BY DEF SeenInv
  <2>1. CASE UNCHANGED <<row, req>>
    BY <2>1 DEF SeenInv, SeenBy, Answered
  <2>2. ASSUME NEW r \in Requests, Step(r) PROVE SeenBy(q)'
    <3>1. CASE q = r
      BY <2>2, <3>1, SeenStep
    <3>2. CASE q # r
      BY <2>2, <3>2, RowStep, OthersStay DEF SeenInv, SeenBy, Answered
    <3> QED
      BY <3>1, <3>2
  <2> QED
    BY <2>1, <2>2 DEF Next, Expiry, vars, docVars
<1>3. SeenInv => DroppedIsGone
  BY DEF SeenInv, SeenBy, DroppedIsGone
<1> QED
  BY <1>1, <1>2, <1>3, StructuredTypeCorrect, PTL DEF Spec

------------------------------------------------------------------------------
(* ReadsSeeFinishedWrites needs to know where a record can be: what a request  *)
(* or the copy holds is in the document or was deleted, and what is still to   *)
(* be inserted is nowhere.                                                     *)
Gone == {x \in RecordIds : \E d \in Requests : req[d].op = "remove" /\ x \in req[d].recs}

Placed(r) ==
  /\ req[r].step = "none" => req[r].recs = {} /\ req[r].todo = {} /\ req[r].before = {}
  /\ req[r].before \subseteq Finished
  /\ req[r].step \in {"meta", "copy", "touch", "exists"} => Reads(r)
  /\ req[r].step \in {"storeMeta", "storeCopy"} => req[r].op = "activate"
  /\ req[r].step \in {"apply", "count", "sync"} => req[r].op \in {"insert", "update", "remove"}
  /\ req[r].step \in {"row", "rows"} => req[r].op \notin {"drop", "deactivate"}
  /\ req[r].step = "rows" => req[r].op # "insert"
  /\ req[r].step = "invalidate" => req[r].op \notin {"get", "activate", "schema"}

Known ==
  /\ recs \cap Gone = {}
  /\ copy.recs \subseteq recs \cup Gone
  /\ \A r \in Requests : req[r].recs \subseteq recs \cup Gone
  /\ \A r \in Requests : req[r].op # "insert" => req[r].todo \subseteq recs \cup Gone
  /\ \A r \in Requests : req[r].op = "insert" => req[r].todo \cap (recs \cup Gone) = {}
  /\ \A r, q \in Requests : r # q /\ req[r].op = "insert" /\ req[q].op = "insert" => req[r].todo \cap req[q].todo = {}

(* A request has removed the copy before it is over only if it reads then.     *)
Flagged(r) ==
  /\ req[r].step = "none" => ~ req[r].removed
  /\ req[r].removed => req[r].step = "done" \/ Reads(r)

(* v, no activation across it, has removed the copy after the write w, its own *)
(* or one that was over when it began; a set of records that is not older than *)
(* w; a request that has read the records.                                     *)
Counts(v, w) ==
  /\ req[v].removed /\ ~ Filled(v)
  /\ v = w \/ w \in req[v].before
  /\ req[w].step = "done" /\ req[w].op \in {"insert", "remove"}
Follows(R, w) ==
  /\ req[w].op = "insert" => req[w].recs \subseteq R \cup Gone
  /\ req[w].op = "remove" => req[w].recs \cap R = {}
HasRead(g) ==
  /\ Reads(g)
  /\ req[g].step \in {"touch", "exists", "storeMeta", "storeCopy"} \/ (req[g].step = "done" /\ req[g].outcome = "ok")

CopyFollows == copy.held => \A v, w \in Requests : Counts(v, w) => Follows(copy.recs, w)
ReadFollows(g) ==
  HasRead(g) => \A v \in req[g].before : \A w \in Requests : Counts(v, w) => Follows(req[g].recs, w)

ReadInv ==
  /\ \A r \in Requests : Placed(r) /\ Flagged(r)
  /\ row.exists => Known /\ CopyFollows /\ \A g \in Requests : ReadFollows(g)

(* What one step of a request does to where records are.                       *)
SameData(r) == req'[r].recs = req[r].recs /\ req'[r].todo = req[r].todo

Inserted(r, x) == recs' = recs \cup {x} /\ req[r].op = "insert"
Removed(r, x)  == recs' = recs \ {x} /\ req[r].op = "remove"
Updated(r, x)  == recs' = recs /\ req[r].op = "update"

DataStep(r) ==
  \/ recs' = recs /\ SameData(r)
  \/ /\ recs' = recs /\ req'[r].todo = req[r].todo /\ req[r].op # "remove"
     /\ req'[r].recs = copy.recs \/ req'[r].recs = recs
  \/ recs' = recs /\ req'[r].recs = req[r].recs /\ req[r].op = "insert" /\ req'[r].todo \subseteq Unused
  \/ recs' = recs /\ req'[r].recs = req[r].recs /\ req[r].op # "insert" /\ req'[r].todo \subseteq recs
  \/ \E x \in req[r].todo :
       /\ req'[r].todo = req[r].todo \ {x} /\ req'[r].recs = req[r].recs \cup {x}
       /\ Inserted(r, x) \/ Removed(r, x) \/ Updated(r, x)

ReadMove(r) ==
  HasRead(r)' =>
    \/ HasRead(r) /\ req'[r].recs = req[r].recs
    \/ copy.held /\ req'[r].recs = copy.recs
    \/ req'[r].recs = recs

CopyMove(r) ==
  \/ copy' = copy
  \/ copy' = NoCopy
  \/ req[r].step = "storeCopy" /\ copy' = [held |-> TRUE, recs |-> req[r].recs]

RemovedMove(r) ==
  \/ req'[r].removed = req[r].removed
  \/ /\ req'[r].removed => copy' = NoCopy
     /\ req'[r].step = "done" \/ Reads(r)'

Move(r) ==
  /\ req[r].step # "done" /\ req'[r].step # "none"
  /\ \/ req[r].step # "none" /\ req'[r].op = req[r].op /\ req'[r].before = req[r].before
     \/ req[r].step = "none" /\ SameData(r) /\ req'[r].before = Finished
  /\ CopyMove(r) /\ ReadMove(r) /\ Placed(r)'
  /\ row'.exists => DataStep(r)

LEMMA GotoFields ==
  ASSUME StructuredTypeOK, NEW r \in Requests, NEW s, Goto(r, s)
  PROVE  /\ req'[r].step = s /\ req'[r].op = req[r].op /\ req'[r].before = req[r].before
         /\ req'[r].recs = req[r].recs /\ req'[r].todo = req[r].todo /\ req'[r].removed = req[r].removed
  BY DEF StructuredTypeOK, Goto

LEMMA EndFields ==
  ASSUME StructuredTypeOK, NEW r \in Requests, NEW b \in Outcomes, End(r, b)
  PROVE  /\ req'[r].step = "done" /\ req'[r].op = req[r].op /\ req'[r].before = req[r].before
         /\ req'[r].recs = req[r].recs /\ req'[r].todo = req[r].todo /\ req'[r].outcome = b
         /\ req'[r].removed = req[r].removed
<1>1. req \in [Requests -> ReqType]
  BY DEF StructuredTypeOK, ReqType
<1> QED BY <1>1, OverType DEF End

LEMMA FinishedStays ==
  ASSUME StructuredTypeOK, NEW r \in Requests, Step(r), req[r].step # "done"
  PROVE  Finished \subseteq Finished'
  BY OthersStay DEF Finished

(* Most steps keep what the request holds.                                     *)
LEMMA PlainMove ==
  ASSUME StructuredTypeOK, NEW r \in Requests, Step(r), Placed(r), req[r].step \notin {"none", "done"},
         req'[r].op = req[r].op, req'[r].before = req[r].before, req'[r].recs = req[r].recs, req'[r].todo = req[r].todo,
         req'[r].step \in Steps \ {"none"}, CopyMove(r),
         req'[r].step \in {"apply", "count", "sync"} => req[r].op \in {"insert", "update", "remove"},
         req'[r].step \in {"row", "rows"} => req[r].op \notin {"drop", "deactivate"},
         req'[r].step = "rows" => req[r].op # "insert",
         req'[r].step = "invalidate" => req[r].op \notin {"get", "activate", "schema"},
         req'[r].step \in {"meta", "copy", "touch", "exists"} => Reads(r),
         req'[r].step \in {"storeMeta", "storeCopy"} => req[r].op = "activate",
         HasRead(r)' => HasRead(r),
         row'.exists => recs' = recs
  PROVE  Move(r)
<1>1. Reads(r)' <=> Reads(r)
  BY DEF Reads
<1>2. Placed(r)'
  BY <1>1, FinishedStays DEF Placed
<1>3. ReadMove(r) /\ (row'.exists => DataStep(r))
  BY DEF ReadMove, DataStep, SameData
<1> QED BY <1>2, <1>3 DEF Move

LEMMA ReadingMove ==
  ASSUME StructuredTypeOK, NEW r \in Requests, Step(r), Placed(r),
         ReadMeta(r) \/ ReadCopy(r) \/ TouchCopy(r) \/ CheckExists(r) \/ ReadRow(r) \/ CacheMeta(r) \/ CacheCopy(r)
  PROVE  Move(r)
<1>1. /\ req[r].step \notin {"none", "done"} /\ UNCHANGED recs
      /\ CacheMeta(r) \/ CacheCopy(r) => req[r].op = "activate"
      /\ Reads(r)
  BY DEF ReadMeta, ReadCopy, TouchCopy, CheckExists, ReadRow, CacheMeta, CacheCopy, Placed, Reads
<1>2. CopyMove(r)
  BY DEF CopyMove, ReadMeta, ReadCopy, TouchCopy, CheckExists, ReadRow, CacheMeta, CacheCopy, Touch, StoreMeta, StoreCopy,
         cacheVars
<1>3. CASE ReadCopy(r) /\ copy.held /\ req' = [req EXCEPT ![r].step = "touch", ![r].recs = copy.recs]
  <2>1. /\ req'[r].step = "touch" /\ req'[r].op = req[r].op /\ req'[r].before = req[r].before
        /\ req'[r].recs = copy.recs /\ req'[r].todo = req[r].todo
    BY <1>3 DEF StructuredTypeOK
  <2>2. Reads(r)' /\ req[r].op # "remove"
    BY <1>1, <2>1 DEF Reads
  <2>3. Placed(r)'
    BY <1>1, <2>1, <2>2, FinishedStays DEF Placed
  <2>4. ReadMove(r) /\ DataStep(r)
    BY <1>1, <1>3, <2>1, <2>2 DEF ReadMove, DataStep
  <2> QED BY <1>1, <1>2, <2>1, <2>2, <2>3, <2>4 DEF Move
<1>4. ASSUME NEW s \in {"copy", "row", "exists", "storeMeta", "storeCopy", "rows"},
             req'[r].step = s, req'[r].op = req[r].op, req'[r].before = req[r].before,
             req'[r].recs = req[r].recs, req'[r].todo = req[r].todo,
             s = "exists" => req[r].step = "touch",
             s = "storeMeta" => req[r].step = "exists" /\ req[r].op = "activate",
             s = "storeCopy" => req[r].step = "storeMeta" /\ req[r].op = "activate"
      PROVE  Move(r)
  <2>1. HasRead(r)' => HasRead(r)
    BY <1>4 DEF HasRead, Reads
  <2>2. s \in Steps
    BY DEF Steps
  <2>3. req[r].op \notin {"drop", "deactivate", "insert"}
    BY <1>1 DEF Reads
  <2> QED BY <1>1, <1>2, <1>4, <2>1, <2>2, <2>3, PlainMove
<1>5. ASSUME NEW b \in {"ok", "error"}, End(r, b), b = "ok" => req[r].step \in {"exists", "storeCopy"} PROVE Move(r)
  <2>1. /\ req'[r].step = "done" /\ req'[r].op = req[r].op /\ req'[r].before = req[r].before
        /\ req'[r].recs = req[r].recs /\ req'[r].todo = req[r].todo /\ req'[r].outcome = b
    BY <1>5, EndFields DEF Outcomes
  <2>2. HasRead(r)' => HasRead(r)
    BY <1>1, <1>5, <2>1 DEF HasRead
  <2> QED BY <1>1, <1>2, <2>1, <2>2, PlainMove DEF Steps
<1>6. CASE ReadMeta(r)
  <2>1. CASE req' = [req EXCEPT ![r].step = "copy", ![r].seen.version = meta.version, ![r].seen.schema = meta.schema]
    BY <1>4, <1>6, <2>1 DEF StructuredTypeOK
  <2>2. CASE Goto(r, "row")
    BY <1>4, <2>2, GotoFields
  <2> QED BY <1>6, <2>1, <2>2 DEF ReadMeta
<1>7. CASE ReadCopy(r)
  BY <1>3, <1>4, <1>7, GotoFields DEF ReadCopy
<1>8. CASE TouchCopy(r)
  BY <1>4, <1>8, GotoFields DEF TouchCopy
<1>9. CASE CheckExists(r)
  <2>1. CASE Goto(r, "storeMeta") /\ req[r].op = "activate"
    BY <1>4, <1>9, <2>1, GotoFields DEF CheckExists
  <2>2. CASE End(r, "ok")
    BY <1>5, <1>9, <2>2 DEF CheckExists
  <2>3. CASE Goto(r, "row")
    BY <1>4, <2>3, GotoFields
  <2> QED BY <1>9, <2>1, <2>2, <2>3 DEF CheckExists, Answer
<1>10. CASE ReadRow(r)
  <2>1. CASE req' = [req EXCEPT ![r].step = "rows", ![r].seen = Snapshot]
    BY <1>4, <2>1 DEF StructuredTypeOK
  <2> QED BY <1>5, <1>10, <2>1 DEF ReadRow
<1>11. CASE CacheMeta(r)
  BY <1>1, <1>4, <1>5, <1>11, GotoFields DEF CacheMeta
<1>12. CASE CacheCopy(r)
  BY <1>5, <1>12 DEF CacheCopy
<1> QED BY <1>6, <1>7, <1>8, <1>9, <1>10, <1>11, <1>12

LEMMA BeginMove ==
  ASSUME StructuredTypeOK, NEW r \in Requests, Step(r), Placed(r), Begin(r)
  PROVE  Move(r)
<1>1. PICK op \in Ops : \E s \in FirstStep(op) :
        req' = [req EXCEPT ![r].op = op, ![r].step = s, ![r].before = Finished, ![r].seen = Snapshot]
  BY DEF Begin
<1>2. PICK s \in FirstStep(op) :
        req' = [req EXCEPT ![r].op = op, ![r].step = s, ![r].before = Finished, ![r].seen = Snapshot]
  BY <1>1
<1>3. /\ s \notin {"none", "done", "copy", "touch", "exists", "storeMeta", "storeCopy", "apply", "count", "sync", "rows"}
      /\ s = "meta" => op \in {"get", "activate"}
      /\ s = "invalidate" => op = "deactivate"
      /\ s = "row" => op \notin {"drop", "deactivate"}
  BY DEF FirstStep
<1>4. /\ req'[r].op = op /\ req'[r].step = s /\ req'[r].before = Finished /\ req'[r].recs = req[r].recs
      /\ req'[r].todo = req[r].todo
  BY <1>2 DEF StructuredTypeOK
<1>5. req[r].step = "none" /\ UNCHANGED <<recs, copy>>
  BY DEF Begin, cacheVars
<1>6. Placed(r)'
  BY <1>3, <1>4, <1>5, FinishedStays DEF Placed, Reads
<1>7. ReadMove(r) /\ DataStep(r) /\ CopyMove(r)
  BY <1>3, <1>4, <1>5 DEF ReadMove, HasRead, DataStep, SameData, CopyMove
<1> QED BY <1>3, <1>4, <1>5, <1>6, <1>7 DEF Move, SameData

LEMMA RowsMove ==
  ASSUME StructuredTypeOK, NEW r \in Requests, Step(r), Placed(r), ReadRows(r)
  PROVE  Move(r)
<1> DEFINE q == [req[r] EXCEPT !.recs = recs]
<1>1. Reads(r) /\ req[r].step = "rows" /\ UNCHANGED <<recs, copy>>
  BY DEF ReadRows, cacheVars
<1>2. /\ q \in ReqType /\ q.op = req[r].op /\ q.before = req[r].before /\ q.todo = req[r].todo /\ q.recs = recs
      /\ req' = [req EXCEPT ![r] = IF req[r].op = "activate" THEN [q EXCEPT !.step = "storeMeta"] ELSE Over(q, "ok")]
  BY DEF ReadRows, StructuredTypeOK, ReqType
<1> HIDE DEF q
<1>3. /\ req'[r].op = req[r].op /\ req'[r].before = req[r].before /\ req'[r].todo = req[r].todo /\ req'[r].recs = recs
      /\ (req'[r].step = "storeMeta" /\ req[r].op = "activate") \/ req'[r].step = "done"
  <2>1. CASE req[r].op = "activate"
    BY <1>2, <2>1 DEF StructuredTypeOK, ReqType
  <2>2. CASE req[r].op # "activate"
    <3>1. req'[r] = Over(q, "ok")
      BY <1>2, <2>2 DEF StructuredTypeOK
    <3> QED BY <1>2, <3>1, OverType DEF Outcomes
  <2> QED BY <2>1, <2>2
<1>4. Placed(r)'
  BY <1>1, <1>3, FinishedStays DEF Placed
<1>5. req[r].op # "remove"
  BY <1>1 DEF Reads
<1>6. ReadMove(r) /\ DataStep(r) /\ CopyMove(r)
  BY <1>1, <1>3, <1>5 DEF ReadMove, DataStep, CopyMove
<1> QED BY <1>1, <1>3, <1>4, <1>5, <1>6 DEF Move

(* The statements of the writes, apart from those on the records.              *)
LEMMA WritingMove ==
  ASSUME StructuredTypeOK, NEW r \in Requests, Step(r), Placed(r),
         \/ Compare(r) \/ WriteDocument(r) \/ WriteSchema(r) \/ Drop(r) \/ BumpVersion(r) \/ CountRecords(r)
         \/ SyncCount(r) \/ Flush(r) \/ Clean(r) \/ Invalidate(r)
  PROVE  Move(r)
<1>1. /\ req[r].step \notin {"none", "done"}
      /\ row'.exists => recs' = recs
  BY DEF Compare, WriteDocument, WriteSchema, Drop, BumpVersion, CountRecords, SyncCount, Flush, Clean, Invalidate, At,
         StructuredTypeOK, Rows
<1>2. CopyMove(r)
  BY DEF CopyMove, Compare, WriteDocument, WriteSchema, Drop, BumpVersion, CountRecords, SyncCount, Flush, Clean, Invalidate,
         MarkClean, Remove, cacheVars
<1>3. ASSUME NEW s \in {"compared", "invalidate", "meta", "sync", "clean"}, req'[r].step = s,
             req'[r].op = req[r].op, req'[r].before = req[r].before, req'[r].recs = req[r].recs, req'[r].todo = req[r].todo,
             s = "meta" => Reads(r), s = "sync" => req[r].step = "count",
             s = "invalidate" => req[r].op \notin {"get", "activate", "schema"}
      PROVE  Move(r)
  <2>1. ~ HasRead(r)'
    BY <1>3 DEF HasRead
  <2>2. s \in Steps
    BY DEF Steps
  <2>3. s = "sync" => req[r].op \in {"insert", "update", "remove"}
    BY <1>3 DEF Placed
  <2> QED BY <1>1, <1>2, <1>3, <2>1, <2>2, <2>3, PlainMove
<1>4. ASSUME NEW b \in {"ok", "error"}, End(r, b), b = "ok" => ~ Reads(r)
      PROVE  Move(r)
  <2>1. /\ req'[r].step = "done" /\ req'[r].op = req[r].op /\ req'[r].before = req[r].before
        /\ req'[r].recs = req[r].recs /\ req'[r].todo = req[r].todo /\ req'[r].outcome = b
    BY <1>4, EndFields DEF Outcomes
  <2>2. HasRead(r)' => HasRead(r)
    BY <1>4, <2>1 DEF HasRead, Reads
  <2> QED BY <1>1, <1>2, <1>4, <2>1, <2>2, PlainMove DEF Steps
<1>5. CASE Compare(r)
  BY <1>3, <1>4, <1>5, GotoFields DEF Compare
<1>6. CASE WriteDocument(r)
  BY <1>3, <1>6, GotoFields DEF WriteDocument
<1>7. CASE WriteSchema(r)
  BY <1>3, <1>7, GotoFields DEF WriteSchema, At, Reads
<1>8. CASE Drop(r)
  BY <1>3, <1>4, <1>8, GotoFields DEF Drop, At
<1>9. CASE BumpVersion(r) \/ SyncCount(r) \/ Flush(r) \/ Clean(r)
  BY <1>3, <1>9, GotoFields DEF BumpVersion, SyncCount, Flush, Clean, At, Placed
<1>10. CASE CountRecords(r)
  BY <1>3, <1>10 DEF CountRecords, StructuredTypeOK
<1>11. CASE Invalidate(r)
  <2>1. /\ req'[r].op = req[r].op /\ req'[r].before = req[r].before /\ req'[r].recs = req[r].recs
        /\ req'[r].todo = req[r].todo
        /\ req[r].op = "put" => req'[r].step = "meta"
        /\ req[r].op # "put" => req'[r].step = "done"
    BY <1>11, InvalidatedFields DEF Invalidate
  <2>2. CASE req[r].op = "put"
    BY <1>3, <2>1, <2>2 DEF Reads
  <2>3. CASE req[r].op # "put"
    <3>1. ~ Reads(r)
      BY <1>11, <2>3 DEF Invalidate, Placed, Reads
    <3>2. ~ HasRead(r)'
      BY <2>1, <3>1 DEF HasRead, Reads
    <3> QED BY <1>1, <1>2, <2>1, <2>3, <3>2, PlainMove DEF Steps
  <2> QED BY <2>2, <2>3
<1> QED BY <1>5, <1>6, <1>7, <1>8, <1>9, <1>10, <1>11

(* The statements on the records, and what a flush reads.                      *)
LEMMA FindMove ==
  ASSUME StructuredTypeOK, NEW r \in Requests, Step(r), Placed(r), FindRow(r) \/ Select(r)
  PROVE  Move(r)
<1>1. /\ req[r].step \in {"row", "rows"} /\ ~ Reads(r) /\ UNCHANGED <<recs, copy>> /\ CopyMove(r)
  BY DEF FindRow, Select, cacheVars, CopyMove
<1>2. ASSUME NEW s \in {"apply", "invalidate"}, NEW S, req' = [req EXCEPT ![r].todo = S, ![r].step = s],
             \/ S \subseteq Unused /\ req[r].op = "insert"
             \/ S \subseteq recs /\ req[r].op \in {"update", "remove"}
      PROVE  Move(r)
  <2>1. /\ req'[r].step = s /\ req'[r].op = req[r].op /\ req'[r].before = req[r].before
        /\ req'[r].recs = req[r].recs /\ req'[r].todo = S
    BY <1>2 DEF StructuredTypeOK
  <2>2. Placed(r)'
    BY <1>1, <1>2, <2>1, FinishedStays DEF Placed, Reads
  <2>3. ReadMove(r) /\ DataStep(r)
    BY <1>1, <1>2, <2>1 DEF ReadMove, HasRead, DataStep
  <2> QED BY <1>1, <1>2, <2>1, <2>2, <2>3 DEF Move
<1>3. CASE FindRow(r)
  <2>1. CASE End(r, "error")
    <3>1. /\ req'[r].step = "done" /\ req'[r].op = req[r].op /\ req'[r].before = req[r].before
          /\ req'[r].recs = req[r].recs /\ req'[r].todo = req[r].todo /\ req'[r].outcome = "error"
      BY <2>1, EndFields DEF Outcomes
    <3> QED BY <1>1, <3>1, PlainMove DEF Steps, HasRead
  <2>2. CASE Goto(r, "rows") /\ req[r].op # "insert"
    BY <1>1, <2>2, GotoFields, PlainMove DEF Steps, HasRead, Placed
  <2>3. ASSUME NEW B \in SUBSET Unused, req[r].op = "insert", req' = [req EXCEPT ![r].step = "apply", ![r].todo = B]
        PROVE  Move(r)
    <3>1. req' = [req EXCEPT ![r].todo = B, ![r].step = "apply"]
      BY <2>3 DEF StructuredTypeOK
    <3> QED BY <1>2, <2>3, <3>1
  <2> QED BY <1>3, <2>1, <2>2, <2>3 DEF FindRow
<1>4. CASE Select(r)
  <2>1. PICK S \in SUBSET recs :
          req' = [req EXCEPT ![r].todo = S, ![r].step = IF S = {} THEN "invalidate" ELSE "apply"]
    BY <1>4 DEF Select
  <2>2. req[r].op \in {"update", "remove"}
    BY <1>1, <1>4 DEF Select, StructuredTypeOK, OpNames, Reads, Placed
  <2> QED BY <1>2, <2>1, <2>2
<1> QED BY <1>3, <1>4

LEMMA FlushReadMove ==
  ASSUME StructuredTypeOK, NEW r \in Requests, Step(r), Placed(r), ReadForFlush(r)
  PROVE  Move(r)
<1>1. /\ req[r].step \in {"flushMeta", "flushCopy"} /\ req[r].op = "deactivate" /\ UNCHANGED <<recs, copy>> /\ CopyMove(r)
      /\ ~ Reads(r)
  BY DEF ReadForFlush, At, cacheVars, CopyMove, Reads
<1>2. PICK s \in {"flushCopy", "flush", "invalidate"} :
        /\ req'[r].step = s /\ req'[r].op = req[r].op /\ req'[r].before = req[r].before
        /\ req'[r].recs \in {req[r].recs, copy.recs} /\ req'[r].todo = req[r].todo
  <2>1. CASE req' = [req EXCEPT ![r].step = "flushCopy", ![r].seen.version = meta.version, ![r].seen.schema = meta.schema]
    BY <2>1 DEF StructuredTypeOK
  <2>2. CASE req' = [req EXCEPT ![r].step = "flush", ![r].recs = copy.recs]
    BY <2>2 DEF StructuredTypeOK
  <2>3. CASE Goto(r, "invalidate")
    BY <2>3, GotoFields
  <2> QED BY <2>1, <2>2, <2>3 DEF ReadForFlush
<1>3. ~ HasRead(r)'
  BY <1>1, <1>2 DEF HasRead, Reads
<1>4. Placed(r)'
  BY <1>1, <1>2, FinishedStays DEF Placed
<1>5. ReadMove(r) /\ DataStep(r)
  BY <1>1, <1>2, <1>3 DEF ReadMove, DataStep, SameData
<1> QED BY <1>1, <1>2, <1>3, <1>4, <1>5 DEF Move

LEMMA ApplyMove ==
  ASSUME StructuredTypeOK, NEW r \in Requests, Step(r), Placed(r), Apply(r)
  PROVE  Move(r)
<1>1. /\ req[r].step = "apply" /\ req[r].op \in {"insert", "update", "remove"} /\ UNCHANGED copy /\ CopyMove(r) /\ ~ Reads(r)
  BY DEF Apply, Placed, cacheVars, CopyMove, Reads
<1>2. CASE End(r, "error") /\ UNCHANGED recs
  <2>1. /\ req'[r].step = "done" /\ req'[r].op = req[r].op /\ req'[r].before = req[r].before
        /\ req'[r].recs = req[r].recs /\ req'[r].todo = req[r].todo /\ req'[r].outcome = "error"
    BY <1>2, EndFields DEF Outcomes
  <2> QED BY <1>1, <1>2, <2>1, PlainMove DEF Steps, HasRead
<1>3. ASSUME NEW x \in req[r].todo,
             req' = [req EXCEPT ![r].todo = @ \ {x}, ![r].recs = @ \cup {x}, ![r].step = AfterApply(r, x)],
             recs' = CASE req[r].op = "insert" -> recs \cup {x}
                       [] req[r].op = "remove" -> recs \ {x}
                       [] OTHER -> recs
      PROVE  Move(r)
  <2>1. AfterApply(r, x) \in {"apply", "write", "count"}
    BY DEF AfterApply
  <2>2. /\ req'[r].step \in {"apply", "write", "count"} /\ req'[r].op = req[r].op /\ req'[r].before = req[r].before
        /\ req'[r].recs = req[r].recs \cup {x} /\ req'[r].todo = req[r].todo \ {x}
    BY <1>3, <2>1 DEF StructuredTypeOK
  <2>3. Inserted(r, x) \/ Removed(r, x) \/ Updated(r, x)
    BY <1>1, <1>3 DEF Inserted, Removed, Updated
  <2>4. Placed(r)'
    BY <1>1, <2>2, FinishedStays DEF Placed
  <2>5. ReadMove(r) /\ DataStep(r)
    BY <2>2, <2>3 DEF ReadMove, HasRead, DataStep
  <2> QED BY <1>1, <2>2, <2>4, <2>5 DEF Move
<1> QED BY <1>2, <1>3 DEF Apply

LEMMA EveryMove ==
  ASSUME StructuredTypeOK, NEW r \in Requests, Step(r), Placed(r)
  PROVE  Move(r)
<1>1. CASE Begin(r)
  BY <1>1, BeginMove
<1>2. CASE ReadMeta(r) \/ ReadCopy(r) \/ TouchCopy(r) \/ CheckExists(r) \/ ReadRow(r) \/ CacheMeta(r) \/ CacheCopy(r)
  BY <1>2, ReadingMove
<1>3. CASE ReadRows(r)
  BY <1>3, RowsMove
<1>4. CASE \/ Compare(r) \/ WriteDocument(r) \/ WriteSchema(r) \/ Drop(r) \/ BumpVersion(r) \/ CountRecords(r)
           \/ SyncCount(r) \/ Flush(r) \/ Clean(r) \/ Invalidate(r)
  BY <1>4, WritingMove
<1>5. CASE FindRow(r) \/ Select(r)
  BY <1>5, FindMove
<1>6. CASE Apply(r)
  BY <1>6, ApplyMove
<1>7. CASE ReadForFlush(r)
  BY <1>7, FlushReadMove
<1> QED BY <1>1, <1>2, <1>3, <1>4, <1>5, <1>6, <1>7 DEF Step

(* Only an invalidation changes whether the request has removed the copy.      *)
LEMMA RemovedStep ==
  ASSUME StructuredTypeOK, NEW r \in Requests, Step(r)
  PROVE  RemovedMove(r)
<1>0. req \in [Requests -> ReqType]
  BY DEF StructuredTypeOK, ReqType
<1>e. \A b \in {"ok", "error"} : End(r, b) => req'[r].removed = req[r].removed
  BY EndFields DEF Outcomes
<1>g. \A s : Goto(r, s) => req'[r].removed = req[r].removed
  BY GotoFields
<1>1. CASE Begin(r)
  BY <1>0, <1>1 DEF Begin, RemovedMove
<1>2. CASE ReadMeta(r) \/ ReadCopy(r) \/ TouchCopy(r) \/ CheckExists(r) \/ ReadRow(r) \/ CacheMeta(r) \/ CacheCopy(r)
  BY <1>0, <1>e, <1>g, <1>2
    DEF ReadMeta, ReadCopy, TouchCopy, CheckExists, Answer, ReadRow, CacheMeta, CacheCopy, RemovedMove, ReqType
<1>3. CASE ReadRows(r)
  <2> DEFINE q == [req[r] EXCEPT !.recs = recs]
  <2>1. /\ q \in ReqType /\ q.removed = req[r].removed
        /\ req' = [req EXCEPT ![r] = IF req[r].op = "activate" THEN [q EXCEPT !.step = "storeMeta"] ELSE Over(q, "ok")]
    BY <1>0, <1>3 DEF ReadRows, StructuredTypeOK, ReqType
  <2> HIDE DEF q
  <2>2. CASE req[r].op = "activate"
    BY <1>0, <2>1, <2>2 DEF RemovedMove, ReqType
  <2>3. CASE req[r].op # "activate"
    BY <1>0, <2>1, <2>3, OverType DEF RemovedMove, Outcomes
  <2> QED BY <2>2, <2>3
<1>4. CASE Compare(r) \/ WriteDocument(r) \/ WriteSchema(r) \/ Drop(r) \/ BumpVersion(r) \/ CountRecords(r) \/ SyncCount(r)
  <2>1. CASE Compare(r) \/ WriteDocument(r) \/ WriteSchema(r) \/ Drop(r) \/ BumpVersion(r) \/ SyncCount(r)
    <3>1. req'[r].removed = req[r].removed
      BY <1>e, <1>g, <2>1 DEF Compare, WriteDocument, WriteSchema, Drop, BumpVersion, SyncCount
    <3> QED BY <3>1 DEF RemovedMove
  <2>2. CASE CountRecords(r)
    BY <1>0, <2>2 DEF CountRecords, RemovedMove, ReqType
  <2> QED BY <1>4, <2>1, <2>2
<1>5. CASE FindRow(r) \/ Select(r)
  <2>1. ASSUME NEW B, NEW s, req' = [req EXCEPT ![r].step = s, ![r].todo = B]
        PROVE  req'[r].removed = req[r].removed
    BY <1>0, <2>1 DEF ReqType
  <2>2. CASE FindRow(r)
    <3>1. req'[r].removed = req[r].removed
      BY <1>e, <1>g, <2>1, <2>2 DEF FindRow
    <3> QED BY <3>1 DEF RemovedMove
  <2>3. CASE Select(r)
    <3>1. PICK S \in SUBSET recs :
                 req' = [req EXCEPT ![r].todo = S, ![r].step = IF S = {} THEN "invalidate" ELSE "apply"]
      BY <2>3 DEF Select
    <3>2. req'[r].removed = req[r].removed
      BY <1>0, <3>1 DEF ReqType
    <3> QED BY <3>2 DEF RemovedMove
  <2> QED BY <1>5, <2>2, <2>3
<1>6. CASE Apply(r)
  <2>1. ASSUME NEW x, NEW s, req' = [req EXCEPT ![r].todo = @ \ {x}, ![r].recs = @ \cup {x}, ![r].step = s]
        PROVE  req'[r].removed = req[r].removed
    BY <1>0, <2>1 DEF ReqType
  <2> QED BY <1>e, <1>6, <2>1 DEF Apply, RemovedMove
<1>7. CASE ReadForFlush(r) \/ Flush(r) \/ Clean(r)
  BY <1>0, <1>g, <1>7 DEF ReadForFlush, Flush, Clean, RemovedMove, ReqType
<1>8. CASE Invalidate(r)
  <2>1. PICK b \in BOOLEAN : Invalidated(r, b) /\ (b => Remove)
    BY <1>8 DEF Invalidate
  <2>2. req'[r].removed => copy' = NoCopy
    BY <2>1, InvalidatedFields DEF Remove
  <2>3. req'[r].step = "done" \/ Reads(r)'
    BY <2>1, InvalidatedFields DEF Reads
  <2> QED BY <2>2, <2>3 DEF RemovedMove
<1> QED BY <1>1, <1>2, <1>3, <1>4, <1>5, <1>6, <1>7, <1>8 DEF Step

LEMMA FlaggedStep ==
  ASSUME StructuredTypeOK, NEW r \in Requests, Step(r), Flagged(r), Move(r), RemovedMove(r)
  PROVE  Flagged(r)'
<1>1. req'[r].step # "none" /\ req[r].step # "done"
  BY DEF Move
<1>2. CASE req'[r].removed = req[r].removed
  <2>1. req[r].removed => req'[r].op = req[r].op /\ Reads(r)
    BY <1>1 DEF Flagged, Move
  <2> QED BY <1>1, <1>2, <2>1 DEF Flagged, Reads
<1>3. CASE req'[r].step = "done" \/ Reads(r)'
  BY <1>1, <1>3 DEF Flagged
<1> QED BY <1>2, <1>3 DEF RemovedMove

(* Records stay where they can be.                                             *)
LEMMA GoneGrows ==
  ASSUME StructuredTypeOK, NEW r \in Requests, Step(r), Placed(r), Move(r), row'.exists
  PROVE  Gone \subseteq Gone'
<1> SUFFICES ASSUME NEW x \in RecordIds, NEW d \in Requests, req[d].op = "remove", x \in req[d].recs
             PROVE  \E e \in Requests : req'[e].op = "remove" /\ x \in req'[e].recs
  BY DEF Gone
<1>1. CASE d # r
  BY <1>1, OthersStay
<1>2. CASE d = r
  <2>1. req[r].step # "none"
    BY <1>2 DEF Placed
  <2>2. req'[r].op = "remove" /\ x \in req'[r].recs
    BY <1>2, <2>1 DEF Move, DataStep, SameData
  <2> QED BY <2>2
<1> QED BY <1>1, <1>2

LEMMA GoneSame ==
  ASSUME StructuredTypeOK, NEW r \in Requests, Step(r), Placed(r), Move(r),
         SameData(r) \/ req[r].op # "remove" \/ req'[r].recs = req[r].recs, ~ SameData(r) => req'[r].op = req[r].op
  PROVE  Gone' = Gone
<1>1. \A d \in Requests : d # r => req'[d] = req[d]
  BY OthersStay
<1>2. req'[r].op = req[r].op \/ (req[r].recs = {} /\ req'[r].recs = {})
  BY DEF Move, Placed, SameData
<1>3. \A x : req'[r].op = "remove" /\ x \in req'[r].recs <=> req[r].op = "remove" /\ x \in req[r].recs
  BY <1>2 DEF SameData
<1>4. \A x : (\E d \in Requests : req'[d].op = "remove" /\ x \in req'[d].recs)
             <=> (\E d \in Requests : req[d].op = "remove" /\ x \in req[d].recs)
  BY <1>1, <1>3
<1> QED BY <1>4 DEF Gone

LEMMA UnusedIsNew ==
  ASSUME NEW x \in Unused
  PROVE  x \notin recs /\ x \notin Gone /\ \A q \in Requests : x \notin req[q].todo
<1>1. \A q \in Requests : x \notin req[q].todo \cup req[q].recs
  BY DEF Unused
<1> QED BY <1>1 DEF Unused, Gone

(* What a step that changes neither the records nor the deleted ones owes.     *)
LEMMA KnownKept ==
  ASSUME Known, NEW r \in Requests, \A d \in Requests : d # r => req'[d] = req[d], CopyMove(r),
         recs' = recs, Gone' = Gone, req'[r].recs \subseteq recs \cup Gone,
         req'[r].op # "insert" => req'[r].todo \subseteq recs \cup Gone,
         req'[r].op = "insert" => \A x \in req'[r].todo : /\ x \notin recs \cup Gone
                                                          /\ \A q \in Requests : q # r /\ req[q].op = "insert" => x \notin req[q].todo
  PROVE  Known'
<1>1. copy'.recs \subseteq recs \cup Gone
  BY DEF CopyMove, NoCopy, Known
<1>2. recs \cap Gone = {}
  BY DEF Known
<1>3. \A q \in Requests : req'[q].recs \subseteq recs \cup Gone
  BY DEF Known
<1>4. \A q \in Requests : req'[q].op # "insert" => req'[q].todo \subseteq recs \cup Gone
  BY DEF Known
<1>5. \A q \in Requests : req'[q].op = "insert" => req'[q].todo \cap (recs \cup Gone) = {}
  <2> SUFFICES ASSUME NEW q \in Requests, req'[q].op = "insert" PROVE req'[q].todo \cap (recs \cup Gone) = {}
    OBVIOUS
  <2> QED BY DEF Known
<1>6. \A q, p \in Requests : q # p /\ req'[q].op = "insert" /\ req'[p].op = "insert" => req'[q].todo \cap req'[p].todo = {}
  <2> SUFFICES ASSUME NEW q \in Requests, NEW p \in Requests, q # p, req'[q].op = "insert", req'[p].op = "insert",
                      NEW x, x \in req'[q].todo, x \in req'[p].todo
               PROVE  FALSE
    OBVIOUS
  <2>1. CASE q # r /\ p # r
    BY <2>1 DEF Known
  <2>2. CASE q = r \/ p = r
    BY <2>2
  <2> QED BY <2>1, <2>2
<1> QED BY <1>1, <1>2, <1>3, <1>4, <1>5, <1>6 DEF Known

LEMMA KnownApply ==
  ASSUME StructuredTypeOK, Known, NEW r \in Requests, \A d \in Requests : d # r => req'[d] = req[d], CopyMove(r),
         req'[r].op = req[r].op, NEW x \in req[r].todo, req'[r].todo = req[r].todo \ {x}, req'[r].recs = req[r].recs \cup {x},
         Inserted(r, x) \/ Removed(r, x) \/ Updated(r, x)
  PROVE  Known'
<1>1. x \in RecordIds
  BY DEF StructuredTypeOK
<1>2. CASE Updated(r, x)
  <2>1. Gone' = Gone
    BY <1>2 DEF Gone, Updated
  <2>2. x \in recs \cup Gone /\ req[r].recs \subseteq recs \cup Gone /\ req[r].todo \subseteq recs \cup Gone
    BY <1>2 DEF Updated, Known
  <2> QED BY <1>2, <2>1, <2>2, KnownKept DEF Updated
<1>3. CASE Inserted(r, x)
  <2>1. Gone' = Gone
    BY <1>3 DEF Gone, Inserted
  <2>2. recs' = recs \cup {x} /\ req[r].op = "insert" /\ x \notin recs \cup Gone
    BY <1>3 DEF Inserted, Known
  <2>3. recs' \cap Gone' = {}
    BY <2>1, <2>2 DEF Known
  <2>4. copy'.recs \subseteq recs' \cup Gone'
    BY <2>1, <2>2 DEF CopyMove, NoCopy, Known
  <2>5. \A q \in Requests : req'[q].recs \subseteq recs' \cup Gone'
    BY <2>1, <2>2 DEF Known
  <2>6. \A q \in Requests : req'[q].op # "insert" => req'[q].todo \subseteq recs' \cup Gone'
    BY <2>1, <2>2 DEF Known
  <2>7. \A q \in Requests : req'[q].op = "insert" => x \notin req'[q].todo
    BY <2>2 DEF Known
  <2>8. \A q \in Requests : req'[q].op = "insert" => req'[q].todo \subseteq req[q].todo /\ req[q].op = "insert"
    BY <2>2
  <2>9. \A q \in Requests : req'[q].op = "insert" => req'[q].todo \cap (recs' \cup Gone') = {}
    BY <2>1, <2>2, <2>7, <2>8 DEF Known
  <2>10. \A q, p \in Requests : q # p /\ req'[q].op = "insert" /\ req'[p].op = "insert" => req'[q].todo \cap req'[p].todo = {}
    BY <2>8 DEF Known
  <2> QED BY <2>3, <2>4, <2>5, <2>6, <2>9, <2>10 DEF Known
<1>4. CASE Removed(r, x)
  <2>1. Gone' = Gone \cup {x}
    <3>1. \A y : (\E d \in Requests : req'[d].op = "remove" /\ y \in req'[d].recs)
                 <=> y = x \/ (\E d \in Requests : req[d].op = "remove" /\ y \in req[d].recs)
      BY <1>4 DEF Removed
    <3> QED BY <1>1, <3>1 DEF Gone
  <2>2. recs' = recs \ {x} /\ req[r].op = "remove" /\ x \in recs \cup Gone
    BY <1>4 DEF Removed, Known
  <2>3. recs' \cup Gone' = recs \cup Gone /\ recs' \cap Gone' = {}
    BY <2>1, <2>2 DEF Known
  <2>4. copy'.recs \subseteq recs \cup Gone
    BY DEF CopyMove, NoCopy, Known
  <2>5. \A q \in Requests : req'[q].recs \subseteq recs \cup Gone
    BY <2>2 DEF Known
  <2>6. \A q \in Requests : req'[q].op # "insert" => req'[q].todo \subseteq recs \cup Gone
    BY <2>2 DEF Known
  <2>7. \A q \in Requests : req'[q].op = "insert" => q # r
    BY <2>2
  <2>8. \A q \in Requests : req'[q].op = "insert" => req'[q].todo \cap (recs \cup Gone) = {}
    BY <2>7 DEF Known
  <2>9. \A q, p \in Requests : q # p /\ req'[q].op = "insert" /\ req'[p].op = "insert" => req'[q].todo \cap req'[p].todo = {}
    BY <2>7 DEF Known
  <2> QED BY <2>3, <2>4, <2>5, <2>6, <2>8, <2>9 DEF Known
<1> QED BY <1>2, <1>3, <1>4

LEMMA KnownStep ==
  ASSUME StructuredTypeOK, Known, NEW r \in Requests, Step(r), Placed(r), Move(r), row'.exists
  PROVE  Known'
<1>1. (\A d \in Requests : d # r => req'[d] = req[d]) /\ CopyMove(r)
  BY OthersStay DEF Move
<1>2. CASE recs' = recs /\ SameData(r)
  <2>1. Gone' = Gone
    BY <1>2, GoneSame
  <2>2. req'[r].op = req[r].op \/ req[r].todo = {}
    BY DEF Move, Placed
  <2> QED BY <1>1, <1>2, <2>1, <2>2, KnownKept DEF SameData, Known
<1>3. ASSUME ~ SameData(r) PROVE req'[r].op = req[r].op
  BY <1>3 DEF Move
<1>4. CASE /\ ~ SameData(r) /\ recs' = recs /\ req'[r].todo = req[r].todo /\ req[r].op # "remove"
           /\ req'[r].recs = copy.recs \/ req'[r].recs = recs
  <2>1. Gone' = Gone
    BY <1>3, <1>4, GoneSame
  <2> QED BY <1>1, <1>3, <1>4, <2>1, KnownKept DEF Known
<1>5. CASE ~ SameData(r) /\ recs' = recs /\ req'[r].recs = req[r].recs /\ req[r].op = "insert" /\ req'[r].todo \subseteq Unused
  <2>1. Gone' = Gone
    BY <1>3, <1>5, GoneSame
  <2> QED BY <1>1, <1>3, <1>5, <2>1, KnownKept, UnusedIsNew DEF Known
<1>6. CASE ~ SameData(r) /\ recs' = recs /\ req'[r].recs = req[r].recs /\ req[r].op # "insert" /\ req'[r].todo \subseteq recs
  <2>1. Gone' = Gone
    BY <1>3, <1>6, GoneSame
  <2> QED BY <1>1, <1>3, <1>6, <2>1, KnownKept DEF Known
<1>7. ASSUME ~ SameData(r), NEW x \in req[r].todo,
             req'[r].todo = req[r].todo \ {x}, req'[r].recs = req[r].recs \cup {x},
             Inserted(r, x) \/ Removed(r, x) \/ Updated(r, x)
      PROVE  Known'
  BY <1>1, <1>3, <1>7, KnownApply
<1>8. CASE SameData(r) /\ recs' # recs
  <2>1. PICK x \in req[r].todo : req'[r].todo = req[r].todo \ {x}
    BY <1>8 DEF Move, DataStep
  <2> QED BY <1>8, <2>1 DEF SameData
<1>9. DataStep(r)
  BY DEF Move
<1> QED BY <1>2, <1>4, <1>5, <1>6, <1>7, <1>8, <1>9 DEF DataStep

------------------------------------------------------------------------------
(* A write that counts now counted before, unless the copy was just removed.   *)
LEMMA CountsBefore ==
  ASSUME StructuredTypeOK, NEW r \in Requests, Step(r), Placed(r), Flagged(r), Move(r), RemovedMove(r),
         NEW v \in Requests, NEW w \in Requests, Placed(v), Counts(v, w)'
  PROVE  /\ w # r \/ v = r
         /\ v # r \/ copy' # NoCopy => Counts(v, w) /\ w # r
<1>1. \A a \in Requests : a # r => req'[a] = req[a]
  BY OthersStay
<1>2. req[r].step # "done"
  BY DEF Move
<1>3. ASSUME v # r PROVE Counts(v, w) /\ w # r
  <2>1. req'[v] = req[v]
    BY <1>1, <1>3
  <2>2. w # r
    BY <1>2, <1>3, <2>1 DEF Counts, Placed, Finished
  <2>3. ~ Filled(v)
    <3> SUFFICES ASSUME NEW a \in Requests, req[a].op = "activate", req[a].step # "none", Overlap(a, v)
                 PROVE  Filled(v)'
      BY DEF Filled, Counts
    <3>1. req'[a].op = "activate" /\ req'[a].step # "none" /\ req'[a].before = req[a].before
      BY <1>1 DEF Move
    <3> QED BY <2>1, <3>1 DEF Filled, Overlap
  <2> QED BY <1>1, <2>1, <2>2, <2>3 DEF Counts
<1>4. ASSUME v = r, copy' # NoCopy PROVE Counts(v, w) /\ w # r
  <2>1. req[r].removed /\ req[r].step # "none" /\ Reads(r)
    BY <1>2, <1>4 DEF Counts, RemovedMove, Flagged
  <2>2. req'[r].op = req[r].op /\ req'[r].before = req[r].before
    BY <2>1 DEF Move
  <2>3. w # r
    BY <1>4, <2>1, <2>2 DEF Counts, Reads
  <2>4. ~ Filled(r)
    <3> SUFFICES ASSUME NEW a \in Requests, req[a].op = "activate", req[a].step # "none", Overlap(a, r)
                 PROVE  Filled(r)'
      BY <1>4 DEF Filled, Counts
    <3>1. req'[a].op = "activate" /\ req'[a].step # "none" /\ req'[a].before = req[a].before
      BY <1>1 DEF Move
    <3> QED BY <2>2, <3>1 DEF Filled, Overlap
  <2> QED BY <1>1, <1>4, <2>1, <2>2, <2>3, <2>4 DEF Counts
<1> QED BY <1>3, <1>4

(* What is in the document follows every write.                                *)
LEMMA DocumentFollows ==
  ASSUME StructuredTypeOK, Known, NEW w \in Requests
  PROVE  Follows(recs, w)
<1>1. req[w].op = "remove" => req[w].recs \subseteq Gone
  BY DEF StructuredTypeOK, Gone
<1> QED BY <1>1 DEF Known, Follows

(* The copy: it is gone when a write has just ended, and an activation that    *)
(* stores one now and did not cross the write began after it.                  *)
LEMMA CopyStep ==
  ASSUME StructuredTypeOK, ReadInv, row.exists, NEW r \in Requests, Step(r), Move(r), row'.exists
  PROVE  CopyFollows'
<1>1. /\ Placed(r) /\ Flagged(r) /\ (\A w \in Requests : Placed(w)) /\ CopyFollows /\ ReadFollows(r) /\ CopyMove(r)
      /\ RemovedMove(r)
  BY RemovedStep DEF ReadInv, Move
<1> SUFFICES ASSUME copy'.held, NEW v \in Requests, NEW w \in Requests, Counts(v, w)' PROVE Follows(copy.recs, w)'
  BY DEF CopyFollows
<1>2. copy' # NoCopy
  BY DEF NoCopy
<1>3. w # r /\ Counts(v, w)
  BY <1>1, <1>2, CountsBefore
<1>4. Counts(v, w)
  BY <1>3
<1>5. Follows(copy'.recs, w)
  <2>1. CASE copy' = copy
    BY <1>1, <1>4, <2>1 DEF CopyFollows
  <2>2. CASE req[r].step = "storeCopy" /\ copy' = [held |-> TRUE, recs |-> req[r].recs]
    <3>1. req[r].op = "activate" /\ HasRead(r)
      BY <1>1, <2>2 DEF Placed, HasRead, Reads
    <3>2. ~ Overlap(r, v)
      BY <1>4, <2>2, <3>1 DEF Counts, Filled
    <3>3. r \notin req[v].before
      BY <1>1, <2>2 DEF Placed, Finished
    <3>4. v \in req[r].before
      BY <3>2, <3>3 DEF Overlap
    <3> QED BY <1>1, <1>4, <2>2, <3>1, <3>4 DEF ReadFollows
  <2> QED BY <1>1, <1>2, <2>1, <2>2 DEF CopyMove
<1>6. /\ req'[w] = req[w]
      /\ req[w].op = "insert" => req[w].recs \subseteq copy'.recs \cup Gone'
      /\ req[w].op = "remove" => req[w].recs \cap copy'.recs = {}
  <2>1. Gone \subseteq Gone'
    BY <1>1, GoneGrows
  <2>2. req'[w] = req[w]
    BY <1>3, OthersStay
  <2> QED BY <1>5, <2>1, <2>2 DEF Follows
<1> QED BY <1>6 DEF Follows

(* What a request has read: from the document, or from the copy.               *)
LEMMA ReadFollowStep ==
  ASSUME StructuredTypeOK, ReadInv, row.exists, NEW r \in Requests, Step(r), Move(r), row'.exists, NEW g \in Requests
  PROVE  ReadFollows(g)'
<1>1. /\ (\A w \in Requests : Placed(w)) /\ CopyFollows /\ ReadFollows(g) /\ Known /\ ReadMove(r)
      /\ Flagged(r) /\ RemovedMove(r)
  BY RemovedStep DEF ReadInv, Move
<1> SUFFICES ASSUME HasRead(g)', NEW v \in req'[g].before, NEW w \in Requests, Counts(v, w)' PROVE Follows(req[g].recs, w)'
  BY DEF ReadFollows
<1>2. g # r => req'[g] = req[g]
  BY OthersStay
<1>3. HasRead(g)' => req'[g].step \notin {"none"}
  BY DEF HasRead
<1>4. v \in Requests /\ v # r
  <2>1. CASE g # r
    BY <1>1, <1>2, <2>1 DEF Placed, Finished, Move
  <2>2. CASE g = r
    <3>1. req'[r].before = Finished \/ req'[r].before = req[r].before
      BY DEF Move
    <3> QED BY <1>1, <2>2, <3>1 DEF Placed, Finished, Move
  <2> QED BY <2>1, <2>2
<1>5. Counts(v, w) /\ w # r
  BY <1>1, <1>4, CountsBefore
<1>6. Follows(req'[g].recs, w)
  <2>1. CASE g # r
    <3>1. HasRead(g) /\ v \in req[g].before /\ req'[g].recs = req[g].recs
      BY <1>2, <2>1 DEF HasRead, Reads
    <3> QED BY <1>1, <1>5, <3>1 DEF ReadFollows
  <2>2. CASE g = r /\ HasRead(r) /\ req'[r].recs = req[r].recs
    <3>1. v \in req[r].before
      BY <2>2 DEF Move, HasRead
    <3> QED BY <1>1, <1>5, <2>2, <3>1 DEF ReadFollows
  <2>3. CASE g = r /\ copy.held /\ req'[r].recs = copy.recs
    BY <1>1, <1>4, <1>5, <2>3 DEF CopyFollows
  <2>4. CASE g = r /\ req'[r].recs = recs
    BY <1>1, <1>4, <2>4, DocumentFollows
  <2> QED BY <1>1, <2>1, <2>2, <2>3, <2>4 DEF ReadMove
<1>7. /\ req'[w] = req[w]
      /\ req[w].op = "insert" => req[w].recs \subseteq req'[g].recs \cup Gone'
      /\ req[w].op = "remove" => req[w].recs \cap req'[g].recs = {}
  <2>1. Gone \subseteq Gone'
    BY <1>1, GoneGrows
  <2>2. req'[w] = req[w]
    BY <1>5, OthersStay
  <2> QED BY <1>6, <2>1, <2>2 DEF Follows
<1> QED BY <1>7 DEF Follows

LEMMA ReadInvStep ==
  ASSUME StructuredTypeOK, ReadInv, NEW r \in Requests, Step(r)
  PROVE  ReadInv'
<1>1. (\A q \in Requests : Placed(q)) /\ Move(r) /\ (row'.exists => row.exists)
  BY EveryMove, RowStep DEF ReadInv
<1>2. ASSUME NEW q \in Requests PROVE Placed(q)' /\ Flagged(q)'
  <2>1. CASE q = r
    BY <1>1, <2>1, RemovedStep, FlaggedStep DEF Move, ReadInv
  <2>2. CASE q # r
    <3>1. req'[q] = req[q] /\ Finished \subseteq Finished'
      BY <1>1, <2>2, OthersStay, FinishedStays DEF Move
    <3>2. Flagged(q)
      BY DEF ReadInv
    <3> QED BY <1>1, <3>1, <3>2 DEF Placed, Flagged, Reads
  <2> QED BY <2>1, <2>2
<1>3. ASSUME row'.exists PROVE Known' /\ CopyFollows' /\ \A g \in Requests : ReadFollows(g)'
  <2>1. row.exists /\ Known
    BY <1>1, <1>3 DEF ReadInv
  <2> QED BY <1>1, <1>3, <2>1, KnownStep, CopyStep, ReadFollowStep
<1> QED BY <1>2, <1>3 DEF ReadInv

LEMMA ReadInvIdle ==
  ASSUME ReadInv, UNCHANGED <<row, recs, req>>, UNCHANGED copy \/ copy' = NoCopy
  PROVE  ReadInv'
<1>1. Gone' = Gone /\ Finished' = Finished
  BY DEF Gone, Finished
<1>2. \A q \in Requests : Placed(q)' /\ Flagged(q)'
  BY <1>1 DEF ReadInv, Placed, Flagged, Reads
<1>3. ASSUME row.exists PROVE Known'
  <2>1. Known /\ copy'.recs \subseteq copy.recs
    BY <1>3 DEF ReadInv, NoCopy
  <2> QED BY <1>1, <2>1 DEF Known
<1>4. \A v, w \in Requests : Counts(v, w)' <=> Counts(v, w)
  BY DEF Counts, Filled, Overlap
<1>5. ASSUME row.exists PROVE CopyFollows'
  BY <1>1, <1>4, <1>5 DEF ReadInv, CopyFollows, Follows, NoCopy
<1>6. ASSUME row.exists, NEW g \in Requests PROVE ReadFollows(g)'
  <2>1. HasRead(g)' <=> HasRead(g)
    BY DEF HasRead, Reads
  <2>2. req[g].before \subseteq Requests
    BY DEF ReadInv, Placed, Finished
  <2> QED BY <1>1, <1>4, <1>6, <2>1, <2>2 DEF ReadInv, ReadFollows, Follows
<1> QED BY <1>2, <1>3, <1>5, <1>6 DEF ReadInv

LEMMA ReadInvInit == Init => ReadInv
<1> SUFFICES ASSUME Init PROVE ReadInv
  OBVIOUS
<1>1. \A q \in Requests : req[q] = NoRequest
  BY DEF Init
<1>2. \A q \in Requests : /\ req[q].step = "none" /\ req[q].recs = {} /\ req[q].todo = {} /\ req[q].before = {}
                           /\ req[q].op = "get" /\ req[q].removed = FALSE
  BY <1>1 DEF NoRequest
<1>3. \A q \in Requests : Placed(q) /\ Flagged(q) /\ (\A w \in Requests : ~ Counts(q, w)) /\ ~ HasRead(q)
  BY <1>2 DEF Placed, Flagged, Counts, HasRead
<1>4. Gone = {} /\ copy.recs \subseteq recs
  BY <1>2 DEF Gone, Init, NoCopy
<1>5. Known
  BY <1>2, <1>4 DEF Known
<1> QED BY <1>3, <1>5 DEF ReadInv, CopyFollows, ReadFollows

(* A read of a document sees the writes that were over when it began once an   *)
(* invalidation worked, their own or that of a later request, which no         *)
(* activation of the cache crossed.                                            *)
THEOREM FinishedWritesAreSeen == Spec => []ReadsSeeFinishedWrites
<1>1. StructuredTypeOK /\ ReadInv /\ [Next]_vars => ReadInv'
  <2> SUFFICES ASSUME StructuredTypeOK, ReadInv, [Next]_vars PROVE ReadInv'
    OBVIOUS
  <2>1. CASE Expiry
    BY <2>1, ReadInvIdle DEF Expiry, docVars, ExpireMeta, ExpireCopy
  <2>2. CASE UNCHANGED vars
    BY <2>2, ReadInvIdle DEF vars, docVars, cacheVars
  <2>3. ASSUME NEW r \in Requests, Step(r) PROVE ReadInv'
    BY <2>3, ReadInvStep
  <2> QED BY <2>1, <2>2, <2>3 DEF Next
<1>2. ReadInv => ReadsSeeFinishedWrites
  <2> SUFFICES ASSUME ReadInv, row.exists, NEW g \in Requests, Answered(g), NEW w \in req[g].before, Cleared(w, g)
               PROVE  /\ Wrote(w, "insert") => req[w].recs \subseteq req[g].recs \cup UNION {Selected(d) : d \in Requests}
                      /\ Wrote(w, "remove") => req[w].recs \cap req[g].recs = {}
    BY DEF ReadsSeeFinishedWrites
  <2>1. HasRead(g) /\ ReadFollows(g) /\ w \in Requests
    BY DEF Answered, HasRead, Reads, ReadInv, Placed, Finished
  <2>0. PICK v \in req[g].before : req[v].removed /\ (v = w \/ w \in req[v].before) /\ ~ Filled(v)
    BY DEF Cleared
  <2>2. Wrote(w, "insert") \/ Wrote(w, "remove") => Counts(v, w) /\ Follows(req[g].recs, w)
    BY <2>0, <2>1 DEF Wrote, Counts, ReadFollows
  <2>3. \A x \in Gone : x \in UNION {Selected(d) : d \in Requests}
    <3> SUFFICES ASSUME NEW d \in Requests, req[d].op = "remove", NEW x \in req[d].recs
                 PROVE  x \in UNION {Selected(e) : e \in Requests}
      BY DEF Gone
    <3>1. x \in Selected(d)
      BY DEF Selected
    <3> QED BY <3>1
  <2> QED BY <2>2, <2>3 DEF Wrote, Follows
<1> QED BY <1>1, <1>2, ReadInvInit, StructuredTypeCorrect, PTL DEF Spec
==============================================================================
