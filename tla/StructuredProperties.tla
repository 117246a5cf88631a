------------------------- MODULE StructuredProperties -------------------------
(* What the requests on a structured data document owe one another.            *)
EXTENDS StructuredData

Answered(r) == req[r].op = "get" /\ req[r].step = "done" /\ req[r].outcome = "ok"

(* A document that get_document returns existed when the request began,        *)
(* although the cached copy of a deleted one may remain, or be stored again by *)
(* an activation: the existence check follows the reading of the copy.         *)
DroppedIsGone == \A r \in Requests : Answered(r) => req[r].seen.exists

(* The records of a deleted document go with it, and no insert, update or sync *)
(* of a request that was under way brings anything back.                       *)
NothingLeftOfDropped == ~ row.exists => recs = {}

(* Two requests overlap if neither had finished before the other began.        *)
Overlap(a, b) == a \notin req[b].before /\ b \notin req[a].before
Filled(w) == \E a \in Requests : req[a].op = "activate" /\ req[a].step # "none" /\ Overlap(a, w)
Wrote(w, op) == req[w].op = op /\ req[w].step = "done" /\ req[w].outcome = "ok"

(* An invalidation that worked, of the write's own request or of one that      *)
(* began later, was over before the read began, and no activation of the cache *)
(* crossed it.                                                                 *)
Cleared(w, g) ==
  \E v \in req[g].before : req[v].removed /\ (v = w \/ w \in req[v].before) /\ ~ Filled(v)

Selected(d) == IF req[d].op = "remove" THEN req[d].todo \cup req[d].recs ELSE {}

(* A read of a document that is still there sees the writes cleared before it  *)
(* began: the records of an insert, unless a delete selected them, and not     *)
(* those of a delete.  Two kinds of write the code answers with success are    *)
(* outside: one whose invalidation failed in Redis and was not made good by a  *)
(* later one, and one an activation overlapped with, which may store what it   *)
(* had read before; reads then answer the stale copy until it expires.         *)
ReadsSeeFinishedWrites ==
  row.exists => \A g \in Requests : Answered(g) =>
    \A w \in req[g].before : Cleared(w, g) =>
      /\ Wrote(w, "insert") =>
           req[w].recs \subseteq req[g].recs \cup UNION {Selected(d) : d \in Requests}
      /\ Wrote(w, "remove") => req[w].recs \cap req[g].recs = {}

(* data_version only grows, so that a version names one state of the document, *)
(* but for a flush.                                                            *)
VersionGrows ==
  [][row'.version < row.version => \E r \in Requests : At(r, "deactivate", "flush")]_vars
==============================================================================
