------------------------------- MODULE MCIngest -------------------------------
(* Values of the constants of Ingest for TLC.                                  *)
EXTENDS IngestProperties, TLC

CONSTANTS f1, f2, f3, w1, w2, h1, h2

OneFile    == {f1}
TwoFiles   == {f1, f2}
ThreeFiles == {f1, f2, f3}
OneWorker  == {w1}
TwoWorkers == {w1, w2}
Nothing    == {}
SecondFile == {f2}

OneDoc  == f1 :> "doc"
OnePdf  == f1 :> "pdf"
TwoDocs == f1 :> "doc" @@ f2 :> "doc"
ThreeDocs   == f1 :> "doc" @@ f2 :> "doc" @@ f3 :> "doc"
PdfAndMedia == f1 :> "pdf" @@ f2 :> "media"

OneContent  == f1 :> h1
SameContent == f1 :> h1 @@ f2 :> h1
OwnContents  == f1 :> h1 @@ f2 :> h2
SameAndOther == f1 :> h1 @@ f2 :> h1 @@ f3 :> h2
OtherContent == {h2}
ThisContent  == {h1}

Unforced == {FALSE}
Either   == BOOLEAN

ErrorsOnly      == {"error"}
CrashAndErrors  == {"crash", "error"}
SlowAndErrors   == {"slow", "error"}
MilvusAndErrors == {"milvus", "error"}
Outages         == {"redis", "db", "markdown"}

(* Requests for a partial run over existing chunks, and for pass 3 alone.      *)
PartialOrPass3 ==
  [start : {"embedding", "entity_extraction"}, pass : {1}, force : {FALSE}]
  \cup {[start |-> "parsing", pass |-> 3, force |-> TRUE]}

(* Workers are interchangeable: sound for the runs that check safety only.     *)
WorkerSymmetry == Permutations(Workers)
==============================================================================
