----------------------------- MODULE MCStructured -----------------------------
(* Values of the constants of StructuredData for TLC.                          *)
EXTENDS StructuredProperties, TLC

CONSTANTS r1, r2, r3, x1, x2, s1

ThreeRequests == {r1, r2, r3}
OneRecord     == {x1}
OneSchema     == {s1}

AllOps     == OpNames

(* Requests are interchangeable, and so are records: safety only.              *)
Symmetry == Permutations(Requests) \cup Permutations(RecordIds)
==============================================================================
