SPECIFICATION Spec
INVARIANT StructuredTypeOK
INVARIANT DroppedIsGone
INVARIANT NothingLeftOfDropped
INVARIANT ReadsSeeFinishedWrites
CONSTANTS
  r1 = r1  r2 = r2  r3 = r3
  x1 = x1  x2 = x2
  s1 = s1
  Requests <- ThreeRequests
  RecordIds <- OneRecord
  Schemas <- OneSchema
  Ops <- AllOps
  MaxActive = 2
  RedisFails = TRUE
SYMMETRY Symmetry
CHECK_DEADLOCK FALSE
PROPERTY VersionGrows
