SPECIFICATION Spec
INVARIANT TypeOK
INVARIANT NoResurrection
INVARIANT CompletedIsSearchable
CONSTANTS
  f1 = f1  f2 = f2  f3 = f3
  w1 = w1  w2 = w2
  h1 = h1  h2 = h2
  Files <- ThreeFiles
  Workers <- OneWorker
  Hash <- SameAndOther
  Kind <- ThreeDocs
  NoText <- OtherContent
  Shared <- Nothing
  BypassRLS = TRUE
  Faults <- Outages
  Triggered <- SecondFile
  ForceUploads <- Either
  Reprocesses <- Nothing
  MaxReprocess = 0
  MaxCancels = 0
  Deletable <- Nothing
  MaxLen = 1
  MaxLog = 2
  MaxRetries = 1
  HardCap = 3
  MaxDeliver = 2
  MaxCrashes = 0
