SPECIFICATION Spec
INVARIANT NoFileForgotten
INVARIANT NoResurrection
CONSTANTS
  f1 = f1  f2 = f2  f3 = f3
  w1 = w1  w2 = w2
  h1 = h1  h2 = h2
  Files <- OneFile
  Workers <- OneWorker
  Hash <- OneContent
  Kind <- OnePdf
  NoText <- ThisContent
  Shared <- Nothing
  BypassRLS = FALSE
  Faults <- MilvusAndErrors
  Triggered <- Nothing
  ForceUploads <- Unforced
  Reprocesses <- PartialOrPass3
  MaxReprocess = 1
  MaxCancels = 1
  Deletable <- OneFile
  MaxLen = 20
  MaxLog = 12
  MaxRetries = 1
  HardCap = 3
  MaxDeliver = 2
  MaxCrashes = 0
