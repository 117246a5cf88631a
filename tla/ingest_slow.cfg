SPECIFICATION Spec
INVARIANT RetryBound
SYMMETRY WorkerSymmetry
CONSTANTS
  f1 = f1  f2 = f2  f3 = f3
  w1 = w1  w2 = w2
  h1 = h1  h2 = h2
  Files <- OneFile
  Workers <- TwoWorkers
  Hash <- OneContent
  Kind <- OneDoc
  NoText <- Nothing
  Shared <- Nothing
  BypassRLS = TRUE
  Faults <- SlowAndErrors
  Triggered <- Nothing
  ForceUploads <- Unforced
  Reprocesses <- Nothing
  MaxReprocess = 0
  MaxCancels = 0
  Deletable <- Nothing
  MaxLen = 20
  MaxLog = 12
  MaxRetries = 1
  HardCap = 2
  MaxDeliver = 1
  MaxCrashes = 0
