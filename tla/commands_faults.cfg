SPECIFICATION HFairSpec
CONSTANTS
  Sessions <- OneSession
  Backends <- TwoBackends
  NoBackend = NoBackend
  Buckets <- TwoBuckets
  BucketOf <- OwnBucket
  VFS <- EverythingVFS
  Perms <- AllAccess
  Contents <- Data
  Empty = "empty"
  Requests <- ApartRequests
  InitialStores <- TreeStores
  PageSize = 2
  BatchSize = 2
  PerKeyErrors = FALSE
  MaxCommands = 2
  MaxFaults = 2
INVARIANTS TypeOK RemovedIsGone
PROPERTIES RenameKeepsContent Answered ImplementsNamespace
