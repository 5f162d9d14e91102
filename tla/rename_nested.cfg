SPECIFICATION Spec
CONSTANTS
  Sessions <- OneSession
  Backends <- TwoBackends
  NoBackend = NoBackend
  Buckets <- TwoBuckets
  BucketOf <- OwnBucket
  VFS <- EverythingVFS
  Perms <- AllAccess
  Contents <- Data
  Empty = "empty"
  Requests <- NestedRequests
  InitialStores <- TreeStores
  PageSize = 10
  BatchSize = 2
  PerKeyErrors = FALSE
  MaxCommands = 1
  MaxFaults = 0
PROPERTIES RenameKeepsContent
