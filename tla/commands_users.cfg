SPECIFICATION HSpec
CONSTANTS
  Sessions <- Users
  Backends <- TwoBackends
  NoBackend = NoBackend
  Buckets <- TwoBuckets
  BucketOf <- OwnBucket
  VFS <- UserVFS
  Perms <- UserAccess
  Contents <- Data
  Empty = "empty"
  Requests <- UserRequests
  InitialStores <- UserStores
  PageSize = 1
  BatchSize = 2
  PerKeyErrors = TRUE
  MaxCommands = 3
  MaxFaults = 1
INVARIANTS WorkFitsCommand ContentsHaveNames
PROPERTIES ConfinedToGrant UntouchedIsMoved
