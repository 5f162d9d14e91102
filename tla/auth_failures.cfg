SPECIFICATION Spec
CONSTANTS
  Remotes = {r1}
  MaxAttempts = 4
  Window = 2
  BlockDuration = 1
  MaxTrackers = 2
  MaxTime = 2
  MaxFailures = 5
  MaxSaves = 1
INVARIANTS TypeOK BlockedIsDeserved SavedBlocksHold
PROPERTIES BlockIsKept
CHECK_DEADLOCK FALSE
