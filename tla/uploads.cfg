SPECIFICATION FairSpec
CONSTANTS
  Uploads = {h1, h2}
  Keys = {k1}
  NoObject = NoObject
  MaxParts = 2
  MaxWrites = 2
  MaxFileSizes = {0, 1}
  MaxFaults = 1
INVARIANTS TypeOK StoredAreWrites StoredWithinLimit ClosedIsStored
PROPERTIES CloseIsAnswered
