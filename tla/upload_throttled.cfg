SPECIFICATION Spec
CONSTANTS
  Uploads = {h1, h2}
  Keys = {k1}
  NoObject = NoObject
  MaxParts = 2
  MaxWrites = 1
  MaxFileSizes = {0, 1}
  MaxFaults = 1
INVARIANTS AcknowledgedIsStored
