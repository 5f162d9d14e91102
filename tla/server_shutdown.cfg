SPECIFICATION FairSpec
CONSTANTS
  Users <- TwoUsers
  Conns = {c1, c2}
  Configs <- Fixed
  NoUser = NoUser
  Stops = TRUE
  MaxReloads = 0
  MaxChannels = 1
INVARIANTS TypeOK DrainedIsEmpty
PROPERTIES ShutdownEnds PlacesComeBack
