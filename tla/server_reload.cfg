SPECIFICATION Spec
CONSTANTS
  Users <- TwoUsers
  Conns = {c1, c2}
  Configs <- Varied
  NoUser = NoUser
  Stops = FALSE
  MaxReloads = 2
  MaxChannels = 0
SYMMETRY ConnsAreAlike
INVARIANTS PlacesAreSessions SessionsWithinLimit OneBucket
PROPERTIES NewStateNewLimits
