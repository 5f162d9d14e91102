SPECIFICATION Spec
CONSTANTS
  Users <- TwoUsers
  Conns = {c1}
  Configs <- Fixed
  NoUser = NoUser
  Stops = TRUE
  MaxReloads = 0
  MaxChannels = 0
INVARIANTS SessionsFinish
