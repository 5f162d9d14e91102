SPECIFICATION FairSpec
CONSTANTS
  Names = {"n1"}
  Configs <- TwoConfigs
  NoConfig = NoConfig
  Ttl = 1
  MaxTime = 2
  MaxVersions = 1
  MaxBuilds = 2
  AllBackends = {"b1", "b2"}
  AtFirst = {{"b1"}}
  MaxFlips = 1
INVARIANTS TypeOK KeysWereServed StaleOnlyIfFetchFailed CacheSavesBuild
PROPERTIES HealthSettles
CHECK_DEADLOCK FALSE
