SPECIFICATION MCSpec
CONSTANTS
  Null = Null
  Torn = Torn
  Layout <- OneLayout
  QuietDebounce = 1
  MaxDirtyLatency = 3
  ForceReloadInterval = 9
  LeaseTTL = 2
  BackoffSteps <- TwoBackoffs
  MinInterval = 6
  Coordinators = {c1}
  Syncs = {s1}
  Generators = {}
  Configs = {"disabled", "ready"}
  ProjectConfigs = {"ready"}
  ReadyConfigs = {"ready"}
  AutoConfigs = {"ready"}
  Faults = {"lease_expiry", "crash", "interrupt", "revert", "ambiguous_post", "cache_lag"}
  MaxData = 1
  MaxRevision = 2
  MaxMishaps = 1
  Scenes = {"race", "clock"}
  PollInterval = 1
  AttemptTimeout = 3
  HeartbeatInterval = 1
  MaxLostBeats = 1
  Readiness = {TRUE, FALSE}
  Troubles = {"reject", "timeout"}
  Horizon = 14
  MaxWrites = 3
INVARIANTS
  NoHotLoop
  
PROPERTIES
  OnlyHolderCompletes
  
  AttemptsPaced
CHECK_DEADLOCK FALSE
