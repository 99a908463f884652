SPECIFICATION MCSpec
CONSTANTS
  Null = Null
  Torn = Torn
  Layout <- OneLayout
  QuietDebounce = 1
  MaxDirtyLatency = 2
  ForceReloadInterval = 4
  LeaseTTL = 2
  BackoffSteps <- SmallBackoff
  MinInterval = 1
  Coordinators = {c1}
  Syncs = {s1}
  Generators = {g1}
  Configs = {"unready", "ready"}
  ProjectConfigs = {"unready", "ready"}
  ReadyConfigs = {"ready"}
  AutoConfigs = {"unready", "ready"}
  Faults = {"crash", "interrupt", "ambiguous_post"}
  MaxData = 2
  MaxRevision = 3
  MaxMishaps = 1
  v1 = v1
  v2 = v2
  Servers = {v1, v2}
  Successor = v2
  BackupIds = {1, 2, 3}
  MaxRetained = 2
  ListLimit = 1
  MaxSetbacks = 2
  Script <- InitDb
  Columns = {"plain", "initial_backfill_done_at", "is_active", "source", "notified_channel"}
  Changes = {"category_method_backfill", "categorization_identifier_rename",
             "uq_ref_includes_direction", "ix_transactions_category_date", "nach_ref_nullified",
             "investment_lots_backfill", "retire_supermoney", "card_holder_backfill",
             "card_holder_addon_labels"}
  MaxStarts = 3
INVARIANTS
  SingleFlight
  
  BackupsHold
  StartsHold

  
CHECK_DEADLOCK FALSE
