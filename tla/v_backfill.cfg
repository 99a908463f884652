SPECIFICATION Spec
CONSTANTS
  Providers = {"gmail"}
  Limit <- Limits
  MaxMails = 3
  MaxRules = 1
  RulesOf <- OneRule
  History <- OldMails
  Margin = 2
  Backfill = 6
  Delay = 1
  LastDay = 2
  MaxFaults = 0
  MaxToggles = 0
  None = None
PROPERTIES
  BackfillRetried
CHECK_DEADLOCK FALSE
