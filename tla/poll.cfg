SPECIFICATION FairSpec
CONSTANTS
  Providers = {"gmail", "fastmail"}
  Limit <- Limits
  MaxMails = 3
  MaxRules = 2
  RulesOf <- Wanted
  History <- OldMail
  Margin = 2
  Backfill = 4
  Delay = 1
  LastDay = 2
  MaxFaults = 1
  MaxToggles = 1
  None = None
INVARIANTS
  InReach
  NoMailTwice
PROPERTIES
  EveryMailStored
CHECK_DEADLOCK FALSE
