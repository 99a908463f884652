SPECIFICATION LedgerSpec
CONSTANTS
  a1 = a1
  a2 = a2
  a3 = a3
  a4 = a4
  Alerts = {a1, a2, a3, a4}
  Contents <- AllContents
  NameWithin <- NamePairs
  ShortRef <- RefPairs
  Ambiguous12h = {"amb"}
  MaxRows = 4
  Replays = {}
  None = None
  Null = Null
  NoRef = "none"
  NoParty = "noparty"
  NoText = "notext"
  Generic = "generic"
  Garbled = 0
  KeyOf <- OwnKeys
  Utr <- Nothing
  AppearsIn <- Nothing
  SharesWord <- Nothing
  Uploads = {"u1", "u2"}
  Period <- Nothing
  Postings <- Nothing
  Sheets <- Readings
  Upgrades <- Upgraded
  Shortened <- Starts
  Sources = {"sms1", "sms2", "mail"}
  SlotOf <- Slots
  PostedBy <- Posted
  MaxPosts = 2
  MaxReparses = 0
  MaxEdits = 1
  MaxRepairs = 1
  Scenes = {"ledger", "bank", "wealth"}
INVARIANTS
  ReferencesHold
  BalancesAgree
  AbsorbedOnce
  FiguresAgree
  HoldingsAgree
PROPERTIES
  DuplicateNeedsProof
  NothingComesBack
SYMMETRY AlertSymmetry
CHECK_DEADLOCK FALSE
