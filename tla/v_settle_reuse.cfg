SPECIFICATION MCSpec
CONSTANTS
  Null = Null
  NoMask = NoMask
  Rupee = "INR"
  NoRef = NoRef
  NoParty = "none"
  NoText = "notext"
  Garbled = 0
  Generic = "generic"
  KeyOf <- Keys
  Utr <- References
  AppearsIn <- NoPairs
  SharesWord <- NoPairs
  Uploads = {u1, u2}
  u1 = u1
  u2 = u2
  Sheets <- BankSheets
  Postings <- BankPostings
  Period <- Days
  MaxPosts = 2
  MaxReparses = 1
  MaxEdits = 1
PROPERTIES
  OwnCopyFolded
SYMMETRY UploadsAlike
CHECK_DEADLOCK FALSE
