SPECIFICATION MCSpec
CONSTANTS
  Claims = {1, 2}
  KindOf <- KindOfClaim
  Rows = {1, 2, 3}
  Amount <- RowAmount
  Direction <- RowDirection
  People = {"p", "q"}
  DebtorsOf <- Debtors
  Names = {"ann", "bob"}
  Carries <- RowNames
  Teaches <- RowTeaches
  FullName <- Own
  PartOf <- NoPairs
  Twins <- SameEvent
  Amounts = {1, 2}
  r1 = r1
  r2 = r2
  Requests = {r1, r2}
  MaxEdits = 3
  MaxAsked = 2
  None = None
  Unset = Unset
  Accounts = {"a1", "a2"}
  MasksOf <- Masks
  MasksAgree <- SameMasks
  Tails = {"m1", "m2"}
  NoDigits = "NoDigits"
  Books <- SmallBooks
  Notices <- Bills
  CreditAmounts = {1}
  Offsets = {1, 0}
  StaleDays = 0
  MonthLength = 1
  LastDay = 1
  MaxUploads = 2
  MaxCredits = 2
  MaxEvents = 3
INVARIANTS
  
  OpenMeansOwed
  CyclesPartition
  
  RemindedOnce
PROPERTIES
  TapPaysWhatItShowed
SYMMETRY RequestsAlike
CHECK_DEADLOCK FALSE
