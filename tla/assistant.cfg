SPECIFICATION MCSpec
CONSTANTS
  q = q
  y = y
  tap = tap
  a = a
  p = p
  fix = fix
  w1 = w1
  w2 = w2
  Updates = {q, y, tap}
  Kind <- KindRivals
  Question <- QuestionRivals
  Workers = {w1, w2}
  MaxTurnAttempts = 2
  MaxData = 2
  MaxCrashes = 1
  Faults = {"redeliver", "lease_expiry", "revoke", "edit", "fail"}
  None = None
  NoValue = NoValue
  Txns = {1, 2}
  ImportOf <- Import
  SharedRefs <- Transfers
  Texts = {"a", "b", ""}
  FirstTexts <- FirstOf
  Blank = ""
  RuleSays <- Rules
  Slugs = {"rent", "food"}
  Fit <- Allowed
  Default <- Guess
  Verdicts <- Says
  Modes = {"plain", "durable"}
  Cap = 1
  MaxNotify = 2
  MaxSends = 2
  MaxFailures = 2
  MaxEvents = 2
  Messages = {a, p, fix}
  Sort <- SortOf
  Screen <- ScreenOf
  Hands = {w1, w2}
  Nil = Nil
  Ids = {1, 2}
  MaxFiles = 2
  MaxBirths = 3
  Sights <- Seen
  Fixes <- Corrections
  Fits <- FitsOf
  BankRows <- Booked
INVARIANTS
  WritesOnce
  HandKept
  PromptsCapped
  ReceiptsHold
PROPERTIES
  YesIsFresh
  NoWriteAfterRevocation
SYMMETRY WorkerSymmetry
CHECK_DEADLOCK FALSE
