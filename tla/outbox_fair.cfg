SPECIFICATION FairSpec
CONSTANTS
  m1 = m1
  m2 = m2
  t1 = t1
  d1 = d1
  w1 = w1
  w2 = w2
  Messages = {m1, m2}
  Turns = {t1}
  Decisions = {d1}
  Owner <- MixedOwner
  Workers = {w1, w2}
  NoWorker = NoWorker
  NoMessage = NoMessage
  Chats = {"A", "B"}
  MaxAttempts = 2
  MaxTries = 1
  MaxNotifies = 2
  MaxRebinds = 1
  Faults = {"rejected", "stale_choice"}
INVARIANTS
  ShownOnce
PROPERTIES
  
  MessagesSettle
CHECK_DEADLOCK FALSE
