SPECIFICATION Spec
CONSTANTS
  m1 = m1
  m2 = m2
  t1 = t1
  d1 = d1
  w1 = w1
  w2 = w2
  Messages = {m1, m2}
  Turns = {t1}
  Decisions = {}
  Owner <- TurnOwner
  Workers = {w1, w2}
  NoWorker = NoWorker
  NoMessage = NoMessage
  Chats = {"A"}
  MaxAttempts = 2
  MaxTries = 2
  MaxNotifies = 0
  MaxRebinds = 0
  Faults = {"crash", "cancel", "network", "slow_send"}
INVARIANTS
  DeliveredTurnIsComplete
PROPERTIES
  KeepsPromise
SYMMETRY Senders2
CHECK_DEADLOCK FALSE
