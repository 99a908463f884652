SPECIFICATION Spec
CONSTANTS
  Null = Null
  Scenes = {"bank"}
INVARIANTS
  VoidedIsNoMoney
CHECK_DEADLOCK FALSE
