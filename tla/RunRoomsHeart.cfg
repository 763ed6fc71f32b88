\* A run won to the Heart, with few relics and events on the way.
CONSTANTS
  Nil = Nil
  FinalAct = TRUE
  EventNames = {"Lab"}
  BossRelics = {"plain"}
  ShopRelics = {"plain"}
SPECIFICATION Spec
PROPERTY FinalBossesPayNothing
CHECK_DEADLOCK FALSE
