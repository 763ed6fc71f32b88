SPECIFICATION Spec
CONSTANTS
  Encounters <- Rows
INVARIANTS
  MoveLimits
  MinionsServe
PROPERTIES
  PerformsAsShown
  DeathsStand
CHECK_DEADLOCK FALSE
