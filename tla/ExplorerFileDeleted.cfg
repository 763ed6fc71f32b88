\* One session and its file: one job at a time, one restart.
SPECIFICATION FilesSpec
CONSTANTS
  Offered <- Straight
  Checkpoints = {m1}
  Jobs = {j1}
  Requests = {}
  MaxDecisions = 1
  MaxDeletes = 1
  MaxCrashes = 1
  Nil = Nil
INVARIANT SavedFileLoads
CHECK_DEADLOCK FALSE
