\* One session: two jobs, two checkpoints, one request id, one deletion.
SPECIFICATION Spec
CONSTANTS
  Offered <- Fork
  Checkpoints = {m1, m2}
  Jobs = {j1, j2}
  Requests = {r1}
  MaxDecisions = 1
  MaxDeletes = 1
  Nil = Nil
INVARIANTS BusyWhileRunning TreeIsWhole JobsPointIntoTree RetryIsExact
PROPERTIES JobHasSessionToItself JobSettles
CHECK_DEADLOCK FALSE
