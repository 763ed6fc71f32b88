\* Two controllers, two commands, with and without passive polling, one restart.
SPECIFICATION Spec
CONSTANTS
  Controllers = {a, b}
  CommandIds = {c1, c2}
  NoId = NoId
  NoOwner = NoOwner
  Unread = Unread
  MaxLines = 1
  MaxRestarts = 1
INVARIANTS VerdictsAreTrue QueuedHoldsBridge ReadyMeansStable AnswerFreesBridge
PROPERTIES ImplementsLifecycle
SYMMETRY Symmetry
CHECK_DEADLOCK FALSE
