\* Two states shared by two threads, single steps and batches.
SPECIFICATION Spec
CONSTANTS
  Handles = {h1, h2}
  RunStates <- GameStates
  Initial <- GameInitial
  PublicChoices <- GameChoices
  Legal <- GameLegal
  Successor <- GameNext
  Roots <- GameRoots
  Projectable <- GameShown
  Exportable <- GameExported
  MaxRevision = 1
  Refused = Refused
  Absent = Absent
  Threads = {t1, t2}
  MaxWorkers = 2
  MinPerWorker = 1
  MaxBatch = 2
  Indices <- GameIndices
  NoBatch = NoBatch
  Nobody = Nobody
INVARIANTS TypeOK RevisionPinsState BatchStepsAlone BatchReportsSerially
PROPERTIES ImplementsSession BatchReturns
