SPECIFICATION ProcessingSpec
CONSTANTS
  N = 1
  Uploads = {1}
  Batch = 2
  Worker = {w1, w2}
  Cleaner = {c1, c2}
  loneWorker = w0
  loneCleaner = c0
  Nobody = Nobody
  MaxFaults = 1
  Zombies = FALSE
SYMMETRY Symmetry
INVARIANTS
  SourceOutlivesFetch
  ModelNeverSeesSource
  EndedRunHasNoSource
  RoundsAreSound
  PaidOnceAndWatched
  ReleasedRunHasOneReader
PROPERTY
  WithdrawnStaysDark
CHECK_DEADLOCK FALSE
