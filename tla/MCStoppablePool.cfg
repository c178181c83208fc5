CONSTANTS
  JobCount = 4
  Threads = 3
  Results <- MCResults
  StopResults <- MCStopResults
  Cancellable = TRUE
  MayPanic = TRUE
SPECIFICATION Spec
INVARIANTS
  PrefixReturned
  OneLateJobEach
