CONSTANTS
  JobCount = 3
  Threads = 2
  Results <- MCResults
  StopResults <- MCStopResults
  Cancellable = FALSE
  MayPanic = TRUE
  MaxCommands = 2
SPECIFICATION BatchFairSpec
INVARIANTS
  RunsOnlyWhatWasPlanned
  NobodyForgotten
  SuccessMeansAll
PROPERTIES
  Terminates
