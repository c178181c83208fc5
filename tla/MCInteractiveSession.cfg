CONSTANTS
  JobCount = 2
  Threads = 2
  Results <- MCResults
  StopResults <- MCStopResults
  Cancellable = TRUE
  MayPanic = TRUE
  Items = {"x"}
SPECIFICATION SessionFairSpec
INVARIANTS
  ConfirmedIsPlanned
  ConfirmationIsKept
PROPERTIES
  PlanningEndIsSeen
  LeavingReturns
