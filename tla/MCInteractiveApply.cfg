CONSTANTS
  N = 2
  Items <- MCItems
  ManagerOf <- MCManagerOf
  PackageOf <- MCPackageOf
  Policies <- MCPolicies
  Stored <- MCStored
  Selections <- MCSelections
SPECIFICATION Spec
INVARIANTS
  SavedBeforeRun
  ReportTellsTheTruth
  SuccessMeansAll
PROPERTIES
  KeepsPromise
