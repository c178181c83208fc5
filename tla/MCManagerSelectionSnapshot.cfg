CONSTANTS
  Items <- MCItems
  PackageOf <- MCPackageOf
  Versions <- MCVersions
  Managers <- MCManagers
  Rows <- MCRows
  Remembered <- MCRemembered
SPECIFICATION Spec
CHECK_DEADLOCK FALSE
INVARIANTS
  SnapshotShowsTheSelection
