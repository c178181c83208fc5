SPECIFICATION Spec
CHECK_DEADLOCK FALSE
CONSTANTS
  Managers <- AllManagers
  Versions = {1, 2}
  Tools = {1, 2}
  MaxChanges = 1
  Days = {1, 2}
  Packages = {1, 3}
  Items = {1, 2, 3}
  PackageOf <- MCPackageOf
  LastVersion = 4
  MaxNews = 1
  PipeSize = 1
  Programs <- UpToThree
INVARIANTS
  EachToolOnce
  FailureStaysLocal
  
  OnlyFitIsOffered
  NothingLost
  EveryChoiceIsACommand
  RemovalFindsItsVersion
  AllOutputRead
PROPERTIES
  CooldownKept
  EveryCallReturns
