SPECIFICATION ScreenSpec
CONSTANTS
  ManagerCount = 3
  View <- MCView
  Matches <- MCMatches
  Height = 2
INVARIANTS
  NothingOfferedIsRefused
PROPERTIES
  KeysMeanWhatWasDrawn
  ReviewedIsConfirmed
CHECK_DEADLOCK FALSE
