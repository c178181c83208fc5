CONSTANTS
  Texts <- MCTexts
  Parsed <- MCParsed
  Class <- MCClass
  InstalledFirst <- MCInstalledFirst
  SettingsUsed <- MCSettings
  MaxReleases = 3
  MaxAdvisories = 1
  MinAge = 1
  MaxClock = 2
  Skew = 1
SPECIFICATION Spec
INVARIANTS
  RecommendedIsNewestSafe
  WithheldForAReason
PROPERTIES
  NewReleaseHidesNothing
