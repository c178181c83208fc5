SPECIFICATION Spec
CONSTANTS
    Managers <- MCManagers
    Strangers = {"apt"}
    Order <- MCOrder
    Packages = {"p"}
    Texts <- MCTexts
    Hours <- MCHours
    OnByDefault = {"npm", "brew"}
    WholeDays = {"npm"}
    SkipsUpdate = {"brew"}
    Supported <- MCSupported
    Fallback <- MCFallback
    Sessions = {"one"}
    Documents <- MCDocuments
    Commands <- MCCommands
    MaxEdits = 2
INVARIANTS
    OverridesNeverSaved
    SavesExactly
    RunsWhatWasAsked
