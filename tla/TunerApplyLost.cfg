\* Two applies that overlap.
SPECIFICATION Spec
CONSTANTS
    Sections <- MCSections
    Sizes <- MCSizes
    Original <- MCOriginal
    Files <- MCFiles
    Settings <- MCSettings
    Enters = 2
    MaxLines = 4
INVARIANTS UpdatesSurvive
CHECK_DEADLOCK FALSE
