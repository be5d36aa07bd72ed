\* Two applies, in any order of their steps; edits of every file of up to four lines.
SPECIFICATION Spec
CONSTANTS
    Sections <- MCSections
    Sizes <- MCSizes
    Original <- MCOriginal
    Files <- MCFiles
    Settings <- MCSettings
    Enters = 2
    MaxLines = 4
INVARIANTS TypeOK OthersPreserved EditIsExact
PROPERTIES RestartApplies
CHECK_DEADLOCK FALSE
