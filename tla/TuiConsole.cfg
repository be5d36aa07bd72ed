\* Up to two lines fired onto up to two loaded ones, two models, a log of three lines.
SPECIFICATION Spec
CONSTANTS
    Models = {"A", "B"}
    Chars = {"x"}
    HistoryCap = 2
    LogCap = 3
    Sessions <- MCSessions
    Nothing = Nothing
INVARIANTS TypeOK HistoryIsTheLastLines
PROPERTIES CursorStays LinesFollowOrStay
CHECK_DEADLOCK FALSE
