CONSTANTS
    Wrap = 16
    Second = 3
    Span = 4
    MaxGap = 13
    Horizon = 50
    LastDay = 49709
    Hands = {0, 720, 1439}
    Zones <- Several
    Instants <- EdgesOfAll
    Reuse = FALSE
    NoAnswer = NoAnswer
SPECIFICATION LibrarySpec
INVARIANT TypesOK
INVARIANT KeepsTime
INVARIANT CalendarIsRight
INVARIANT ConversionsAreRight
CHECK_DEADLOCK FALSE
