CONSTANTS
    Wrap = 16
    Second = 3
    Span = 4
    MaxGap = 13
    Horizon = 50
    LastDay = 49709
    Hands = {0, 720, 1439}
    Zones <- Two
    Instants <- EdgesOfTwo
    Reuse = TRUE
    NoAnswer = NoAnswer
SPECIFICATION LibrarySpec
INVARIANT LocalIsRight
CHECK_DEADLOCK FALSE
