CONSTANTS
    Span = 8
    Era = 3
    Wrap = 4
    Window = 3
    Dns = 1
    Lag = 1
    Delay = 2
    Room = 2
    Horizon = 9
    Short = Short
    Empty = Empty
SPECIFICATION Spec
INVARIANT TypeOK
INVARIANT ReturnsInTime
PROPERTY AnswersAreFresh
PROPERTY NoAnswerMissed
CHECK_DEADLOCK TRUE
