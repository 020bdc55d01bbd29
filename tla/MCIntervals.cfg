CONSTANTS
    Half = 8
    Interval = 4
    MaxGap = 3
    Horizon = 50
SPECIFICATION Spec
INVARIANT TypeOK
INVARIANT UpdatesInTime
PROPERTY NotTooOften
