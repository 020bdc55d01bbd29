CONSTANTS
    DefaultCred = away
    NoCred = NoCred
    DefaultZone = utc
    NoZone = NoZone
    Absent = Absent
    Cut = Cut
    Failed = Failed
    NoTime = NoTime
    Unread = Unread
    NaN = NaN
    Garbage = Garbage
    Blank = Blank
    Null = Null
    home = home
    away = away
    huge = huge
    utc = utc
    east = east
    r1 = r1
    r2 = r2
    Day = 3
    HasRtc = TRUE
    Readings = {r1}
    MaxReads = 2
    Requests = {"zone", "wifi", "time", "report"}
    Zones <- TwoZones
    Offset <- MCOffset
    GoodCreds <- HomeOnly
    Creds <- AllCreds
    BigCreds <- HugeOnly
    Lights <- OneLight
SPECIFICATION Spec
INVARIANT TypeOK
INVARIANT RtcKeepsTime
INVARIANT ReadingsShown
INVARIANT ServesAfterSetup
INVARIANT ZoneMatchesConfig
INVARIANT FileAgreesWithMemory
INVARIANT FlagMatchesRadio
PROPERTY AdoptsOnlySaved
PROPERTY StoreSpec
