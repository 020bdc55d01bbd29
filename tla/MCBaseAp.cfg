CONSTANTS
    DefaultCred = home
    NoCred = NoCred
    DefaultZone = utc
    NoZone = NoZone
    Absent = Absent
    Cut = Cut
    Failed = Failed
    NoTime = NoTime
    Unread = Unread
    NaN = NaN
    Garbage = Garbage
    Blank = Blank
    Null = Null
    home = home
    away = away
    huge = huge
    utc = utc
    east = east
    r1 = r1
    r2 = r2
    Day = 1
    HasRtc = FALSE
    Readings = {r1}
    MaxReads = 1
    Requests = {"report"}
    BigCreds = {}
    Zones <- TwoZones
    Offset <- MCOffset
    GoodCreds <- HomeOnly
    Creds <- OneCred
    Lights <- OneLight
SPECIFICATION Spec
INVARIANT ServesWithAccessPoint
