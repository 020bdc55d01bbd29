CONSTANTS
    DefaultCred = away
    NoCred = NoCred
    DefaultZone = utc
    NoZone = NoZone
    Absent = Absent
    Cut = Cut
    Failed = Failed
    NoTime = NoTime
    Unread = Unread
    NaN = NaN
    Garbage = Garbage
    Blank = Blank
    Null = Null
    home = home
    away = away
    huge = huge
    utc = utc
    east = east
    r1 = r1
    r2 = r2
    Day = 1
    HasRtc = FALSE
    Readings = {r1, r2}
    MaxReads = 2
    Requests = {"report", "wifi"}
    BigCreds = {}
    Zones <- OneZone
    Offset <- OneOffset
    GoodCreds <- HomeOnly
    Creds <- TwoCreds
    Lights <- OneLight
SPECIFICATION FairSpec
PROPERTY LoopServes
PROPERTY NetworkJoined
PROPERTY ReportShown
