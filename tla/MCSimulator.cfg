CONSTANTS
    cold = cold
    junk = junk
    c1 = c1
    c2 = c2
    this = this
    timer = timer
    Values = {cold}
    NaN = NaN
    Junk = {junk}
    Unread = Unread
    None = None
    Retries = 2
    MaxWakes = 3
    MaxWaiting = 2
    Conns = {c1, c2}
    Requests <- Asked
    Routes <- BaseRoutes
    Templates <- Files
    MaxOpen = 1
    Zero = 0
    NoArg = NoArg
    Null = Null
    Plain = {"a"}
    Special = {"+", "&", "=", "%", "tab"}
    White = {"tab"}
    Names = {"ap", "ap_passwd"}
    MaxLength = 3
    MaxFields = 3
    Threads <- OneThread
    Wrap = 8
    Second = 3
    Settings = {1}
    Horizon = 20
SPECIFICATION FairSimulatorSpec
INVARIANT TypesOK
INVARIANT StoredIsOwn
INVARIANT OwnAnswer
INVARIANT FormArrives
INVARIANT KeepsTime
PROPERTY NeverOlder
PROPERTY ServesAtOnce
PROPERTY ArrivedIsStored
PROPERTY SleepsAgain
PROPERTY Answered
CHECK_DEADLOCK FALSE
