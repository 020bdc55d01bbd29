CONSTANTS
    cold = cold
    junk = junk
    c1 = c1
    c2 = c2
    this = this
    timer = timer
    Values = {cold}
    NaN = NaN
    Junk = {junk}
    Unread = Unread
    None = None
    Retries = 2
    MaxWakes = 3
    MaxWaiting = 2
    Conns = {c1, c2}
    Requests <- Asked
    Routes <- BaseRoutes
    Templates <- Files
    MaxOpen = 1
    Zero = 0
    NoArg = NoArg
    Null = Null
    Plain = {"a"}
    Special = {"+", "&", "=", "%", "tab"}
    White = {"tab"}
    Names = {"ap", "ap_passwd"}
    MaxLength = 3
    MaxFields = 3
    Threads <- TwoThreads
    Wrap = 8
    Second = 3
    Settings = {}
    Horizon = 20
SPECIFICATION SimulatorSpec
INVARIANT SubtractionIsDifference
CHECK_DEADLOCK FALSE
