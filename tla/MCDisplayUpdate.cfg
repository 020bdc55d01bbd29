CONSTANTS
    thread = thread
    a1 = a1
    a2 = a2
    Preemptive = FALSE
    Writers <- OneThread
    Work <- AllWork
    Heap = {a1, a2}
    Zones = {0, 1}
    Half = 1
    Days = 1
    Values = {1, 2}
    Unread = Unread
    NoRecord = NoRecord
    Blank = Blank
SPECIFICATION Spec
INVARIANT RegionsKept
INVARIANT NoUseAfterFree
INVARIANT SnapshotIsWhole
PROPERTY ScreenSpec
