SPECIFICATION Spec
CONSTANTS
    Process = {p, q}
    EntrySize = {2}
    FileBytes = 5
    TotalBytes = 5
    MaxEntries = 3
    MaxSegment = 2
    Days = 2
    MaxAppends = 4
    MaxCuts = 1
    MaxClockMoves = 1
INVARIANTS
    TypeOK
    Acknowledged
    HistoryReadable
    OverfillBounded
PROPERTIES
    PromisesKept
