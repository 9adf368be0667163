SPECIFICATION Spec
CONSTANTS
    Process = {p}
    EntrySize = {2}
    FileBytes = 4
    TotalBytes = 8
    MaxEntries = 8
    MaxSegment = 3
    Days = 1
    MaxAppends = 3
    MaxCuts = 1
    MaxClockMoves = 0
INVARIANTS
    AppendsSurviveCrash
