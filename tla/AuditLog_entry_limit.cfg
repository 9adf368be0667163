SPECIFICATION Spec
CONSTANTS
    Process = {p}
    EntrySize = {2}
    FileBytes = 4
    TotalBytes = 8
    MaxEntries = 3
    MaxSegment = 3
    Days = 1
    MaxAppends = 5
    MaxCuts = 0
    MaxClockMoves = 0
INVARIANTS
    GrowthNeverBlocksUndo
