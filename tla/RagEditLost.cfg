CONSTANTS
    Posts = {p1}
    short = short
    long = long
    free = free
    private = private
    Texts <- MCTexts
    ChunkCount <- MCChunkCount
    Boards <- MCBoards
    IndexedBoards <- MCIndexedBoards
    FreeBoard = free
    Drainers = {d1}
    Writers = {w1}
    DrainLimits = {20}
    SweepLimit = 2
    MaxAttempts = 2
    SlowDrains = FALSE
    MaxWrites = 2
    MaxFaults = 0
    None = None
SPECIFICATION Spec
INVARIANT SweepCatchesEdits
