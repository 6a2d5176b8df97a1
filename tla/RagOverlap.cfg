CONSTANTS
    Posts = {p1}
    short = short
    long = long
    free = free
    private = private
    Texts <- MCTexts
    ChunkCount <- MCChunkCount
    Boards = {free}
    IndexedBoards = {free}
    FreeBoard = free
    Drainers = {d1, d2}
    Writers = {w1}
    DrainLimits = {20}
    SweepLimit = 2
    MaxAttempts = 1
    SlowDrains = TRUE
    MaxWrites = 2
    MaxFaults = 0
    None = None
SYMMETRY Interchange
SPECIFICATION Spec
PROPERTY LiveKeepsChunks
