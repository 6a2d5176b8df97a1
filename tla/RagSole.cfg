CONSTANTS
    Posts = {p1}
    short = short
    long = long
    free = free
    private = private
    Texts <- MCTexts
    ChunkCount <- MCChunkCount
    Boards = {free}
    IndexedBoards = {free}
    FreeBoard = free
    Drainers = {d1}
    Writers = {w1}
    DrainLimits = {20}
    SweepLimit = 2
    MaxAttempts = 2
    SlowDrains = TRUE
    MaxWrites = 2
    MaxFaults = 1
    None = None
SPECIFICATION FairSpec
INVARIANTS TypeOK SettledIsIndexed PendingIsDue
PROPERTIES FailedStaysFailed PostsAreSettled DeletedLeavesIndex
