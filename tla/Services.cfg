CONSTANTS
    Tokens = {t1, t2}
    Sockets = {c1}
    MaxRestarts = 1
    IPs = {i1, i2}
    Frequency = 1
    BanTimes = {2, 4}
    MaxDelay = 3
    MaxBanTexts = 4
    MaxBans = 2
    Handlers = {h1, h2}
    Loads = {l1, l2}
    NumLatest = 1
    MaxTexts = 2
    MaxFaults = 1
    Posts = {1, 2, 3}
    Users = {"u"}
    Names = {"n"}
    Depth = 3
    SearchLimit = 2
    MaxNear = 3
    MaxChunkSize = 4
    Overlap = 2
    MaxLength = 5
    MaxParts = 2
    Texts = {x1, x2, x3}
    Tasks = {document, question}
    EmbedBatch = 2
    MaxInput = 3
    MaxEmbeds = 2
    Questions = {1, 2}
    Cap = 1
    Retention = 2
    MaxDay = 2
    MaxAnswers = 3
    Requests = {1, 2, 3}
    MaxAllowed = 1
    WindowTicks = 2
    MaxTicks = 5
    Reactors = {"u"}
    Toggles = {1, 2}
    MaxRows = 3
    Arrivals = {1, 2}
    MaxSignIns = 3
    Urls = {u1, u2}
    Calls = {1, 2}
    MaxWork = 3
    Pages = {"symbols", "leaderboard", "dashboard"}
    Forced = {"symbols", "dashboard"}
    Short = 1
    Long = 2
    Day = 3
    MaxMinutes = 4
    MaxCalls = 3
    Ids = {1, 2}
    CopyBatch = 1
    MaxCopyTime = 2
    MaxChanges = 3
    MaxRuns = 2
    None = None
    Done = Done
SPECIFICATION Spec
CHECK_DEADLOCK FALSE
INVARIANTS
    ServicesTypeOK
    ConnectedAreKnown
    ShownIsNewest
    AnswerIsRanked
    OnePerAuthor
    ChunksCoverText
    EmbedAligned
    AnswersBounded
    DaysRemembered
    WindowHolds
    OneReaction
    OneAccount
    CopyIsExact
PROPERTIES
    UsersSurvive
    TextsAreLimited
    BansLast
    UrlsSurvive
    IndicesStandIn
