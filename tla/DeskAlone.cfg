CONSTANTS
    Streamers = {s1, s2}
    Handlers = {h1}
    QUEUED_TTL = 2
    RUNNING_TTL = 1
    USER_COOLDOWN = 1
    HOUR = 3
    USER_HOURLY_LIMIT = 1
    SlowCaptures = TRUE
    MaxJobs = 2
    MaxRestarts = 1
    MaxHomeFaults = 1
    None = None
SYMMETRY Interchange
SPECIFICATION Spec
INVARIANTS TypeOK QuotaHolds
PROPERTIES DeskRefines
