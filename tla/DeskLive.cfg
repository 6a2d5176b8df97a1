CONSTANTS
    Streamers = {s1}
    Handlers = {h1}
    QUEUED_TTL = 2
    RUNNING_TTL = 1
    USER_COOLDOWN = 1
    HOUR = 3
    USER_HOURLY_LIMIT = 2
    SlowCaptures = TRUE
    MaxJobs = 2
    MaxRestarts = 1
    MaxHomeFaults = None
    None = None
SPECIFICATION FairSpec
PROPERTY JobsLeave
