CONSTANTS
    Streamers = {s1}
    Handlers = {h1, h2}
    QUEUED_TTL = 2
    RUNNING_TTL = 1
    USER_COOLDOWN = 1
    HOUR = 3
    USER_HOURLY_LIMIT = 2
    SlowCaptures = FALSE
    MaxJobs = 2
    MaxRestarts = 0
    MaxHomeFaults = 0
    None = None
SYMMETRY Interchange
SPECIFICATION Spec
PROPERTY AcceptedStays
