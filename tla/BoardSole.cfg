CONSTANTS
    Streamers = {s1}
    btc = btc
    eth = eth
    Contracts = {btc, eth}
    Readings <- MCReadings
    Editable = {s1}
    Handlers = {h1}
    AutoApprove = {FALSE, TRUE}
    HUMAN_LIMIT = 1
    SLACK_OPTION_LIMIT = 2
    MaxOps = 2
    MaxFaults = 1
    MaxChanges = 1
    None = None
SPECIFICATION FairSpec
INVARIANTS TypeOK OnlyApproved ToldIsStored ReportsAreShown
PROPERTY ChangeIsReported
