CONSTANTS
    Streamers = {s1}
    btc = btc
    eth = eth
    Contracts = {btc, eth}
    Readings <- MCReadings
    Editable = {s1}
    Handlers = {h1, h2}
    AutoApprove = {FALSE}
    HUMAN_LIMIT = 1
    SLACK_OPTION_LIMIT = 2
    MaxOps = 1
    MaxFaults = 0
    MaxChanges = 0
    None = None
SPECIFICATION Spec
PROPERTY StoresWhatItTells
