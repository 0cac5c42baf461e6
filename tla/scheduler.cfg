\* Two tickers, a polling job that stays and a one-shot job that comes and goes.
SPECIFICATION FairSpec
CONSTANTS
    ConfigId = {"poll", "once"}
    Horizon = 2
    BackoffBase = 1
    BackoffMax = 2
    ErrorCap = 2
    Ticker = {"t", "u"}
    LeaseMs = 2
    MaxJobs = 1
    Interval = 1
    BatchSize = 1
    MaxBatches = 1
    Puts <- MCPuts
    Deletable = {"once"}
    Uncheckpointed = {}
    MaxRun = 1
    MaxUpdates = 1
    MaxEdits = 4
    MaxFaults = 1
INVARIANTS TypeOK KeptRunOnce
PROPERTIES CursorAdvances OwnLease Drains OneShotEnds
CHECK_DEADLOCK FALSE
