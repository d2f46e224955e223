SPECIFICATION FairSpec
CONSTANTS
    Migration = {m1}
    Watcher = {w1, w2}
    NoWatcher = NoWatcher
    TTLOutlastsPolling = TRUE
    VerifyRequest = {}
    Automatic = Automatic
PROPERTY
    RunningEnds
CHECK_DEADLOCK FALSE
