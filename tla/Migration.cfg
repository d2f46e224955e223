SPECIFICATION FairSpec
CONSTANTS
    Migration = {m1}
    Watcher = {w1}
    NoWatcher = NoWatcher
    CancelRequest = {c1, c2}
    CleanupRequest = {k1}
    TTLOutlastsPolling = FALSE
INVARIANTS
    TypeOK
    StatusHonest
    ActiveIsWatched
    WatcherIsReachable
PROPERTIES
    CompletedNeverReopens
    Implements
    Settles
    WatcherEnds
CHECK_DEADLOCK FALSE
