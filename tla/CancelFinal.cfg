SPECIFICATION Spec
CONSTANTS
    Migration = {m1}
    Watcher = {w1}
    NoWatcher = NoWatcher
    CancelRequest = {c1}
    CleanupRequest = {k1}
    TTLOutlastsPolling = FALSE
PROPERTY
    CancelIsFinal
CHECK_DEADLOCK FALSE
