SPECIFICATION Spec
CONSTANTS
    Migration = {m1}
    Watcher = {w1, w2}
    NoWatcher = NoWatcher
    TTLOutlastsPolling = FALSE
    VerifyRequest = {v1}
    Automatic = Automatic
INVARIANT
    PassedIsCurrent
CHECK_DEADLOCK FALSE
