SPECIFICATION FairSpec
CONSTANTS
    Migration = {m1}
    Watcher = {w1}
    NoWatcher = NoWatcher
    TTLOutlastsPolling = FALSE
    CancelRequest = {c1}
    CleanupRequest = {k1}
    VerifyRequest = {}
    Automatic = Automatic
INVARIANTS
    VerifiesOnlyRestored
    AutoIsTended
PROPERTIES
    ImplementsMigrations
    ImplementsVerifications
    VerdictFollows
CHECK_DEADLOCK FALSE
