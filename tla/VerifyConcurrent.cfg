SPECIFICATION Spec
CONSTANTS
    Migration = {m1}
    Watcher = {w1, w2}
    NoWatcher = NoWatcher
    TTLOutlastsPolling = FALSE
    VerifyRequest = {v1}
    Automatic = Automatic
SYMMETRY CallerSymmetry
INVARIANTS
    TypeOK
    PassedHasEvidence
    EntryIsAlive
PROPERTY
    VerdictStays
CHECK_DEADLOCK FALSE
