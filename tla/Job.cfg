SPECIFICATION Spec
CONSTANTS
    Database = {a, b, x}
    Excluded = {x}
    Formats = {"custom", "plain"}
    SourceDatabase = a
    TargetDatabase = b
INVARIANTS
    ArchiveIsComplete
    TargetIsSafe
CHECK_DEADLOCK FALSE
