SPECIFICATION Spec
CONSTANTS
    Database = {a, b}
    Size = {0, 9, 10, 17, 19}
    Excluded = {}
    SourceDatabase = a
INVARIANT UpToTenPercent
CHECK_DEADLOCK FALSE
