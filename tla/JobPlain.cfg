SPECIFICATION Spec
CONSTANTS
    Database = {a, b, x}
    Excluded = {x}
    Formats = {"custom", "plain"}
    SourceDatabase = a
    TargetDatabase = b
INVARIANT SuccessIsComplete
CHECK_DEADLOCK FALSE
