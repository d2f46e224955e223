SPECIFICATION Spec
CONSTANTS
    Database = {a, b, x}
    Size = {0, 9, 10, 17, 19}
    Excluded = {x}
    SourceDatabase = a
INVARIANTS
    TypeOK
    VerdictIsExact
    SummaryMatchesRows
CHECK_DEADLOCK FALSE
