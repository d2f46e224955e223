SPECIFICATION FairSpec
CONSTANTS
    i1 = i1
    i2 = i2
    p1 = p1
    p2 = p2
    NoId = NoId
    Migration <- MCMigration
    Poll <- MCPoll
INVARIANTS
    TypeOK
    HandlersTakeTurns
PROPERTIES
    PanelConverges
    ButtonsReturn
CHECK_DEADLOCK FALSE
