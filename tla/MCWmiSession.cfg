SPECIFICATION Spec
CONSTANTS
    nicA = nicA
    nicB = nicB
    NoRow = NoRow
    Rows <- TwoRows
    MaxQueries = 3
    MaxActions = 3
CHECK_DEADLOCK FALSE
INVARIANTS
    TypeOK
    RowIsCurrent
    NoLeak
    HeldInsideCom
    ComBalanced
    SecuredFirst
PROPERTIES
    ImplementsCursor
