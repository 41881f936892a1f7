CONSTANTS
    PropertyNames <- Properties
    PropertyValues <- Values
    NoValue = 0
    ColumnTypes <- Types
    Given <- Few
    MaxConditions = 3
SPECIFICATION Spec
CHECK_DEADLOCK FALSE
INVARIANT MemoryMeansWhere
