SPECIFICATION FileSpec
CONSTANTS
    MaxLength = 5
    Columns = {2}
INVARIANTS ColumnsRead
CHECK_DEADLOCK FALSE
