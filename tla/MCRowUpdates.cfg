CONSTANTS
    All = All
    None = None
    Null = Null
    RowsOfTable <- RowsByTable
    Query <- DecidedQueries
    Nullable <- NullableColumns
SPECIFICATION SpecRows
CHECK_DEADLOCK FALSE
PROPERTIES
    NoMissedChange
    NoIdleSignal
