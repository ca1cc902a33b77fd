\* The first example of the documentation: name and id of the users of an age.
CONSTANTS
    All = All
    None = None
    Null = Null
    RowsOfTable <- RowsByTable
    Query <- QuickStart
    Nullable <- NullableColumns
SPECIFICATION SpecRows
CHECK_DEADLOCK FALSE
PROPERTIES
    ReemitsOnChange
