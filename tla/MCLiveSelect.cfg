\* Two subscribers of the hook, one with a debounce of its own; or one twice.
CONSTANTS
    All = All
    None = None
    Nothing = Nothing
    Null = Null
    Subscriber = {s, u}
    Debouncing = {s}
    RowsOfTable <- SmallRows
    Query <- SmallQueries
    Nullable = {}
    Ignored <- IgnoredColumns
    MaxWrites = 3
    MaxFaults = 1
    MaxSubscriptions = 2
SPECIFICATION LiveSpec
CHECK_DEADLOCK FALSE
INVARIANTS
    LiveTypeOK
    QuietIsCurrent
PROPERTIES
    ReportedIsShown
