CONSTANTS
    Key = {k1, k2}
    None = None
    LruSize = 1
    Flush = {f1, f2}
    MaxQueries = 3
    MaxResults = 2
    MaxReloads = 1
SPECIFICATION Spec
CHECK_DEADLOCK FALSE
INVARIANTS
    ActiveIsKept
    FilesAreCurrent
