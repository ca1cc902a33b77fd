\* Safety: three pages, two calls, one callback.
SPECIFICATION Spec
CONSTANTS
    Tab = {t1, t2, t3}
    Callback = {f1}
    Elected = Elected
    Null = Null
    MaxCalls = 2
    MaxClock = 1
    MaxLeaves = 1
SYMMETRY Symmetry
CHECK_DEADLOCK FALSE
INVARIANTS
    TypeOK
    NoCallLost
    PortOrder
