CONSTANTS
    Op = {a, b}
    Query = {q}
    Entity = {e}
    RootOf <- OneRoot
    Missing = Missing
    Error = Error
    Mutation = Mutation
    MaxWrites = 2
    MaxDispatches = 2
SPECIFICATION LiveSpec
INVARIANTS
    TypeOK
    NoDanglingRoot
    StaleHasALock
    NoMissedUpdate
PROPERTIES
    OnlyFailedReadsShowErrors
    StaleIsReexecuted
    Answered
CHECK_DEADLOCK FALSE
