CONSTANTS
    Operation <- Operations
    Graph <- Graphs
    PointerResolver <- Resolvers
    MaxResponses = 3
    MaxChanges = 1
    MaxFaults = 1
SPECIFICATION Spec
CHECK_DEADLOCK FALSE
INVARIANTS
    PointersResolve
    HitIsTheAnswer
PROPERTIES
    ReadsWhatItSaved
