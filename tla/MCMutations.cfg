\* Two mutations of one entity, with a restart, a network error and a rejected statement.
CONSTANTS
    Mutation = {m1, m2}
    Entity = {e1}
    Field = {f}
    ServerVal = {s, t}
    Absent = Absent
    Null = Null
    MaxCrashes = 1
    MaxNetErrors = 1
    MaxDbFaults = 1
SPECIFICATION LiveSpec
INVARIANTS
    TypeOK
    SentInOrder
    OptimisticFieldShown
    NoLostWakeup
    InflightIsOwned
    RestartDropsRemnants
    ReplayedForAReason
PROPERTIES
    Drains
    ImplementsEntityStore
