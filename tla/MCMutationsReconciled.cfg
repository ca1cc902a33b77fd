CONSTANTS
    Mutation = {m1, m2}
    Entity = {e1}
    Field = {f}
    ServerVal = {s}
    Absent = Absent
    Null = Null
    MaxCrashes = 0
    MaxNetErrors = 0
    MaxDbFaults = 0
SPECIFICATION Spec
INVARIANTS
    Reconciled
