\* Liveness, steps and refinement: two pages, two calls.
SPECIFICATION LiveSpec
CONSTANTS
    Tab = {t1, t2}
    Callback = {f1}
    Elected = Elected
    Null = Null
    MaxCalls = 2
    MaxClock = 0
    MaxLeaves = 1

CHECK_DEADLOCK FALSE
PROPERTIES
    Answered
    GivenUpWithTheLeader
    ImplementsRemoteCalls
