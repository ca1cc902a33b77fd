CONSTANTS
    Consumer = {c1, c2}
    Statement = {s1, s2}
    None = None
    MaxResigns = 1
    MaxErrors = 1
    MaxCloses = 1
    MaxDestroys = 1
SPECIFICATION LiveSpec
CHECK_DEADLOCK FALSE
INVARIANTS
    TypeOK
    AllOrNothing
    StaleIdShadowsNothing
PROPERTIES
    EveryTransactionEnds
