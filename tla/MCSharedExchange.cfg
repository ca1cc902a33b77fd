CONSTANTS
    Tab = {t1, t2}
    Query = {q}
    Subscription = {s}
    None = None
    MaxExecutes = 2
    MaxUpdates = 1
    MaxDeaths = 1
SPECIFICATION LiveSpec
CHECK_DEADLOCK FALSE
INVARIANTS
    BooksAgree
    OneUpstream
PROPERTIES
    SubscriptionIsCarried
    QueryIsAnswered
