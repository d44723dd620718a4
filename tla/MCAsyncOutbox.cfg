SPECIFICATION FairSpec
CONSTANTS
    d1 = d1
    d2 = d2
    NoToken = NoToken
    Messages <- MCMessages
    Dispatchers <- MCDispatchers
    Tokens <- MCTokens
    Limit = 2
    MaxCrashes = 1
INVARIANTS
    DeliveriesAccounted
PROPERTIES
    PublishedIsFinal
    EventuallyPublished
CHECK_DEADLOCK FALSE
