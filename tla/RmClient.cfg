SPECIFICATION FairSpec
CONSTANTS
    Pages = 3
    PageEnd <- MCPageEnd
    TokenAttempts = 2
    PageAttempts = 3
    FollowsLinks = TRUE
    EmptyPages = {1, 2, 3}
    Listings = 2
INVARIANTS
    TypeOK
    DeliveredInOrder
    CompleteUnlessAbsorbed
    RetryDiscipline
    FinalErrorsSurface
PROPERTIES
    TokenFetchedOnce
    KeepsPromise
    ListingEnds
