SPECIFICATION FairSpec
CONSTANTS
    Pages = 3
    PageEnd <- MCPageEnd
    MaxAttempts = 3
    Status401Too = FALSE
    Listings = 2
    Expiries = 2
INVARIANTS
    TypeOK
    RejectedTokenNotResent
    ExpiryIsSurvived
    FailsOnlyWhenExhausted
    CompleteUnlessAbsorbed
PROPERTIES
    KeepsPromise
    ListingEnds
