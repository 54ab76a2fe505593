SPECIFICATION FairSpec
CONSTANTS
    Pages = 2
    PageEnd <- MCTwoPages
    TokenAttempts = 2
    PageAttempts = 1
    FollowsLinks = TRUE
    EmptyPages = {1, 2}
    Listings = 1
PROPERTIES
    NotFoundEndsListing
