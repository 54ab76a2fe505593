SPECIFICATION Spec
CONSTANTS
    Pages = 2
    PageEnd <- MCTwoPages
    TokenAttempts = 2
    PageAttempts = 1
    FollowsLinks = FALSE
    EmptyPages = {}
    Listings = 1
INVARIANTS
    DeliveredInOrder
