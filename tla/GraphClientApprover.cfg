SPECIFICATION Spec
CONSTANTS
    Pages = 3
    PageEnd <- MCPageEnd
    MaxAttempts = 3
    Status401Too = TRUE
    Listings = 1
    Expiries = 1
INVARIANTS
    PermissionWarningIsDeserved
