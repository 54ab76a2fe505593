SPECIFICATION Spec
CONSTANTS
    Pages = 3
    Attempts = 2
INVARIANTS
    TypeOK
    
    HandedOverOnce
    OutagesAreSurvived
    ForbiddenIsReported
PROPERTIES
    CallEnds
