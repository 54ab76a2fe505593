SPECIFICATION Spec
CONSTANTS
    Steps <- MCSteps
    DependsOn <- MCDependsOn
    Ancestors <- MCAncestors
    Handler <- MCHandler
    Declared <- MCDeclared
    LastGraph <- MCLastGraph
    Wildcards <- MCWildcards
    Races <- MCRaces
    Undeclared <- MCUndeclared
    Unchecked <- MCUnchecked
    StartStates <- MCAllEnabled
    FullStates <- MCFullStates
    Foci <- MCFoci
    Losses = 1
INVARIANTS
    TypeOK
    NoDanglingEdge
    ThrowsOnlyAfterFailure
    NothingLostSilently
    OutcomeIsDetermined
PROPERTIES
    NothingArrivesLate
