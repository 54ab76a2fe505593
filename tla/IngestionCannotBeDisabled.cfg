SPECIFICATION Spec
CONSTANTS
    Steps <- MCSteps
    DependsOn <- MCDependsOn
    Ancestors <- MCAncestors
    Handler <- MCHandler
    Declared <- MCDeclared
    LastGraph <- MCLastGraph
    Wildcards <- MCWildcards
    Races <- MCRaces
    Undeclared <- MCUndeclared
    Unchecked <- MCUnchecked
    StartStates <- MCStartStates
    FullStates <- MCFullStates
    Foci <- MCNoFocus
    Losses = 0
INVARIANTS
    CannotBeDisabled
