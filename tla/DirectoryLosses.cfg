SPECIFICATION FairSpec
CONSTANTS
    Steps <- DirectoryStepIds
    DependsOn <- DirectoryDependsOn
    Ancestors <- MCAncestors
    Users <- MCUsers
    Groups <- MCNoNested
    Devices <- MCDevices
    ServicePrincipals <- MCServicePrincipals
    Roles <- MCRoles
    Domains <- MCDomains
    VerifiedDomains <- MCVerifiedDomains
    Others <- MCOthers
    Registered <- MCUsers
    RegisteredUsers <- MCRegisteredUsers
    GroupMembers <- MCFewMembers
    RoleAssignments <- MCFewRoleAssignments
    AppRoleAssignments <- MCFewAppRoleAssignments
    Losses = 1
INVARIANTS
    EveryDeclaredEdge
    NoDanglingEdge
    AccountAvailable
    RegistrationNotLost
PROPERTIES
    RunEnds
