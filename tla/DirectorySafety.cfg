SPECIFICATION Spec
CONSTANTS
    Steps <- DirectoryStepIds
    DependsOn <- DirectoryDependsOn
    Ancestors <- MCAncestors
    Users <- MCUsers
    Groups <- MCGroups
    Devices <- MCDevices
    ServicePrincipals <- MCServicePrincipals
    Roles <- MCRoles
    Domains <- MCDomains
    VerifiedDomains <- MCVerifiedDomains
    Others <- MCOthers
    Registered <- MCUsers
    RegisteredUsers <- MCRegisteredUsers
    GroupMembers <- MCGroupMembers
    RoleAssignments <- MCRoleAssignments
    AppRoleAssignments <- MCAppRoleAssignments
    Losses = 0
INVARIANTS
    TypeOK
    NothingAddedTwice
