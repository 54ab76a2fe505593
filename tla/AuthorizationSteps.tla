------------------------- MODULE AuthorizationSteps --------------------------
(*****************************************************************************)
(* The steps of steps/resource-manager/authorization: role definitions,      *)
(* their assignments and the classic administrators.                         *)
(*****************************************************************************)
EXTENDS StepEffects

entities ==
    [ROLE_DEFINITION |-> "azure_role_definition",
     CLASSIC_ADMIN |-> "azure_classic_admin_group",
     ROLE_ASSIGNMENT |-> "azure_role_assignment"]

relationships ==
    [CLASSIC_ADMIN_GROUP_HAS_USER |-> <<"azure_classic_admin_group", "HAS", "azure_user">>,
     ROLE_ASSIGNMENT_USES_DEFINITION |-> <<"azure_role_assignment", "USES", "azure_role_definition">>,
     SUBSCRIPTION_CONTAINS_ROLE_DEFINITION |-> <<"azure_subscription", "CONTAINS", "azure_role_definition">>,
     ROLE_ASSIGNMENT_ALLOWS_ANY_SCOPE |-> <<"azure_role_assignment", "ALLOWS", "ANY_SCOPE">>]
-----------------------------------------------------------------------------
ROLE_ASSIGNMENT_PRINCIPAL_TYPES_MAP ==
    {"azure_application", "azure_directory", "azure_directory_role_template", "azure_everyone",
     "azure_foreign_group", "azure_user_group", "azure_msi", "azure_service_principal",
     "azure_unknown", "azure_user"}

ROLE_ASSIGNMENT_DEFAULT_PRINCIPAL_TYPE == "azure_unknown_principal_type"

\* What it returns: the default for a type the table does not know.
getJupiterTypeForPrincipalType ==
    ROLE_ASSIGNMENT_PRINCIPAL_TYPES_MAP \cup {ROLE_ASSIGNMENT_DEFAULT_PRINCIPAL_TYPE}

createRoleAssignmentPrincipalRelationshipType(type) ==
    <<"azure_role_assignment", "ASSIGNED", type>>

ROLE_ASSIGNMENT_PRINCIPAL_RELATIONSHIPS ==
    {createRoleAssignmentPrincipalRelationshipType(type) : type \in getJupiterTypeForPrincipalType}

\* The definition is looked up for its name only.
fetchRoleAssignments ==
    Account (+) Finds({"azure_role_definition"}) (+) Adds({"azure_role_assignment"})

buildRoleAssignmentPrincipalRelationships ==
    Iterates({"azure_role_assignment"}) (+) Maps(ROLE_ASSIGNMENT_PRINCIPAL_RELATIONSHIPS)

\* A scope that is not in the job state is mapped.
buildRoleAssignmentScopeRelationships ==
    LinksTo("azure_role_assignment", "ALLOWS", "ANY_SCOPE")
        (+) Maps({<<"azure_role_assignment", "ALLOWS", "azure_scope">>})

fetchRoleDefinitions ==
    Account (+) Under("azure_subscription", "CONTAINS", "azure_role_definition")

buildRoleAssignmentDefinitionRelationships ==
    LinksTo("azure_role_assignment", "USES", "azure_role_definition")

\* The group is added before the administrators are listed.
fetchClassicAdministrators ==
    Account (+) Adds({"azure_classic_admin_group"})
            (+) Maps({<<"azure_classic_admin_group", "HAS", "azure_user">>})
-----------------------------------------------------------------------------
authorizationSteps == {
    Step("rm-authorization-role-assignments", "authorization",
         {"ad-account", "rm-authorization-role-definitions"}, fetchRoleAssignments,
         {entities.ROLE_ASSIGNMENT}, {}),
    Step("rm-authorization-role-assignment-principal-relationships", "authorization",
         {"rm-authorization-role-assignments"}, buildRoleAssignmentPrincipalRelationships, {},
         ROLE_ASSIGNMENT_PRINCIPAL_RELATIONSHIPS),
    InLastGraph(Step("rm-authorization-role-assignment-scope-relationships", "authorization",
         {}, buildRoleAssignmentScopeRelationships, {},
         {relationships.ROLE_ASSIGNMENT_ALLOWS_ANY_SCOPE})),
    Step("rm-authorization-role-definitions", "authorization",
         {"ad-account", "rm-subscription"}, fetchRoleDefinitions, {entities.ROLE_DEFINITION},
         {relationships.SUBSCRIPTION_CONTAINS_ROLE_DEFINITION}),
    Step("rm-authorization-role-assignment-definition-relationships", "authorization",
         {"rm-authorization-role-assignments", "rm-authorization-role-definitions"},
         buildRoleAssignmentDefinitionRelationships, {},
         {relationships.ROLE_ASSIGNMENT_USES_DEFINITION}),
    Step("rm-authorization-classic-administrators", "authorization", {"ad-account"},
         fetchClassicAdministrators, {entities.CLASSIC_ADMIN},
         {relationships.CLASSIC_ADMIN_GROUP_HAS_USER})}
=============================================================================
