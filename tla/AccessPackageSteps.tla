------------------------- MODULE AccessPackageSteps --------------------------
(*****************************************************************************)
(* The steps of steps/active-directory/access-groups: access packages,       *)
(* their assignments, requests and catalogs.                                 *)
(*****************************************************************************)
EXTENDS StepEffects

accessPackageEntites ==
    [STEP_ACCESS_PACKAGE |-> "azure_access_packages_services",
     STEP_ACCESS_PACKAGE_ASSIGNMENT |-> "azure_access_packages_service_assignment",
     STEP_ACCESS_PACKAGE_ASSIGNMENT_POLICY |-> "azure_access_packages_policy",
     STEP_ACCESS_PACKAGE_ASSIGNMENT_REQUEST |-> "azure_access_packages_request",
     STEP_ACCESS_PACKAGE_ASSIGNMENT_APPROVER |-> "azure_access_packages_approver",
     STEP_ACCESS_PACKAGE_CATALOG |-> "azure_access_packages_catalog",
     STEP_AZURE_APPLICATION |-> "azure_application"]

accessPackageRelationships ==
    [STEP_ACCESS_PACKAGE_ASSIGNMENT_APPROVER_IS_AZURE_USER_RELATIONSHIP |-> <<"azure_access_packages_approver", "IS", "azure_user">>,
     STEP_AZURE_USER_CREATED_ACCESS_PACKAGE_ASSIGNMENT_REQUEST_RELATIONSHIP |-> <<"azure_user", "CREATED", "azure_access_packages_request">>,
     STEP_ACCESS_PACKAGE_HAS_ACCESS_PACKAGE_ASSIGNMENT_RELATIONSHIP |-> <<"azure_access_packages_services", "HAS", "azure_access_packages_service_assignment">>,
     STEP_ACCESS_PACKAGE_ASSIGNMENT_CONTAINS_ACCESS_PACKAGE_ASSIGNMENT_POLICY_RELATIONSHIP |-> <<"azure_access_packages_service_assignment", "CONTAINS", "azure_access_packages_policy">>,
     STEP_AZURE_USER_ASSIGNED_TO_ACCESS_PACKAGE_RELATIONSHIP |-> <<"azure_user", "ASSIGNED", "azure_access_packages_services">>,
     STEP_AZURE_GROUP_ASSIGNED_TO_ACCESS_PACKAGE_RELATIONSHIP |-> <<"azure_user_group", "ASSIGNED", "azure_access_packages_services">>,
     STEP_AZURE_APPLICATION_ASSIGNED_TO_ACCESS_PACKAGE_CATALOG_RELATIONSHIP |-> <<"azure_access_packages_catalog", "ASSIGNED", "azure_application">>,
     STEP_ACCESS_PACKAGE_HAS_APPLICATION_RELATIONSHIP |-> <<"azure_access_packages_services", "HAS", "azure_application">>]
-----------------------------------------------------------------------------
fetchAccessPackages                == Adds({"azure_access_packages_services"})
fetchAccessPackageAssignment       == Adds({"azure_access_packages_service_assignment"})
fetchAccessPackageAssignmentPolicy == Adds({"azure_access_packages_policy"})
fetchAccessPackageAssignmentRequest == Adds({"azure_access_packages_request"})
fetchAzureApplication              == Adds({"azure_application"})

\* The key of an approver is not made from its request.
fetchAccessPackageAssignmentApprover ==
    Each("azure_access_packages_request", "azure_access_packages_approver")

\* A catalog is added at the first page of its resources that holds an application.
fetchAccessPackageCatalog ==
    Finds({"azure_access_packages_catalog"}) (+) Adds({"azure_access_packages_catalog"})

buildAccessPackageApproverIsAzureUserRelationship ==
    LinksTo("azure_access_packages_approver", "IS", "azure_user")

buildApplicationAssignedToCatalogRelationship ==
    LinksFrom("azure_application", "ASSIGNED", "azure_access_packages_catalog")

buildAzureUserCreatedAccessPackageAssignmentRequestRelationship ==
    LinksFrom("azure_user", "CREATED", "azure_access_packages_request")

buildAccessPackageHasAccessPackageAssignmentRelationship ==
    LinksFrom("azure_access_packages_services", "HAS", "azure_access_packages_service_assignment")

buildAccessPackageAssignmentContainsAccessPackageAssignmentPolicyRelationship ==
    LinksTo("azure_access_packages_service_assignment", "CONTAINS", "azure_access_packages_policy")

\* Both ends are found by the ids in the assignment (the application: in the catalog).
BetweenIdsOf(type, from, class, to) ==
    Iterates({type}) (+) Finds({from, to}) (+) Relates({<<from, class, to>>})
        (+) Needs({<<from, class, to>>}, type)

buildAzureUserAssignedToAccessPackageRelationship ==
    BetweenIdsOf("azure_access_packages_service_assignment",
                 "azure_user", "ASSIGNED", "azure_access_packages_services")

buildAzureGroupAssignedToAccessPackageRelationship ==
    BetweenIdsOf("azure_access_packages_service_assignment",
                 "azure_user_group", "ASSIGNED", "azure_access_packages_services")

buildAccessPackageHasApplicationRelationship ==
    BetweenIdsOf("azure_access_packages_catalog",
                 "azure_access_packages_services", "HAS", "azure_application")
-----------------------------------------------------------------------------
accessPackageEntitySteps == {
    Step("rm-access-package", "identity-governance-access-packages", {}, fetchAccessPackages,
         {accessPackageEntites.STEP_ACCESS_PACKAGE}, {}),
    Step("rm-access-package-assignment", "identity-governance-access-packages", {},
         fetchAccessPackageAssignment, {accessPackageEntites.STEP_ACCESS_PACKAGE_ASSIGNMENT},
         {}),
    Step("rm-access-package-assignment-policy", "identity-governance-access-packages", {},
         fetchAccessPackageAssignmentPolicy,
         {accessPackageEntites.STEP_ACCESS_PACKAGE_ASSIGNMENT_POLICY}, {}),
    Step("rm-access-package-assignment-request", "identity-governance-access-packages", {},
         fetchAccessPackageAssignmentRequest,
         {accessPackageEntites.STEP_ACCESS_PACKAGE_ASSIGNMENT_REQUEST}, {}),
    Step("rm-access-package-assignment-approver", "identity-governance-access-packages",
         {"rm-access-package-assignment-request"}, fetchAccessPackageAssignmentApprover,
         {accessPackageEntites.STEP_ACCESS_PACKAGE_ASSIGNMENT_APPROVER}, {}),
    Step("rm-access-package-catalog", "identity-governance-access-packages", {},
         fetchAccessPackageCatalog, {accessPackageEntites.STEP_ACCESS_PACKAGE_CATALOG}, {})}

accessPackageRelationshipSteps == {
    Step("rm-azure-access-package-has-application", "identity-governance-access-packages",
         {"rm-access-package", "rm-access-package-catalog", "rm-azure-application"},
         buildAccessPackageHasApplicationRelationship, {},
         {accessPackageRelationships.STEP_ACCESS_PACKAGE_HAS_APPLICATION_RELATIONSHIP}),
    Step("rm-azure-application", "identity-governance-access-packages", {},
         fetchAzureApplication, {accessPackageEntites.STEP_AZURE_APPLICATION}, {}),
    Step("rm-azure-application-assigned-to-access-package-catalog", "identity-governance-access-packages",
         {"rm-access-package-catalog", "rm-azure-application"},
         buildApplicationAssignedToCatalogRelationship, {},
         {accessPackageRelationships.STEP_AZURE_APPLICATION_ASSIGNED_TO_ACCESS_PACKAGE_CATALOG_RELATIONSHIP}),
    Step("rm-access-package-assignment-approver-is-user", "identity-governance-access-packages",
         {"ad-users", "rm-access-package-assignment-approver"},
         buildAccessPackageApproverIsAzureUserRelationship, {},
         {accessPackageRelationships.STEP_ACCESS_PACKAGE_ASSIGNMENT_APPROVER_IS_AZURE_USER_RELATIONSHIP}),
    Step("rm-azure-user-create-access-package-assignment-request", "identity-governance-access-packages",
         {"ad-users", "rm-access-package-assignment-request"},
         buildAzureUserCreatedAccessPackageAssignmentRequestRelationship, {},
         {accessPackageRelationships.STEP_AZURE_USER_CREATED_ACCESS_PACKAGE_ASSIGNMENT_REQUEST_RELATIONSHIP}),
    Step("rm-access-package-has-access-package-assignment-relationship", "identity-governance-access-packages",
         {"rm-access-package", "rm-access-package-assignment"},
         buildAccessPackageHasAccessPackageAssignmentRelationship, {},
         {accessPackageRelationships.STEP_ACCESS_PACKAGE_HAS_ACCESS_PACKAGE_ASSIGNMENT_RELATIONSHIP}),
    Step("rm-access-package-assignment-contains-access-package-assignment-policy", "identity-governance-access-packages",
         {"rm-access-package-assignment", "rm-access-package-assignment-policy"},
         buildAccessPackageAssignmentContainsAccessPackageAssignmentPolicyRelationship, {},
         {accessPackageRelationships.STEP_ACCESS_PACKAGE_ASSIGNMENT_CONTAINS_ACCESS_PACKAGE_ASSIGNMENT_POLICY_RELATIONSHIP}),
    Step("rm-azure-user-assigned-to-access-package", "identity-governance-access-packages",
         {"ad-users", "rm-access-package", "rm-access-package-assignment"},
         buildAzureUserAssignedToAccessPackageRelationship, {},
         {accessPackageRelationships.STEP_AZURE_USER_ASSIGNED_TO_ACCESS_PACKAGE_RELATIONSHIP}),
    Step("rm-azure-group-assigned-to-access-package", "identity-governance-access-packages",
         {"ad-groups", "rm-access-package", "rm-access-package-assignment"},
         buildAzureGroupAssignedToAccessPackageRelationship, {},
         {accessPackageRelationships.STEP_AZURE_GROUP_ASSIGNED_TO_ACCESS_PACKAGE_RELATIONSHIP})}

accessPackageSteps == accessPackageEntitySteps \cup accessPackageRelationshipSteps
=============================================================================
