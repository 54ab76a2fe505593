------------------------ MODULE ActiveDirectorySteps -------------------------
(*****************************************************************************)
(* The steps of steps/active-directory/index.ts as the other services see    *)
(* them; DirectorySteps models their handlers in detail.                     *)
(*****************************************************************************)
EXTENDS StepEffects

ADEntities ==
    [ACCOUNT |-> "azure_account",
     USER |-> "azure_user",
     DEVICE |-> "azure_device",
     USER_GROUP |-> "azure_user_group",
     GROUP_MEMBER |-> "azure_group_member",
     SERVICE_PRINCIPAL |-> "azure_service_principal",
     AD_ROLE_DEFINITION |-> "azure_ad_role_definition",
     AD_DOMAIN |-> "azure_domain"]

ADRelationships ==
    [ACCOUNT_HAS_USER |-> <<"azure_account", "HAS", "azure_user">>,
     ACCOUNT_HAS_DOMAIN |-> <<"azure_account", "HAS", "azure_domain">>,
     USER_HAS_DEVICE |-> <<"azure_user", "HAS", "azure_device">>,
     ACCOUNT_HAS_GROUP |-> <<"azure_account", "HAS", "azure_user_group">>,
     GROUP_HAS_USER |-> <<"azure_user_group", "HAS", "azure_user">>,
     GROUP_HAS_GROUP |-> <<"azure_user_group", "HAS", "azure_user_group">>,
     GROUP_HAS_MEMBER |-> <<"azure_user_group", "HAS", "azure_group_member">>,
     USER_HAS_ROLE |-> <<"azure_user", "HAS", "ad-role-definitions">>,
     SERVICE_PRINCIPAL_HAS_ROLE |-> <<"azure_service_principal", "HAS", "ad-role-definitions">>,
     SERVICE_PRINCIPAL_ASSIGNED_USER_GROUP |-> <<"azure_service_principal", "ASSIGNED", "azure_user_group">>,
     SERVICE_PRINCIPAL_ASSIGNED_USER |-> <<"azure_service_principal", "ASSIGNED", "azure_user">>,
     SERVICE_PRINCIPAL_ASSIGNED_SERVICE_PRINCIPAL |-> <<"azure_service_principal", "ASSIGNED", "azure_service_principal">>]
-----------------------------------------------------------------------------
\* Made from the instance if the organization cannot be fetched.
fetchAccount == Adds({"azure_account"}) (+) Sets({"azure_account"})

fetchDomain == Adds({"azure_domain"})

buildAccountDomainRelationship == LinksTo("azure_account", "HAS", "azure_domain")

fetchUserRegistrationDetails == Sets({"userRegistrationDetailsMap"})

AccountHas(type) == Account (+) Adds({type}) (+) Relates({<<"azure_account", "HAS", type>>})

fetchUsers  == AccountHas("azure_user") (+) Reads({"userRegistrationDetailsMap"})

fetchGroups == AccountHas("azure_user_group")

fetchDevices ==
    Finds({"azure_user"}) (+) Adds({"azure_device"})
        (+) Relates({<<"azure_user", "HAS", "azure_device">>})

\* A member that is no user and no group is related as a group member, an entity that no
\* step adds, if a device or service principal with its key has been ingested.
fetchGroupMembers ==
    LET member == {<<"azure_user_group", "HAS", "azure_group_member">>}
    IN  LinksTo("azure_user_group", "HAS", "azure_user")
            (+) LinksTo("azure_user_group", "HAS", "azure_user_group")
            (+) Relates(member)
            (+) Needs(member, "azure_device") (+) Needs(member, "azure_service_principal")

fetchServicePrincipals == Adds({"azure_service_principal"})

fetchADRoleDefinitions == Adds({"azure_ad_role_definition"})

\* A principal is whatever has been ingested under its id.
fetchADRoleAssignments ==
    LET principals == {"azure_user", "azure_user_group", "azure_service_principal"}
    IN  Finds(principals \cup {"azure_ad_role_definition"})
            (+) Relates(principals \X {"HAS"} \X {"azure_ad_role_definition"})

fetchServicePrincipalAccess ==
    LET members == {"azure_user", "azure_user_group", "azure_service_principal"}
    IN  Iterates({"azure_service_principal"}) (+) Finds(members)
            (+) Relates({"azure_service_principal"} \X {"ASSIGNED"} \X members)
-----------------------------------------------------------------------------
activeDirectorySteps == {
    Step("ad-account", "ad-generals", {}, fetchAccount, {ADEntities.ACCOUNT}, {}),
    Step("ad-domain", "ad-domain", {}, fetchDomain, {ADEntities.AD_DOMAIN}, {}),
    Step("ad-account-domain", NoSource, {"ad-account", "ad-domain"},
         buildAccountDomainRelationship, {}, {ADRelationships.ACCOUNT_HAS_DOMAIN}),
    Step("ad-user-registration-details", NoSource, {}, fetchUserRegistrationDetails, {}, {}),
    Step("ad-users", NoSource, {"ad-account", "ad-user-registration-details"}, fetchUsers,
         {ADEntities.USER}, {ADRelationships.ACCOUNT_HAS_USER}),
    Step("ad-devices", "ad-devices", {"ad-users"}, fetchDevices, {ADEntities.DEVICE},
         {ADRelationships.USER_HAS_DEVICE}),
    Step("ad-groups", "ad-groups", {"ad-account"}, fetchGroups, {ADEntities.USER_GROUP},
         {ADRelationships.ACCOUNT_HAS_GROUP}),
    Step("ad-group-members", NoSource, {"ad-groups", "ad-users"}, fetchGroupMembers,
         {ADEntities.GROUP_MEMBER},
         {ADRelationships.GROUP_HAS_USER, ADRelationships.GROUP_HAS_GROUP,
          ADRelationships.GROUP_HAS_MEMBER}),
    Step("ad-service-principals", NoSource, {"ad-account"}, fetchServicePrincipals,
         {ADEntities.SERVICE_PRINCIPAL}, {}),
    Step("ad-role-definitions", NoSource, {"ad-account"}, fetchADRoleDefinitions,
         {ADEntities.AD_ROLE_DEFINITION}, {}),
    Step("ad-role-assignments", NoSource,
         {"ad-role-definitions", "ad-service-principals", "ad-users"}, fetchADRoleAssignments,
         {}, {ADRelationships.USER_HAS_ROLE, ADRelationships.SERVICE_PRINCIPAL_HAS_ROLE}),
    Step("ad-role-service_principal_access", NoSource,
         {"ad-groups", "ad-service-principals", "ad-users"}, fetchServicePrincipalAccess, {},
         {ADRelationships.SERVICE_PRINCIPAL_ASSIGNED_USER_GROUP,
          ADRelationships.SERVICE_PRINCIPAL_ASSIGNED_USER,
          ADRelationships.SERVICE_PRINCIPAL_ASSIGNED_SERVICE_PRINCIPAL})}
=============================================================================
