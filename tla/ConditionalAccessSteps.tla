----------------------- MODULE ConditionalAccessSteps ------------------------
(*****************************************************************************)
(* The steps of steps/active-directory/conditional-access-policy: policies,  *)
(* and whom and where they apply.                                            *)
(*****************************************************************************)
EXTENDS StepEffects

ConditionalAccessEntities ==
    [CONDITIONAL_ACCESS |-> "azure_conditional_access_service",
     CONDITIONAL_ACCESS_POLICY |-> "azure_conditional_access_policy",
     CONDITIONAL_ACCESS_TEMPLATE |-> "azure_conditional_access_template",
     CONDITIONAL_ACCESS_NAMED_LOCATION |-> "azure_conditional_access_named_location",
     CONDITIONAL_ACCESS_AUTH_CONTEXT |-> "azure_conditional_access_authorization_context"]

ConditionalAccessRelationships ==
    [CONDITIONAL_ACCESS_HAS_CONDITIONAL_ACCESS_POLICY |-> <<"azure_conditional_access_service", "HAS", "azure_conditional_access_policy">>,
     CONDITIONAL_ACCESS_HAS_CONDITIONAL_ACCESS_AUTH_CONTEXT |-> <<"azure_conditional_access_service", "HAS", "azure_conditional_access_authorization_context">>,
     CONDITIONAL_ACCESS_HAS_CONDITIONAL_ACCESS_TEMPLATE |-> <<"azure_conditional_access_service", "HAS", "azure_conditional_access_template">>,
     CONDITIONAL_ACCESS_POLICY_CONTAINS_NAMED_LOCATION |-> <<"azure_conditional_access_policy", "CONTAINS", "azure_conditional_access_named_location">>,
     CONDITIONAL_ACCESS_POLICY_ASSIGNED_AD_USERS |-> <<"azure_conditional_access_policy", "ASSIGNED", "azure_user">>,
     CONDITIONAL_ACCESS_POLICY_ASSIGNED_AD_GROUPS |-> <<"azure_conditional_access_policy", "ASSIGNED", "azure_user_group">>]
-----------------------------------------------------------------------------
\* One entity stands for the service.
fetchConditionalAccess                     == Adds({"azure_conditional_access_service"})
fetchConditionalAccessPolicy               == Adds({"azure_conditional_access_policy"})
fetchConditionalAcessNamedLocation         == Adds({"azure_conditional_access_named_location"})
fetchConditionalAccessAuthorizationContext ==
    Adds({"azure_conditional_access_authorization_context"})
fetchConditionalAccessTemplate             == Adds({"azure_conditional_access_template"})

\* The key of the service is made from the id of the instance, and is not looked up.
ServiceHas(type) ==
    Iterates({type}) (+) Relates({<<"azure_conditional_access_service", "HAS", type>>})

buildConditionalAccessHasConditionalAccessPolicyRelationships ==
    ServiceHas("azure_conditional_access_policy")

buildConditionalAccessHasConditionalAccessAuthContextRelationships ==
    ServiceHas("azure_conditional_access_authorization_context")

buildConditionalAccessHasConditionalAccessTemplateRelationships ==
    ServiceHas("azure_conditional_access_template")

\* The keys of the locations and groups are made from the ids in the policy.
ByIdInPolicy(class, type) ==
    Iterates({"azure_conditional_access_policy"})
        (+) Relates({<<"azure_conditional_access_policy", class, type>>})

buildConditionalAccessPolicyContainsNamedLocationsRelationships ==
    ByIdInPolicy("CONTAINS", "azure_conditional_access_named_location")

buildConditionalAccessPolicyAssignedGroupsRelationships ==
    ByIdInPolicy("ASSIGNED", "azure_user_group")

\* 'All' stands for every user, 'None' for no further one.
buildConditionalAccessPolicyAssignedUsersRelationships ==
    LinksTo("azure_conditional_access_policy", "ASSIGNED", "azure_user")
        (+) Iterates({"azure_user"})
-----------------------------------------------------------------------------
conditionalAccessStep ==
    Step("ad-conditional-access", "conditional-access-policy", {}, fetchConditionalAccess,
         {ConditionalAccessEntities.CONDITIONAL_ACCESS}, {})

conditionalAccessPolicyStep ==
    Step("ad-conditional-access-policy", "conditional-access-policy", {},
         fetchConditionalAccessPolicy, {ConditionalAccessEntities.CONDITIONAL_ACCESS_POLICY},
         {})

conditionalAccessNamedLocatoinStep ==
    Step("ad-conditional-access-named-location", "conditional-access-policy", {},
         fetchConditionalAcessNamedLocation,
         {ConditionalAccessEntities.CONDITIONAL_ACCESS_NAMED_LOCATION}, {})

conditionalAccessAuthorizationContextStep ==
    Step("ad-conditional-access-auth-context", "conditional-access-policy", {},
         fetchConditionalAccessAuthorizationContext,
         {ConditionalAccessEntities.CONDITIONAL_ACCESS_AUTH_CONTEXT}, {})

conditionalAccessTemplateStep ==
    Step("ad-conditional-access-template", "conditional-access-policy", {},
         fetchConditionalAccessTemplate,
         {ConditionalAccessEntities.CONDITIONAL_ACCESS_TEMPLATE}, {})

conditionalAccessHasConditionalAccessPoliciesStep ==
    Step("ad-conditional-access-has-conditional-access-policy-relationships", NoSource,
         {"ad-conditional-access", "ad-conditional-access-policy"},
         buildConditionalAccessHasConditionalAccessPolicyRelationships, {},
         {ConditionalAccessRelationships.CONDITIONAL_ACCESS_HAS_CONDITIONAL_ACCESS_POLICY})

conditionalAccessHasConditionalAccessAuthContextsStep ==
    Step("ad-conditional-access-has-conditional-access-auth-context-relationships", NoSource,
         {"ad-conditional-access", "ad-conditional-access-auth-context"},
         buildConditionalAccessHasConditionalAccessAuthContextRelationships, {},
         {ConditionalAccessRelationships.CONDITIONAL_ACCESS_HAS_CONDITIONAL_ACCESS_AUTH_CONTEXT})

conditionalAccessHasConditionalAccessTemplateStep ==
    Step("ad-conditional-access-has-conditional-access-template-relationships", NoSource,
         {"ad-conditional-access", "ad-conditional-access-template"},
         buildConditionalAccessHasConditionalAccessTemplateRelationships, {},
         {ConditionalAccessRelationships.CONDITIONAL_ACCESS_HAS_CONDITIONAL_ACCESS_TEMPLATE})

conditionalAccessPolicyContainsNamedLocationStep ==
    Step("ad-conditional-access-policy-contains-conditional-access-named-location-relationships", NoSource,
         {"ad-conditional-access-named-location", "ad-conditional-access-policy"},
         buildConditionalAccessPolicyContainsNamedLocationsRelationships, {},
         {ConditionalAccessRelationships.CONDITIONAL_ACCESS_POLICY_CONTAINS_NAMED_LOCATION})

conditionalAccessPolicyAssignedADUsersStep ==
    Step("ad-conditional-access-policy-assigned-azure-ad-users-relationships", "conditional-access-policy-user-relationship",
         {"ad-conditional-access-policy", "ad-users"},
         buildConditionalAccessPolicyAssignedUsersRelationships, {},
         {ConditionalAccessRelationships.CONDITIONAL_ACCESS_POLICY_ASSIGNED_AD_USERS})

conditionalAccessPolicyAssignedADGroupsStep ==
    Step("ad-conditional-access-policy-assigned-azure-ad-groups-relationships", NoSource,
         {"ad-conditional-access-policy", "ad-groups"},
         buildConditionalAccessPolicyAssignedGroupsRelationships, {},
         {ConditionalAccessRelationships.CONDITIONAL_ACCESS_POLICY_ASSIGNED_AD_GROUPS})

conditionalAccessPolicySteps == {
    conditionalAccessStep,
    conditionalAccessPolicyStep,
    conditionalAccessNamedLocatoinStep,
    conditionalAccessAuthorizationContextStep,
    conditionalAccessTemplateStep,
    conditionalAccessHasConditionalAccessPoliciesStep,
    conditionalAccessHasConditionalAccessAuthContextsStep,
    conditionalAccessHasConditionalAccessTemplateStep,
    conditionalAccessPolicyContainsNamedLocationStep,
    conditionalAccessPolicyAssignedADUsersStep,
    conditionalAccessPolicyAssignedADGroupsStep}
=============================================================================
