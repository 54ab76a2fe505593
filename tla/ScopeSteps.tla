----------------------------- MODULE ScopeSteps ------------------------------
(*****************************************************************************)
(* The steps of the scopes above the resource groups:                        *)
(* steps/resource-manager/subscriptions and management-groups.               *)
(*                                                                           *)
(* A definition marked FAULT is no part of the table: it is a bug the        *)
(* definition after it could have.                                           *)
(*****************************************************************************)
EXTENDS StepEffects

-----------------------------------------------------------------------------
\* steps/resource-manager/subscriptions

entities ==
    [SUBSCRIPTION |-> "azure_subscription",
     LOCATION |-> "azure_location",
     USAGE |-> "azure_usage_details"]

relationships ==
    [SUBSCRIPTION_USES_LOCATION |-> <<"azure_subscription", "USES", "azure_location">>,
     SUBSCRIPTION_HAS_USAGE_DETAILS |-> <<"azure_subscription", "HAS", "azure_usage_details">>]

mappedRelationships ==
    [SUBSCRIPTION_USES_LOCATION |-> <<"azure_subscription", "USES", "azure_location">>]
-----------------------------------------------------------------------------
\* The subscription of the instance.
fetchSubscription == Account (+) Adds({"azure_subscription"})

\* The subscriptions with a tag that says not to ingest them.
fetchAllSkippedSubscriptions == Account (+) Adds({"azure_subscription"})

fetchSubscriptionDiagnosticSettings ==
    Iterates({"azure_subscription"}) (+) Diagnostics("azure_subscription")

\* FAULT: the handler does not hand on the map of location names.
fetchLocationsKeepsMap ==
    Iterates({"azure_subscription"})
        (+) Maps({<<"azure_subscription", "USES", "azure_location">>})

fetchLocations ==
    Iterates({"azure_subscription"})
        (+) Maps({<<"azure_subscription", "USES", "azure_location">>})
        (+) Sets({"DATA_LOCATION_NAME_MAP"})

fetchSubscriptionUsageDetails ==
    Account (+) Under("azure_subscription", "HAS", "azure_usage_details")
-----------------------------------------------------------------------------
fetchSubscriptionSteps == {
    Step("rm-subscription", "subscriptions", {"ad-account"}, fetchSubscription,
         {entities.SUBSCRIPTION}, {}),
    Step("rm-skipped-subscription", "subscriptions", {"ad-account"},
         fetchAllSkippedSubscriptions, {entities.SUBSCRIPTION}, {}),
    Step("rm-subscription-diagnostic-settings", "subscriptions",
         {"rm-storage-resources", "rm-subscription"}, fetchSubscriptionDiagnosticSettings,
         {"azure_diagnostic_setting"}, DiagnosticRelationships)}

\* FAULT: the step does not wait for the subscription.
locationStepsUnordered == {
    Step("rm-subscription-locations", "subscriptions", {"ad-account"},
         fetchLocations, {}, {mappedRelationships.SUBSCRIPTION_USES_LOCATION})}

locationSteps == {
    Step("rm-subscription-locations", "subscriptions", {"ad-account", "rm-subscription"},
         fetchLocations, {}, {mappedRelationships.SUBSCRIPTION_USES_LOCATION})}

\* FAULT: the step depends on nothing.
usageDetailsStepsAtOnce == {
    Step("rm-subscription-usage-details", "subscriptions_usage", {},
         fetchSubscriptionUsageDetails, {entities.USAGE},
         {relationships.SUBSCRIPTION_HAS_USAGE_DETAILS})}

\* FAULT: the step does not declare its relationship.
usageDetailsStepsEntityOnly == {
    Step("rm-subscription-usage-details", "subscriptions_usage",
         {"rm-subscription", "rm-subscription-diagnostic-settings"},
         fetchSubscriptionUsageDetails, {entities.USAGE}, {})}

usageDetailsSteps == {
    Step("rm-subscription-usage-details", "subscriptions_usage",
         {"rm-subscription", "rm-subscription-diagnostic-settings"},
         fetchSubscriptionUsageDetails, {entities.USAGE},
         {relationships.SUBSCRIPTION_HAS_USAGE_DETAILS})}

subscriptionSteps == fetchSubscriptionSteps \cup locationSteps \cup usageDetailsSteps
-----------------------------------------------------------------------------
\* steps/resource-manager/management-groups

ManagementGroupEntities ==
    [MANAGEMENT_GROUP |-> "azure_management_group"]

ManagementGroupRelationships ==
    [ACCOUNT_HAS_ROOT_MANAGEMENT_GROUP |-> <<"azure_account", "HAS", "azure_management_group">>,
     MANAGEMENT_GROUP_CONTAINS_MANAGEMENT_GROUP |-> <<"azure_management_group", "CONTAINS", "azure_management_group">>]

ManagementGroupMappedRelationships ==
    [MANAGEMENT_GROUP_HAS_SUBSCRIPTION |-> <<"azure_management_group", "HAS", "azure_subscription">>]
-----------------------------------------------------------------------------
\* A group, then its children; subscriptions are the targets of mapped relationships.
getGraphObjectsForManagementGroup ==
    Adds({"azure_management_group"})
        (+) Relates({<<"azure_management_group", "CONTAINS", "azure_management_group">>})
        (+) Maps({<<"azure_management_group", "HAS", "azure_subscription">>})

\* From the root group down.
fetchManagementGroups ==
    Account (+) getGraphObjectsForManagementGroup
            (+) Relates({<<"azure_account", "HAS", "azure_management_group">>})
-----------------------------------------------------------------------------
managementGroupSteps == {
    Step("rm-management-groups", "management-groups", {"ad-account"}, fetchManagementGroups,
         {ManagementGroupEntities.MANAGEMENT_GROUP},
         {ManagementGroupRelationships.ACCOUNT_HAS_ROOT_MANAGEMENT_GROUP,
          ManagementGroupRelationships.MANAGEMENT_GROUP_CONTAINS_MANAGEMENT_GROUP,
          ManagementGroupMappedRelationships.MANAGEMENT_GROUP_HAS_SUBSCRIPTION})}
=============================================================================
