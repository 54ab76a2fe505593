--------------------------- MODULE ResourcesSteps ----------------------------
(*****************************************************************************)
(* The steps of steps/resource-manager/resources: resource groups, and the   *)
(* locks of resources.                                                       *)
(*****************************************************************************)
EXTENDS StepEffects, StepStartStates

relationships ==
    [RESOURCE_LOCK_HAS_ANY_SCOPE |-> <<"azure_resource_lock", "HAS", "ANY_SCOPE">>]
-----------------------------------------------------------------------------
createSubscriptionResourceGroupRelationship ==
    Finds({"azure_subscription"})
        (+) Relates({<<"azure_subscription", "HAS", "azure_resource_group">>})

fetchResourceGroups ==
    Account (+) Adds({"azure_resource_group"}) (+) createSubscriptionResourceGroupRelationship

\* A lock of several resource groups is added once.
fetchResourceGroupLocks ==
    Account (+) Each("azure_resource_group", "azure_resource_lock")
            (+) Finds({"azure_resource_lock"})

\* A target that is not in the job state is mapped.
buildResourceHasResourceLockRelationships ==
    LinksFrom("ANY_SCOPE", "HAS", "azure_resource_lock")
        (+) Maps({<<"azure_resource_lock", "HAS", "ANY_SCOPE">>})
-----------------------------------------------------------------------------
resourcesSteps == {
    Step("rm-resources-resource-groups", "resources", {"ad-account", "rm-subscription"},
         fetchResourceGroups, {"azure_resource_group"},
         {<<"azure_subscription", "HAS", "azure_resource_group">>}),
    Step("rm-resources-resource-locks", "resources", {"rm-resources-resource-groups"},
         fetchResourceGroupLocks, {"azure_resource_lock"}, {}),
    Step("rm-resources-resource-has-resource-lock-relationships", "resources",
         {"rm-resources-resource-locks"} \cup getResourceManagerSteps.executeFirstSteps,
         buildResourceHasResourceLockRelationships, {},
         {relationships.RESOURCE_LOCK_HAS_ANY_SCOPE})}
=============================================================================
