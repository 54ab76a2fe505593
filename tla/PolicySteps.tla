----------------------------- MODULE PolicySteps -----------------------------
(*****************************************************************************)
(* The steps of policies: steps/resource-manager/policy and                  *)
(* policy-insights.                                                          *)
(*****************************************************************************)
EXTENDS StepEffects, StepStartStates

-----------------------------------------------------------------------------
\* steps/resource-manager/policy

PolicyEntities ==
    [POLICY_ASSIGNMENT |-> "azure_policy_assignment",
     POLICY_DEFINITION |-> "azure_policy_definition",
     POLICY_SET_DEFINITION |-> "azure_policy_set_definition"]

PolicyRelationships ==
    [ANY_RESOURCE_HAS_POLICY_ASSIGNMENT |-> <<"ANY_SCOPE", "HAS", "azure_policy_assignment">>,
     AZURE_POLICY_ASSIGNMENT_USES_POLICY_DEFINITION |-> <<"azure_policy_assignment", "USES", "azure_policy_definition">>,
     AZURE_POLICY_ASSIGNMENT_USES_POLICY_SET_DEFINITION |-> <<"azure_policy_assignment", "USES", "azure_policy_set_definition">>,
     AZURE_POLICY_SET_DEFINITION_CONTAINS_DEFINITION |-> <<"azure_policy_set_definition", "CONTAINS", "azure_policy_definition">>]
-----------------------------------------------------------------------------
fetchPolicyAssignments == Account (+) Adds({"azure_policy_assignment"})

buildPolicyAssignmentScopeRelationships ==
    LinksFrom("ANY_SCOPE", "HAS", "azure_policy_assignment")

getPolicyDefinition    == With("azure_policy_assignment", "azure_policy_definition")
getPolicySetDefinition == With("azure_policy_assignment", "azure_policy_set_definition")

\* The members of a set are found or created one by one.
findOrCreatePolicyDefinitionGraphObjectsFromPolicySetDefinition ==
    Finds({"azure_policy_definition"}) (+) getPolicyDefinition
        (+) Relates({<<"azure_policy_set_definition", "CONTAINS", "azure_policy_definition">>})

\* A definition that another assignment, or another set, brought in is not added again.
findOrCreatePolicyDefinitionEntity ==
    Finds({"azure_policy_definition", "azure_policy_set_definition"})
        (+) getPolicyDefinition (+) getPolicySetDefinition
        (+) findOrCreatePolicyDefinitionGraphObjectsFromPolicySetDefinition

fetchPolicyDefinitionsForAssignments ==
    Account (+) Iterates({"azure_policy_assignment"}) (+) findOrCreatePolicyDefinitionEntity
            (+) Relates({<<"azure_policy_assignment", "USES", "azure_policy_definition">>,
                         <<"azure_policy_assignment", "USES", "azure_policy_set_definition">>})
-----------------------------------------------------------------------------
policySteps == {
    Step("rm-policy-assignments", "policy", {"ad-account"}, fetchPolicyAssignments,
         {PolicyEntities.POLICY_ASSIGNMENT}, {}),
    Step("rm-policy-assignment-scope-relationships", "policy",
         {"ad-account"} \cup getResourceManagerSteps.executeFirstSteps,
         buildPolicyAssignmentScopeRelationships, {},
         {PolicyRelationships.ANY_RESOURCE_HAS_POLICY_ASSIGNMENT}),
    Step("rm-policy-definitions", "policy", {"ad-account", "rm-policy-assignments"},
         fetchPolicyDefinitionsForAssignments,
         {PolicyEntities.POLICY_SET_DEFINITION, PolicyEntities.POLICY_DEFINITION},
         {PolicyRelationships.AZURE_POLICY_ASSIGNMENT_USES_POLICY_SET_DEFINITION,
          PolicyRelationships.AZURE_POLICY_ASSIGNMENT_USES_POLICY_DEFINITION,
          PolicyRelationships.AZURE_POLICY_SET_DEFINITION_CONTAINS_DEFINITION})}
-----------------------------------------------------------------------------
\* steps/resource-manager/policy-insights

PolicyInsightEntities ==
    [POLICY_STATE |-> "azure_policy_state"]

PolicyInsightRelationships ==
    [POLICY_ASSIGNMENT_HAS_POLICY_STATE |-> <<"azure_policy_assignment", "HAS", "azure_policy_state">>,
     POLICY_DEFINITION_DEFINES_POLICY_STATE |-> <<"azure_policy_definition", "DEFINES", "azure_policy_state">>,
     ANY_RESOURCE_HAS_POLICY_STATE |-> <<"ANY_RESOURCE", "HAS", "azure_policy_state">>]
-----------------------------------------------------------------------------
fetchLatestPolicyStatesForSubscription == Account (+) Adds({"azure_policy_state"})

buildPolicyStateAssignmentRelationships ==
    LinksFrom("azure_policy_assignment", "HAS", "azure_policy_state")

buildPolicyStateDefinitionRelationships ==
    LinksFrom("azure_policy_definition", "DEFINES", "azure_policy_state")

buildPolicyStateResourceRelationships ==
    LinksFrom("ANY_SCOPE", "HAS", "azure_policy_state")
-----------------------------------------------------------------------------
policyInsightSteps == {
    Step("rm-policy-states-for-subscription", "policy-insights", {"ad-account"},
         fetchLatestPolicyStatesForSubscription, {PolicyInsightEntities.POLICY_STATE}, {}),
    Step("rm-policy-state-to-policy-assignment-relationships", "policy-insights",
         {"rm-policy-assignments", "rm-policy-states-for-subscription"},
         buildPolicyStateAssignmentRelationships, {},
         {PolicyInsightRelationships.POLICY_ASSIGNMENT_HAS_POLICY_STATE}),
    Step("rm-policy-state-to-policy-definition-relationships", "policy-insights",
         {"rm-policy-definitions", "rm-policy-states-for-subscription"},
         buildPolicyStateDefinitionRelationships, {},
         {PolicyInsightRelationships.POLICY_DEFINITION_DEFINES_POLICY_STATE}),
    Step("rm-policy-state-to-resource-relationships", "policy-insights",
         {"rm-policy-states-for-subscription"} \cup getResourceManagerSteps.executeFirstSteps,
         buildPolicyStateResourceRelationships, {},
         {PolicyInsightRelationships.ANY_RESOURCE_HAS_POLICY_STATE})}
=============================================================================
