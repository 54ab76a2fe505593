---------------------------- MODULE SecuritySteps ----------------------------
(*****************************************************************************)
(* The steps of security findings: steps/resource-manager/security and       *)
(* advisor.                                                                  *)
(*                                                                           *)
(* A definition marked FAULT is no part of the table: it is a bug the        *)
(* definition after it could have.                                           *)
(*****************************************************************************)
EXTENDS StepEffects

-----------------------------------------------------------------------------
\* steps/resource-manager/security

SecurityEntities ==
    [ASSESSMENT |-> "azure_security_assessment",
     SECURITY_CENTER_CONTACT |-> "azure_security_center_contact",
     SUBSCRIPTION_PRICING |-> "azure_security_center_subscription_pricing",
     SETTING |-> "azure_security_center_setting",
     AUTO_PROVISIONING_SETTING |-> "azure_security_center_auto_provisioning_setting",
     DEFENDER_ALERT |-> "azure_defender_alert"]

SecurityRelationships ==
    [SUBSCRIPTION_PERFORMED_ASSESSMENT |-> <<"azure_subscription", "PERFORMED", "azure_security_assessment">>,
     SUBSCRIPTION_HAS_SECURITY_CENTER_CONTACT |-> <<"azure_subscription", "HAS", "azure_security_center_contact">>,
     SUBSCRIPTION_HAS_PRICING_CONFIG |-> <<"azure_subscription", "HAS", "azure_security_center_subscription_pricing">>,
     SUBSCRIPTION_HAS_SETTING |-> <<"azure_subscription", "HAS", "azure_security_center_setting">>,
     SUBSCRIPTION_HAS_AUTO_PROVISIONING_SETTING |-> <<"azure_subscription", "HAS", "azure_security_center_auto_provisioning_setting">>,
     SUBSCRIPTION_HAS_DEFENDER_ALERT |-> <<"azure_subscription", "HAS", "azure_defender_alert">>]

SecurityMappedRelationships ==
    [RESOURCE_HAS_DEFENDER_ALERT |-> <<"ANY_RESOURCE", "HAS", "azure_defender_alert">>]
-----------------------------------------------------------------------------
fetchAssessments ==
    Account (+) Under("azure_subscription", "PERFORMED", "azure_security_assessment")

\* What belongs to the subscription of the instance, found by its id.
OfTheSubscription(type) ==
    Account (+) Finds({"azure_subscription"}) (+) Adds({type})
            (+) Relates({<<"azure_subscription", "HAS", type>>})

fetchSecurityCenterContacts == OfTheSubscription("azure_security_center_contact")

fetchSecurityCenterPricingConfigurations ==
    OfTheSubscription("azure_security_center_subscription_pricing")

fetchSecurityCenterSettings == OfTheSubscription("azure_security_center_setting")

fetchSecurityCenterAutoProvisioningSettings ==
    OfTheSubscription("azure_security_center_auto_provisioning_setting")

fetchDefenderAlerts ==
    OfTheSubscription("azure_defender_alert")
        (+) Maps({<<"ANY_RESOURCE", "HAS", "azure_defender_alert">>})
-----------------------------------------------------------------------------
securitySteps == {
    Step("rm-security-assessments", "security", {"ad-account", "rm-resources-resource-groups"},
         fetchAssessments, {SecurityEntities.ASSESSMENT},
         {SecurityRelationships.SUBSCRIPTION_PERFORMED_ASSESSMENT}),
    Step("rm-security-center-contacts", "security", {"ad-account", "rm-subscription"},
         fetchSecurityCenterContacts, {SecurityEntities.SECURITY_CENTER_CONTACT},
         {SecurityRelationships.SUBSCRIPTION_HAS_SECURITY_CENTER_CONTACT}),
    Step("rm-security-center-pricing-configs", "security", {"ad-account", "rm-subscription"},
         fetchSecurityCenterPricingConfigurations, {SecurityEntities.SUBSCRIPTION_PRICING},
         {SecurityRelationships.SUBSCRIPTION_HAS_PRICING_CONFIG}),
    Step("rm-security-center-settings", "security", {"ad-account", "rm-subscription"},
         fetchSecurityCenterSettings, {SecurityEntities.SETTING},
         {SecurityRelationships.SUBSCRIPTION_HAS_SETTING}),
    Step("rm-security-center-auto-provisioning-settings", "security",
         {"ad-account", "rm-subscription"}, fetchSecurityCenterAutoProvisioningSettings,
         {SecurityEntities.AUTO_PROVISIONING_SETTING},
         {SecurityRelationships.SUBSCRIPTION_HAS_AUTO_PROVISIONING_SETTING}),
    Step("rm-security-defender-alerts", "defender_alerts", {"ad-account", "rm-subscription"},
         fetchDefenderAlerts, {SecurityEntities.DEFENDER_ALERT},
         {SecurityRelationships.SUBSCRIPTION_HAS_DEFENDER_ALERT,
          SecurityMappedRelationships.RESOURCE_HAS_DEFENDER_ALERT})}
-----------------------------------------------------------------------------
\* steps/resource-manager/advisor

AdvisorEntities ==
    [RECOMMENDATION |-> "azure_advisor_recommendation"]

AdvisorRelationships ==
    [ASSESSMENT_IDENTIFIED_FINDING |-> <<"azure_security_assessment", "IDENTIFIED", "azure_advisor_recommendation">>,
     ANY_RESOURCE_HAS_FINDING |-> <<"ANY_SCOPE", "HAS", "azure_advisor_recommendation">>]
-----------------------------------------------------------------------------
fetchRecommendations == Account (+) Adds({"azure_advisor_recommendation"})

buildAssesmentToRecommendationRelationship ==
    LinksFrom("azure_security_assessment", "IDENTIFIED", "azure_advisor_recommendation")

buildResourceToRecommendationRelationship ==
    LinksFrom("ANY_SCOPE", "HAS", "azure_advisor_recommendation")
-----------------------------------------------------------------------------
recommendationSteps == {
    Step("rm-advisor-recommendations", "advisor-recommendations", {"ad-account"},
         fetchRecommendations, {AdvisorEntities.RECOMMENDATION}, {}),
    Step("rm-advisor-assessment-recommendation-relationships", NoSource,
         {"rm-advisor-recommendations", "rm-security-assessments"},
         buildAssesmentToRecommendationRelationship, {},
         {AdvisorRelationships.ASSESSMENT_IDENTIFIED_FINDING}),
    InLastGraph(Step("rm-advisor-resource-recommendation-relationships", "advisor-recommendations",
         {}, buildResourceToRecommendationRelationship, {},
         {AdvisorRelationships.ANY_RESOURCE_HAS_FINDING}))}

\* FAULT: no dependencyGraphId.
advisorStepsDefaultGraph == {[s EXCEPT !.graph = ""] : s \in recommendationSteps}

advisorSteps == recommendationSteps
=============================================================================
