------------------------------ MODULE CdnSteps -------------------------------
(*****************************************************************************)
(* The steps of content delivery: steps/resource-manager/cdn and frontdoor.  *)
(*****************************************************************************)
EXTENDS StepEffects

-----------------------------------------------------------------------------
\* steps/resource-manager/cdn

CdnEntities ==
    [PROFILE |-> "azure_cdn_profile",
     ENDPOINT |-> "azure_cdn_endpoint"]

CdnRelationships ==
    [RESOURCE_GROUP_HAS_PROFILE |-> GroupHas("azure_cdn_profile"),
     PROFILE_HAS_ENDPOINT |-> <<"azure_cdn_profile", "HAS", "azure_cdn_endpoint">>]
-----------------------------------------------------------------------------
fetchProfiles == Account (+) InGroup("azure_cdn_profile")

fetchProfilesDiagnosticSettings ==
    Iterates({"azure_cdn_profile"}) (+) Diagnostics("azure_cdn_profile")

fetchEndpoints == Account (+) Under("azure_cdn_profile", "HAS", "azure_cdn_endpoint")

fetchEndpointsDiagnosticSettings ==
    Iterates({"azure_cdn_endpoint"}) (+) Diagnostics("azure_cdn_endpoint")
-----------------------------------------------------------------------------
cdnSteps == {
    Step("rm-cdn-profiles", "cdn", {"ad-account", "rm-resources-resource-groups"},
         fetchProfiles, {CdnEntities.PROFILE}, {CdnRelationships.RESOURCE_GROUP_HAS_PROFILE}),
    Step("rm-cdn-profiles-diagnostic-settings", "cdn",
         {"rm-cdn-profiles", "rm-storage-resources"}, fetchProfilesDiagnosticSettings,
         {"azure_diagnostic_setting"}, DiagnosticRelationships),
    Step("rm-cdn-endpoints", "cdn", {"ad-account", "rm-cdn-profiles"}, fetchEndpoints,
         {CdnEntities.ENDPOINT}, {CdnRelationships.PROFILE_HAS_ENDPOINT}),
    Step("rm-cdn-endpoints-diagnostic-settings", "cdn",
         {"rm-cdn-endpoints", "rm-storage-resources"}, fetchEndpointsDiagnosticSettings,
         {"azure_diagnostic_setting"}, DiagnosticRelationships)}
-----------------------------------------------------------------------------
\* steps/resource-manager/frontdoor

FrontDoorEntities ==
    [FRONTDOOR |-> "azure_frontdoor",
     RULES_ENGINE |-> "azure_frontdoor_rules_engine",
     ROUTING_RULE |-> "azure_frontdoor_routing_rule",
     BACKEND_POOL |-> "azure_frontdoor_backend_pool",
     FRONTEND_ENDPOINT |-> "azure_frontdoor_frontend_endpoint"]

FrontDoorRelationships ==
    [RESOURCE_GROUP_HAS_FRONTDOOR |-> GroupHas("azure_frontdoor"),
     FRONTDOOR_HAS_RULES_ENGINE |-> <<"azure_frontdoor", "HAS", "azure_frontdoor_rules_engine">>,
     FRONTDOOR_HAS_ROUTING_RULE |-> <<"azure_frontdoor", "HAS", "azure_frontdoor_routing_rule">>,
     FRONTDOOR_HAS_BACKEND_POOL |-> <<"azure_frontdoor", "HAS", "azure_frontdoor_backend_pool">>,
     FRONTDOOR_HAS_FRONTEND_ENDPOINT |-> <<"azure_frontdoor", "HAS", "azure_frontdoor_frontend_endpoint">>]
-----------------------------------------------------------------------------
fetchFrontDoors == Account (+) InGroup("azure_frontdoor")

OfFrontDoor(type) == Account (+) Under("azure_frontdoor", "HAS", type)

fetchRulesEngines      == OfFrontDoor("azure_frontdoor_rules_engine")
fetchRoutingRules      == OfFrontDoor("azure_frontdoor_routing_rule")
fetchBackendPools      == OfFrontDoor("azure_frontdoor_backend_pool")
fetchFrontendEndpoints == OfFrontDoor("azure_frontdoor_frontend_endpoint")
-----------------------------------------------------------------------------
frontdoorSteps == {
    Step("rm-fetch-frontdoors", "frontdoor", {"ad-account", "rm-resources-resource-groups"},
         fetchFrontDoors, {FrontDoorEntities.FRONTDOOR},
         {FrontDoorRelationships.RESOURCE_GROUP_HAS_FRONTDOOR}),
    Step("rm-fetch-frontdoor-rules-engines", "frontdoor", {"ad-account", "rm-fetch-frontdoors"},
         fetchRulesEngines, {FrontDoorEntities.RULES_ENGINE},
         {FrontDoorRelationships.FRONTDOOR_HAS_RULES_ENGINE}),
    Step("rm-fetch-frontdoor-routing-rules", "frontdoor", {"ad-account", "rm-fetch-frontdoors"},
         fetchRoutingRules, {FrontDoorEntities.ROUTING_RULE},
         {FrontDoorRelationships.FRONTDOOR_HAS_ROUTING_RULE}),
    Step("rm-fetch-frontdoor-backend-pools", "frontdoor", {"ad-account", "rm-fetch-frontdoors"},
         fetchBackendPools, {FrontDoorEntities.BACKEND_POOL},
         {FrontDoorRelationships.FRONTDOOR_HAS_BACKEND_POOL}),
    Step("rm-fetch-frontdoor-frontend-endpoints", "frontdoor",
         {"ad-account", "rm-fetch-frontdoors"}, fetchFrontendEndpoints,
         {FrontDoorEntities.FRONTEND_ENDPOINT},
         {FrontDoorRelationships.FRONTDOOR_HAS_FRONTEND_ENDPOINT})}
=============================================================================
