-------------------------- MODULE ExpressRouteSteps --------------------------
(*****************************************************************************)
(* The steps of steps/resource-manager/express-route: circuits, their        *)
(* connections, BGP communities and gateways.                                *)
(*****************************************************************************)
EXTENDS StepEffects

ExpressRouteEntities ==
    [AZURE_EXPRESS_ROUTE_CIRCUIT |-> "azure_expressroute_circuit",
     AZURE_PEER_EXPRESS_ROUTE_CONNECTION |-> "azure_peer_expressroute_circut_connection",
     AZURE_EXPRESS_ROUTE_CIRCUIT_CONNECTION |-> "azure_expressroute_circuit_connection",
     AZURE_EXPRESS_ROUTE_CROSS_CONNECTION |-> "azure_expressroute_cross_connection",
     AZURE_EXPRESS_ROUTE |-> "azure_expressroute",
     AZURE_BGP_SERVICE_COMMUNITIES |-> "azure_bgp_service_communities",
     AZURE_APPLICATION_GATEWAY |-> "azure_application_gateway"]

ExpressRouteRelationships ==
    [AZURE_EXPRESS_ROUTE_CIRCUIT_HAS_AZURE_PEER_EXPRESS_ROUTE_CONNECTION |-> <<"azure_expressroute_circuit", "HAS", "azure_peer_expressroute_circut_connection">>,
     AZURE_EXPRESS_ROUTE_CIRCUIT_HAS_AZURE_EXPRESS_ROUTE_CIRCUIT_CONNECTION |-> <<"azure_expressroute_circuit", "HAS", "azure_expressroute_circuit_connection">>,
     AZURE_EXPRESS_ROUTE_HAS_AZURE_EXPRESS_ROUTE_CIRCUIT |-> <<"azure_expressroute", "HAS", "azure_expressroute">>,
     AZURE_EXPRESS_ROUTE_HAS_AZURE_EXPRESS_ROUTE_CIRCUIT_CONNECTION |-> <<"azure_expressroute", "HAS", "azure_expressroute_circuit_connection">>,
     AZURE_EXPRESS_ROUTE_HAS_AZURE_PEER_EXPRESS_ROUTE_CONNECTION |-> <<"azure_expressroute", "HAS", "azure_peer_expressroute_circut_connection">>,
     AZURE_EXPRESS_ROUTE_HAS_AZURE_EXPRESS_ROUTE_CROSS_CONNECTION |-> <<"azure_expressroute", "HAS", "azure_expressroute_cross_connection">>,
     AZURE_BGP_SERVICE_COMMUNITIES_HAS_AZURE_EXPRESS_ROUTE |-> <<"azure_bgp_service_communities", "HAS", "azure_expressroute">>,
     AZURE_EXPRESS_ROUTE_HAS_AZURE_APPLICATION_GATEWAY |-> <<"azure_expressroute", "HAS", "azure_application_gateway">>,
     AZURE_SUBSCRIPTION_HAS_AZURE_EXPRESS_ROUTE |-> <<"azure_subscription", "HAS", "azure_expressroute">>,
     AZURE_SUBSCRIPTION_HAS_AZURE_BGP_SERVICE_COMMUNITIES |-> <<"azure_subscription", "HAS", "azure_bgp_service_communities">>]
-----------------------------------------------------------------------------
fetchAzureExpressRouteCircuit == Account (+) Adds({"azure_expressroute_circuit"})

fetchAzureExpressRoute ==
    Adds({"azure_expressroute"}) (+) Iterates({"azure_subscription"})
        (+) Relates({<<"azure_subscription", "HAS", "azure_expressroute">>})

\* The express route is looked up before the loop.
ExpressRouteDemanded == Demands(Always, "azure_expressroute")

ExpressRouteHas(type) ==
    LinksFrom("azure_expressroute", "HAS", type) (+) ExpressRouteDemanded

buildAzureExpressRouteExpressRouteCircuitRelation ==
    ExpressRouteHas("azure_expressroute_circuit")

buildAzureExpressRoutePeerExpressRouteCircuitConnectionRelation ==
    ExpressRouteHas("azure_peer_expressroute_circut_connection")

buildAzureExpressRouteExpressRouteCircuitConnectionRelation ==
    ExpressRouteHas("azure_expressroute_circuit_connection")

buildAzureExpressRouteApplicationGatewayRelation ==
    ExpressRouteHas("azure_application_gateway")

buildAzureBgpServiceCommunitiesAzureExpressRouteRelation ==
    LinksTo("azure_bgp_service_communities", "HAS", "azure_expressroute")
        (+) ExpressRouteDemanded

\* The key of the circuit is a prefix of the key of the connection.
buildAzureExpressRouteCircuitPeerExpressRouteCircuitConnectionRelation ==
    MustLinkFrom("azure_expressroute_circuit", "HAS", "azure_peer_expressroute_circut_connection")

buildAzureExpressRouteCircuitExpressRouteCircuitConnectionRelation ==
    MustLinkFrom("azure_expressroute_circuit", "HAS", "azure_expressroute_circuit_connection")

buildAzureSubscriptionAndAzureBgpCommunitiesRelation ==
    MustLinkFrom("azure_subscription", "HAS", "azure_bgp_service_communities")

OfCircuit(type) == Account (+) Each("azure_expressroute_circuit", type)

fetchAzureExpressRouteCircuitConnection == OfCircuit("azure_expressroute_circuit_connection")
fetchAzurePeerExpressRouteConnection == OfCircuit("azure_peer_expressroute_circut_connection")

\* Once for each subscription.
fetchAzureBgpServiceCommunities ==
    Account (+) Each("azure_subscription", "azure_bgp_service_communities")

fetchAzureApplicationGateway == Account (+) Adds({"azure_application_gateway"})
-----------------------------------------------------------------------------
expressRouteRelationshipSteps == {
    Step("rm-azure-express-route-circuit", "express-route", {"ad-account"},
         fetchAzureExpressRouteCircuit, {ExpressRouteEntities.AZURE_EXPRESS_ROUTE_CIRCUIT}, {}),
    Step("rm-azure-express-route", "express-route", {"rm-subscription"}, fetchAzureExpressRoute,
         {ExpressRouteEntities.AZURE_EXPRESS_ROUTE},
         {ExpressRouteRelationships.AZURE_SUBSCRIPTION_HAS_AZURE_EXPRESS_ROUTE}),
    Step("rm-azure-express-route-has-azure-express-route-circuit-relation", "express-route",
         {"rm-azure-express-route", "rm-azure-express-route-circuit"},
         buildAzureExpressRouteExpressRouteCircuitRelation, {},
         {ExpressRouteRelationships.AZURE_EXPRESS_ROUTE_HAS_AZURE_EXPRESS_ROUTE_CIRCUIT}),
    Step("rm-azure-express-route-has-azure-peer-express-route-connection-relation", "express-route",
         {"rm-azure-express-route", "rm-azure-peer-express-route-connection"},
         buildAzureExpressRoutePeerExpressRouteCircuitConnectionRelation, {},
         {ExpressRouteRelationships.AZURE_EXPRESS_ROUTE_HAS_AZURE_PEER_EXPRESS_ROUTE_CONNECTION}),
    Step("rm-azure-express-route-circuit-has-azure-peer-express-route-connection-relation", "express-route",
         {"rm-azure-express-route-circuit", "rm-azure-peer-express-route-connection"},
         buildAzureExpressRouteCircuitPeerExpressRouteCircuitConnectionRelation, {},
         {ExpressRouteRelationships.AZURE_EXPRESS_ROUTE_CIRCUIT_HAS_AZURE_PEER_EXPRESS_ROUTE_CONNECTION}),
    Step("rm-azure-express-route-has-azure-application-gateway-relation", "express-route",
         {"rm-azure-application-gateway", "rm-azure-express-route"},
         buildAzureExpressRouteApplicationGatewayRelation, {},
         {ExpressRouteRelationships.AZURE_EXPRESS_ROUTE_HAS_AZURE_APPLICATION_GATEWAY}),
    Step("rm-azure-express-route-circuit-has-azure-express-route-circuit-connection-relation", "express-route",
         {"rm-azure-express-route-circuit", "rm-azure-express-route-circuit-connection"},
         buildAzureExpressRouteCircuitExpressRouteCircuitConnectionRelation, {},
         {ExpressRouteRelationships.AZURE_EXPRESS_ROUTE_CIRCUIT_HAS_AZURE_EXPRESS_ROUTE_CIRCUIT_CONNECTION}),
    Step("rm-azure-express-route-has-azure-express-route-circuit-connection-relation", "express-route",
         {"rm-azure-express-route", "rm-azure-express-route-circuit-connection"},
         buildAzureExpressRouteExpressRouteCircuitConnectionRelation, {},
         {ExpressRouteRelationships.AZURE_EXPRESS_ROUTE_HAS_AZURE_EXPRESS_ROUTE_CIRCUIT_CONNECTION})}

expressRouteEntitySteps == {
    Step("rm-azure-peer-express-route-connection", "express-route",
         {"ad-account", "rm-azure-express-route-circuit"}, fetchAzurePeerExpressRouteConnection,
         {ExpressRouteEntities.AZURE_PEER_EXPRESS_ROUTE_CONNECTION}, {}),
    Step("rm-azure-express-route-circuit-connection", "express-route",
         {"ad-account", "rm-azure-peer-express-route-connection"},
         fetchAzureExpressRouteCircuitConnection,
         {ExpressRouteEntities.AZURE_EXPRESS_ROUTE_CIRCUIT_CONNECTION}, {}),
    Step("rm-azure-bgp-service-communities", "express-route", {"ad-account", "rm-subscription"},
         fetchAzureBgpServiceCommunities, {ExpressRouteEntities.AZURE_BGP_SERVICE_COMMUNITIES},
         {}),
    Step("rm-azure-subscription-has-azure-bgp-service-communities-relation", "express-route",
         {"rm-azure-bgp-service-communities", "rm-subscription"},
         buildAzureSubscriptionAndAzureBgpCommunitiesRelation, {},
         {ExpressRouteRelationships.AZURE_SUBSCRIPTION_HAS_AZURE_BGP_SERVICE_COMMUNITIES}),
    Step("rm-azure-bgp-service-communities-has-azure-express-route-relation", "express-route",
         {"rm-azure-bgp-service-communities", "rm-azure-express-route"},
         buildAzureBgpServiceCommunitiesAzureExpressRouteRelation, {},
         {ExpressRouteRelationships.AZURE_BGP_SERVICE_COMMUNITIES_HAS_AZURE_EXPRESS_ROUTE}),
    Step("rm-azure-application-gateway", "express-route", {"ad-account"},
         fetchAzureApplicationGateway, {ExpressRouteEntities.AZURE_APPLICATION_GATEWAY}, {})}

expressRouteSteps == expressRouteRelationshipSteps \cup expressRouteEntitySteps
=============================================================================
