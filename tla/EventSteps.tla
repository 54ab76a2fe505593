----------------------------- MODULE EventSteps ------------------------------
(*****************************************************************************)
(* The steps of events and messages: steps/resource-manager/event-grid,      *)
(* event-hub and service-bus.                                                *)
(*****************************************************************************)
EXTENDS StepEffects

-----------------------------------------------------------------------------
\* steps/resource-manager/event-grid

EventGridEntities ==
    [DOMAIN |-> "azure_event_grid_domain",
     DOMAIN_TOPIC |-> "azure_event_grid_domain_topic",
     TOPIC |-> "azure_event_grid_topic",
     TOPIC_SUBSCRIPTION |-> "azure_event_grid_topic_subscription"]

EventGridRelationships ==
    [RESOURCE_GROUP_HAS_DOMAIN |-> GroupHas("azure_event_grid_domain"),
     DOMAIN_HAS_DOMAIN_TOPIC |-> <<"azure_event_grid_domain", "HAS", "azure_event_grid_domain_topic">>,
     DOMAIN_TOPIC_HAS_SUBSCRIPTION |-> <<"azure_event_grid_domain_topic", "HAS", "azure_event_grid_topic_subscription">>,
     RESOURCE_GROUP_HAS_TOPIC |-> GroupHas("azure_event_grid_topic"),
     TOPIC_HAS_SUBSCRIPTION |-> <<"azure_event_grid_topic", "HAS", "azure_event_grid_topic_subscription">>]
-----------------------------------------------------------------------------
fetchEventGridDomains == Account (+) InEachGroup("azure_event_grid_domain")

fetchEventGridDomainsDiagnosticSettings ==
    Iterates({"azure_event_grid_domain"}) (+) Diagnostics("azure_event_grid_domain")

fetchEventGridDomainTopics ==
    Account (+) Under("azure_event_grid_domain", "HAS", "azure_event_grid_domain_topic")

fetchEventGridDomainTopicSubscriptions ==
    Account (+) Under("azure_event_grid_domain_topic", "HAS", "azure_event_grid_topic_subscription")

fetchEventGridTopics == Account (+) InEachGroup("azure_event_grid_topic")

fetchEventGridTopicsDiagnosticSettings ==
    Iterates({"azure_event_grid_topic"}) (+) Diagnostics("azure_event_grid_topic")

fetchEventGridTopicSubscriptions ==
    Account (+) Under("azure_event_grid_topic", "HAS", "azure_event_grid_topic_subscription")
-----------------------------------------------------------------------------
eventGridSteps == {
    Step("rm-event-grid-domains", "event-grid", {"ad-account", "rm-resources-resource-groups"},
         fetchEventGridDomains, {EventGridEntities.DOMAIN},
         {EventGridRelationships.RESOURCE_GROUP_HAS_DOMAIN}),
    Step("rm-event-grid-domains-diagnostic-settings", "event-grid",
         {"rm-event-grid-domains", "rm-storage-resources"},
         fetchEventGridDomainsDiagnosticSettings, {"azure_diagnostic_setting"},
         DiagnosticRelationships),
    Step("rm-event-grid-domain-topics", "event-grid",
         {"ad-account", "rm-event-grid-domains", "rm-resources-resource-groups"},
         fetchEventGridDomainTopics, {EventGridEntities.DOMAIN_TOPIC},
         {EventGridRelationships.DOMAIN_HAS_DOMAIN_TOPIC}),
    Step("rm-event-grid-domain-topic-subscriptions", "event-grid",
         {"ad-account", "rm-event-grid-domain-topics", "rm-event-grid-domains",
          "rm-resources-resource-groups"}, fetchEventGridDomainTopicSubscriptions,
         {EventGridEntities.TOPIC_SUBSCRIPTION},
         {EventGridRelationships.DOMAIN_TOPIC_HAS_SUBSCRIPTION}),
    Step("rm-event-grid-topics", "event-grid", {"ad-account", "rm-resources-resource-groups"},
         fetchEventGridTopics, {EventGridEntities.TOPIC},
         {EventGridRelationships.RESOURCE_GROUP_HAS_TOPIC}),
    Step("rm-event-grid-topics-diagnostic-settings", "event-grid",
         {"rm-event-grid-topics", "rm-storage-resources"},
         fetchEventGridTopicsDiagnosticSettings, {"azure_diagnostic_setting"},
         DiagnosticRelationships),
    Step("rm-event-grid-topic-subscriptions", "event-grid",
         {"ad-account", "rm-event-grid-topics", "rm-resources-resource-groups"},
         fetchEventGridTopicSubscriptions, {EventGridEntities.TOPIC_SUBSCRIPTION},
         {EventGridRelationships.TOPIC_HAS_SUBSCRIPTION})}
-----------------------------------------------------------------------------
\* steps/resource-manager/event-hub

EventHubEntities ==
    [EVENT_HUB_NAMESPACE |-> "azure_event_hub_namespace",
     AZURE_EVENT_HUB |-> "azure_event_hub",
     EVENT_HUB_KEYS |-> "azure_event_hub_key",
     EVENT_HUB_CLUSTER |-> "azure_event_hub_cluster",
     AZURE_CONSUMER_GROUP |-> "azure_event_hub_consumer_group"]

EventHubRelationships ==
    [EVENT_HUB_NAMESPACE_HAS_AZURE_EVENT_HUB |-> <<"azure_event_hub_namespace", "HAS", "azure_event_hub">>,
     EVENT_HUB_NAMESPACE_HAS_EVENT_HUB_KEY |-> <<"azure_event_hub_namespace", "HAS", "azure_event_hub_key">>,
     EVENT_HUB_KEYS_USES_AZURE_KEY_VAULT |-> <<"azure_event_hub_key", "USES", "azure_keyvault_service">>,
     EVENT_HUB_CLUSTER_ASSIGNED_EVENT_HUB_NAMESPACE |-> <<"azure_event_hub_cluster", "ASSIGNED", "azure_event_hub_namespace">>,
     AZURE_CONSUMER_GROUP_HAS_AZURE_EVENT_HUB |-> <<"azure_event_hub_consumer_group", "HAS", "azure_event_hub">>,
     AZURE_SUBSCRIPTION_HAS_AZURE_EVENT_HUB |-> <<"azure_subscription", "HAS", "azure_event_hub">>,
     AZURE_RESOURCE_GROUP_HAS_AZURE_EVENT_HUB |-> GroupHas("azure_event_hub")]

EventHubMappedRelationships ==
    [AZURE_EVENT_HUB_HAS_LOCATION |-> <<"azure_event_hub", "HAS", "azure_location">>]
-----------------------------------------------------------------------------
fetchEventHubNamespaces == Account (+) Adds({"azure_event_hub_namespace"})

fetchAzureEventHub ==
    Account (+) Each("azure_event_hub_namespace", "azure_event_hub") (+) Finds({"azure_event_hub"})

buildEventHubNamespaceEventHubRelationship ==
    MustLinkFrom("azure_event_hub_namespace", "HAS", "azure_event_hub")

\* The keys are in the encryption property of the namespace.
fetchEventHubKeys ==
    Each("azure_event_hub_namespace", "azure_event_hub_key")

buildEventHubNamespaceEventHubKeyRelationship ==
    MustLinkFrom("azure_event_hub_namespace", "HAS", "azure_event_hub_key")

\* For each vault, the key whose name was made from the vault's.
buildEventHubKeysKeyVaultRelation ==
    Iterates({"azure_keyvault_service"}) (+) Finds({"azure_event_hub_key"})
        (+) Relates({<<"azure_event_hub_key", "USES", "azure_keyvault_service">>})

buildAzureSubscriptionAzureEventHubRelation ==
    MustLinkFrom("azure_subscription", "HAS", "azure_event_hub")

buildAzureResourceGroupAzureEventHubRelation ==
    MustLinkFrom("azure_resource_group", "HAS", "azure_event_hub")

buildAzureEventHubLocationRelationship ==
    Gets({"DATA_LOCATION_NAME_MAP"}) (+) Iterates({"azure_event_hub"})
        (+) Maps({<<"azure_event_hub", "HAS", "azure_location">>})

fetchAzureConsumerGroup ==
    Account (+) Each("azure_event_hub", "azure_event_hub_consumer_group")

buildAzureConsumerGroupEventHubRelationship ==
    MustLinkTo("azure_event_hub_consumer_group", "HAS", "azure_event_hub")

fetchEventHubCluster == Account (+) Adds({"azure_event_hub_cluster"})

buildEventHubClusterEventHubNamespaceRelation ==
    MustLinkFrom("azure_event_hub_cluster", "ASSIGNED", "azure_event_hub_namespace")
-----------------------------------------------------------------------------
eventHubStep == {
    Step("rm-event-hub-namespace", "event-hub", {"ad-account"}, fetchEventHubNamespaces,
         {EventHubEntities.EVENT_HUB_NAMESPACE}, {}),
    Step("rm-event-hub-namespace-has-azure-event-hub-relation", "event-hub",
         {"rm-azure-event-hub", "rm-event-hub-namespace"},
         buildEventHubNamespaceEventHubRelationship, {},
         {EventHubRelationships.EVENT_HUB_NAMESPACE_HAS_AZURE_EVENT_HUB}),
    Step("rm-azure-event-hub-key", "event-hub", {"rm-event-hub-namespace"}, fetchEventHubKeys,
         {EventHubEntities.EVENT_HUB_KEYS}, {}),
    Step("rm-event-hub-namespace-has-event-hub-key-relation", "event-hub",
         {"rm-azure-event-hub-key", "rm-event-hub-namespace"},
         buildEventHubNamespaceEventHubKeyRelationship, {},
         {EventHubRelationships.EVENT_HUB_NAMESPACE_HAS_EVENT_HUB_KEY}),
    Step("rm-event-hub-keys-uses-azure-key-vault-relation", "event-hub",
         {"rm-azure-event-hub-key", "rm-keyvault-vaults"}, buildEventHubKeysKeyVaultRelation,
         {}, {EventHubRelationships.EVENT_HUB_KEYS_USES_AZURE_KEY_VAULT}),
    Step("rm-azure-consumer-group", "event-hub",
         {"ad-account", "rm-azure-event-hub", "rm-event-hub-namespace",
          "rm-resources-resource-groups"}, fetchAzureConsumerGroup,
         {EventHubEntities.AZURE_CONSUMER_GROUP}, {}),
    Step("rm-azure-consumer-group-has-event-hub-relation", "event-hub",
         {"rm-azure-consumer-group", "rm-azure-event-hub"},
         buildAzureConsumerGroupEventHubRelationship, {},
         {EventHubRelationships.AZURE_CONSUMER_GROUP_HAS_AZURE_EVENT_HUB}),
    Step("rm-azure-event-hub", "event-hub",
         {"ad-account", "rm-event-hub-namespace", "rm-resources-resource-groups"},
         fetchAzureEventHub, {EventHubEntities.AZURE_EVENT_HUB}, {}),
    Step("rm-azure-event-hub-has-location-relation", "event-hub",
         {"rm-azure-event-hub", "rm-subscription-locations"},
         buildAzureEventHubLocationRelationship, {},
         {EventHubMappedRelationships.AZURE_EVENT_HUB_HAS_LOCATION}),
    Step("rm-azure-subscription-has-azure-event-hub", "event-hub",
         {"rm-azure-event-hub", "rm-subscription"}, buildAzureSubscriptionAzureEventHubRelation,
         {}, {EventHubRelationships.AZURE_SUBSCRIPTION_HAS_AZURE_EVENT_HUB}),
    Step("rm-azure-resource-group-has-azure-event-hub-relation", "event-hub",
         {"rm-azure-event-hub", "rm-resources-resource-groups"},
         buildAzureResourceGroupAzureEventHubRelation, {},
         {EventHubRelationships.AZURE_RESOURCE_GROUP_HAS_AZURE_EVENT_HUB}),
    Step("rm-event-hub-cluster", "event-hub", {"ad-account"}, fetchEventHubCluster,
         {EventHubEntities.EVENT_HUB_CLUSTER}, {}),
    Step("rm-event-hub-cluster-assigned-event-hub-namespace-relation", "event-hub",
         {"rm-event-hub-cluster", "rm-event-hub-namespace"},
         buildEventHubClusterEventHubNamespaceRelation, {},
         {EventHubRelationships.EVENT_HUB_CLUSTER_ASSIGNED_EVENT_HUB_NAMESPACE})}
-----------------------------------------------------------------------------
\* steps/resource-manager/service-bus

ServiceBusEntities ==
    [NAMESPACE |-> "azure_service_bus_namespace",
     QUEUE |-> "azure_service_bus_queue",
     TOPIC |-> "azure_service_bus_topic",
     SUBSCRIPTION |-> "azure_service_bus_subscription"]

ServiceBusRelationships ==
    [RESOURCE_GROUP_HAS_NAMESPACE |-> GroupHas("azure_service_bus_namespace"),
     NAMESPACE_HAS_QUEUE |-> <<"azure_service_bus_namespace", "HAS", "azure_service_bus_queue">>,
     NAMESPACE_HAS_TOPIC |-> <<"azure_service_bus_namespace", "HAS", "azure_service_bus_topic">>,
     TOPIC_HAS_SUBSCRIPTION |-> <<"azure_service_bus_topic", "HAS", "azure_service_bus_subscription">>]
-----------------------------------------------------------------------------
fetchServiceBusNamespaces == Account (+) InGroup("azure_service_bus_namespace")

fetchServiceBusQueues ==
    Account (+) Under("azure_service_bus_namespace", "HAS", "azure_service_bus_queue")

fetchServiceBusTopics ==
    Account (+) Under("azure_service_bus_namespace", "HAS", "azure_service_bus_topic")

\* A subscription that is already in the job state is left out.
fetchServiceBusSubscriptions ==
    Account (+) Under("azure_service_bus_topic", "HAS", "azure_service_bus_subscription")
            (+) Finds({"azure_service_bus_subscription"})
-----------------------------------------------------------------------------
serviceBusSteps == {
    Step("rm-service-bus-namespaces", "service-bus",
         {"ad-account", "rm-resources-resource-groups"}, fetchServiceBusNamespaces,
         {ServiceBusEntities.NAMESPACE}, {ServiceBusRelationships.RESOURCE_GROUP_HAS_NAMESPACE}),
    Step("rm-service-bus-queues", "service-bus", {"ad-account", "rm-service-bus-namespaces"},
         fetchServiceBusQueues, {ServiceBusEntities.QUEUE},
         {ServiceBusRelationships.NAMESPACE_HAS_QUEUE}),
    Step("rm-service-bus-topics", "service-bus", {"ad-account", "rm-service-bus-namespaces"},
         fetchServiceBusTopics, {ServiceBusEntities.TOPIC},
         {ServiceBusRelationships.NAMESPACE_HAS_TOPIC}),
    Step("rm-service-bus-subscriptions", "service-bus", {"ad-account", "rm-service-bus-topics"},
         fetchServiceBusSubscriptions, {ServiceBusEntities.SUBSCRIPTION},
         {ServiceBusRelationships.TOPIC_HAS_SUBSCRIPTION})}
=============================================================================
