---------------------------- MODULE NetworkSteps -----------------------------
(*****************************************************************************)
(* The steps of steps/resource-manager/network.  Some pass maps to later     *)
(* ones through the data of the job state.                                   *)
(*****************************************************************************)
EXTENDS StepEffects

NetworkEntities ==
    [AZURE_FIREWALL |-> "azure_network_firewall",
     FIREWALL_POLICY |-> "azure_network_firewall_policy",
     FIREWALL_RULE_GROUP |-> "azure_network_firewall_rule_group",
     VIRTUAL_NETWORK |-> "azure_vnet",
     SECURITY_GROUP |-> "azure_security_group",
     PUBLIC_IP_ADDRESS |-> "azure_public_ip",
     SUBNET |-> "azure_subnet",
     NETWORK_INTERFACE |-> "azure_nic",
     LOAD_BALANCER |-> "azure_lb",
     NETWORK_WATCHER |-> "azure_network_watcher",
     SECURITY_GROUP_FLOW_LOGS |-> "azure_security_group_flow_logs",
     PRIVATE_ENDPOINT |-> "azure_private_endpoint"]

NetworkRelationships ==
    [RESOURCE_GROUP_HAS_NETWORK_AZURE_FIREWALL |-> GroupHas("azure_network_firewall"),
     RESOURCE_GROUP_HAS_NETWORK_PUBLIC_IP_ADDRESS |-> GroupHas("azure_public_ip"),
     RESOURCE_GROUP_HAS_NETWORK_NETWORK_INTERFACE |-> GroupHas("azure_nic"),
     RESOURCE_GROUP_HAS_NETWORK_VIRTUAL_NETWORK |-> GroupHas("azure_vnet"),
     RESOURCE_GROUP_HAS_NETWORK_SECURITY_GROUP |-> GroupHas("azure_security_group"),
     RESOURCE_GROUP_HAS_NETWORK_LOAD_BALANCER |-> GroupHas("azure_lb"),
     RESOURCE_GROUP_HAS_NETWORK_WATCHER |-> GroupHas("azure_network_watcher"),
     RESOURCE_GROUP_HAS_PRIVATE_ENDPOINT |-> GroupHas("azure_private_endpoint"),
     NETWORK_AZURE_FIREWALL_HAS_FIREWALL_POLICY |-> <<"azure_network_firewall", "HAS", "azure_network_firewall_policy">>,
     NETWORK_FIREWALL_POLICY_EXTENDS_FIREWALL_POLICY |-> <<"azure_network_firewall_policy", "EXTENDS", "azure_network_firewall_policy">>,
     NETWORK_VIRTUAL_NETWORK_CONTAINS_NETWORK_SUBNET |-> <<"azure_vnet", "CONTAINS", "azure_subnet">>,
     NETWORK_SECURITY_GROUP_PROTECTS_NETWORK_SUBNET |-> <<"azure_security_group", "PROTECTS", "azure_subnet">>,
     NETWORK_SECURITY_GROUP_PROTECTS_NETWORK_INTERFACE |-> <<"azure_security_group", "PROTECTS", "azure_nic">>,
     NETWORK_LOAD_BALANCER_CONNECTS_NETWORK_INTERFACE |-> <<"azure_lb", "CONNECTS", "azure_nic">>,
     NETWORK_SECURITY_GROUP_ALLOWS_NETWORK_SUBNET |-> <<"azure_security_group", "ALLOWS", "azure_subnet">>,
     NETWORK_SUBNET_ALLOWS_NETWORK_SECURITY_GROUP |-> <<"azure_subnet", "ALLOWS", "azure_security_group">>,
     NETWORK_SECURITY_GROUP_DENIES_NETWORK_SUBNET |-> <<"azure_security_group", "DENIES", "azure_subnet">>,
     NETWORK_SUBNET_DENIES_NETWORK_SECURITY_GROUP |-> <<"azure_subnet", "DENIES", "azure_security_group">>,
     NETWORK_WATCHER_HAS_FLOW_LOGS |-> <<"azure_network_watcher", "HAS", "azure_security_group_flow_logs">>,
     NETWORK_SECURITY_GROUP_HAS_FLOW_LOGS |-> <<"azure_security_group", "HAS", "azure_security_group_flow_logs">>,
     NETWORK_SECURITY_GROUP_FLOW_LOGS_USES_STORAGE_ACCOUNT |-> <<"azure_security_group_flow_logs", "USES", "azure_storage_account">>,
     NETWORK_SUBNET_HAS_PRIVATE_ENDPOINT |-> <<"azure_subnet", "HAS", "azure_private_endpoint">>,
     PRIVATE_ENDPOINT_USES_NIC |-> <<"azure_private_endpoint", "USES", "azure_nic">>,
     PRIVATE_ENDPOINT_CONNECTS_RESOURCE |-> <<"azure_private_endpoint", "CONNECTS", "ANY_RESOURCE">>]

NetworkMappedRelationships ==
    [LOCATION_HAS_NETWORK_WATCHER |-> <<"azure_network_watcher", "HAS", "azure_location">>,
     FIREWALL_ALLOWS_INTERNET_FORWARD |-> <<"azure_network_firewall", "ALLOWS", "internet">>,
     FIREWALL_ALLOWS_INTERNET_REVERSE |-> <<"azure_network_firewall", "ALLOWS", "internet">>,
     FIREWALL_DENIES_INTERNET_FORWARD |-> <<"azure_network_firewall", "DENIES", "internet">>,
     FIREWALL_DENIES_INTERNET_REVERSE |-> <<"azure_network_firewall", "DENIES", "internet">>]
-----------------------------------------------------------------------------
\* A policy is related if it has been ingested (hasKey); the map names the firewalls of
\* the policies that were.
fetchAzureFirewalls ==
    Account (+) InEachGroup("azure_network_firewall")
            (+) Diagnostics("azure_network_firewall")
            (+) Finds({"azure_network_firewall_policy"})
            (+) Relates({<<"azure_network_firewall", "HAS", "azure_network_firewall_policy">>})
            (+) Sets({"policy-included-in-firewalls-map"})

fetchFirewallPolicies ==
    Account (+) Each("azure_resource_group", "azure_network_firewall_policy")
            (+) Sets({"firewall-policy-parent-children-map"})

\* Only the collections with one of these actions count,
processFirewallCollectionGroupRules == {"Allow", "Deny"}

\* and the action tells the class of the relationship.
buildRuleProperties(actionType) == IF actionType = "Allow" THEN "ALLOWS" ELSE "DENIES"

\* The rules of the policies, for the firewalls in the map.
buildFirewallRuleRelationships ==
    Gets({"policy-included-in-firewalls-map"})
        (+) Iterates({"azure_network_firewall_policy"})
        (+) Knows("azure_network_firewall", "policy-included-in-firewalls-map")
        (+) Maps({<<"azure_network_firewall", buildRuleProperties(actionType), "internet">> :
                  actionType \in processFirewallCollectionGroupRules})

buildFirewallPoliciesRelationships ==
    Gets({"firewall-policy-parent-children-map"})
        (+) Finds({"azure_network_firewall_policy"})
        (+) Relates({<<"azure_network_firewall_policy", "EXTENDS",
                       "azure_network_firewall_policy">>})

fetchNetworkInterfaces == Account (+) Gets({"publicIPAddresses"}) (+) InGroup("azure_nic")

fetchPublicIPAddresses ==
    Account (+) InGroup("azure_public_ip") (+) Diagnostics("azure_public_ip")
            (+) Sets({"publicIPAddresses"})

\* The key of the network interface is made from an id: no look whether it is there.
fetchLoadBalancers ==
    Account (+) InGroup("azure_lb") (+) Diagnostics("azure_lb")
            (+) Relates({<<"azure_lb", "CONNECTS", "azure_nic">>})

\* Nor here.
fetchNetworkSecurityGroups ==
    Account (+) InGroup("azure_security_group") (+) Diagnostics("azure_security_group")
            (+) Relates({<<"azure_security_group", "PROTECTS", "azure_nic">>})
            (+) Sets({"subnetSecurityGroupMap"})

\* Subnets come with their network.
fetchVirtualNetworks ==
    Account (+) Reads({"subnetSecurityGroupMap"})
            (+) Knows("azure_security_group", "subnetSecurityGroupMap")
            (+) InGroup("azure_vnet") (+) Diagnostics("azure_vnet") (+) Adds({"azure_subnet"})
            (+) Relates({<<"azure_vnet", "CONTAINS", "azure_subnet">>,
                         <<"azure_security_group", "PROTECTS", "azure_subnet">>})

\* The other end of a rule is each subnet with the CIDR, or a mapped entity.
buildSecurityGroupRuleRelationships ==
    Iterates({"azure_security_group", "azure_subnet"})
        (+) Relates({"azure_security_group"} \X {"ALLOWS", "DENIES"} \X {"azure_subnet"})
        (+) Relates({"azure_subnet"} \X {"ALLOWS", "DENIES"} \X {"azure_security_group"})
        (+) Maps({"azure_security_group"} \X {"ALLOWS", "DENIES"} \X {"internet"})

fetchNetworkWatchers ==
    Account (+) Under("azure_resource_group", "HAS", "azure_network_watcher")

fetchPrivateEndpoints ==
    Account (+) Under("azure_resource_group", "HAS", "azure_private_endpoint")

buildPrivateEndpointSubnetRelationships ==
    LinksFrom("azure_subnet", "HAS", "azure_private_endpoint")

\* The first interface that is not found ends the work on an endpoint.
buildPrivateEndpointNetworkInterfaceRelationships ==
    LinksTo("azure_private_endpoint", "USES", "azure_nic")

\* The resource may be an entity of any type.
buildPrivateEndpointResourceRelationships ==
    LinksTo("azure_private_endpoint", "CONNECTS", "ANY_RESOURCE")

buildLocationNetworkWatcherRelationships ==
    Gets({"DATA_LOCATION_NAME_MAP"}) (+) Iterates({"azure_network_watcher"})
        (+) Maps({<<"azure_network_watcher", "HAS", "azure_location">>})

fetchNetworkSecurityGroupFlowLogs ==
    Account (+) Under("azure_network_watcher", "HAS", "azure_security_group_flow_logs")
            (+) Finds({"azure_security_group", "azure_storage_account"})
            (+) Relates({<<"azure_security_group", "HAS", "azure_security_group_flow_logs">>,
                         <<"azure_security_group_flow_logs", "USES", "azure_storage_account">>})
-----------------------------------------------------------------------------
networkResourceSteps == {
    Step("rm-network-ip-addresses", "network", {"ad-account", "rm-resources-resource-groups"},
         fetchPublicIPAddresses,
         {NetworkEntities.PUBLIC_IP_ADDRESS, "azure_diagnostic_setting"},
         {NetworkRelationships.RESOURCE_GROUP_HAS_NETWORK_PUBLIC_IP_ADDRESS} \cup
          DiagnosticRelationships),
    Step("rm-network-interfaces", "network",
         {"ad-account", "rm-network-ip-addresses", "rm-resources-resource-groups"},
         fetchNetworkInterfaces, {NetworkEntities.NETWORK_INTERFACE},
         {NetworkRelationships.RESOURCE_GROUP_HAS_NETWORK_NETWORK_INTERFACE}),
    Step("rm-network-virtual-networks", "network",
         {"ad-account", "rm-network-security-groups", "rm-resources-resource-groups"},
         fetchVirtualNetworks,
         {NetworkEntities.VIRTUAL_NETWORK, NetworkEntities.SUBNET, "azure_diagnostic_setting"},
         {NetworkRelationships.RESOURCE_GROUP_HAS_NETWORK_VIRTUAL_NETWORK,
          NetworkRelationships.NETWORK_VIRTUAL_NETWORK_CONTAINS_NETWORK_SUBNET,
          NetworkRelationships.NETWORK_SECURITY_GROUP_PROTECTS_NETWORK_SUBNET} \cup
          DiagnosticRelationships),
    Step("rm-network-security-groups", "network",
         {"ad-account", "rm-network-interfaces", "rm-resources-resource-groups"},
         fetchNetworkSecurityGroups,
         {NetworkEntities.SECURITY_GROUP, "azure_diagnostic_setting"},
         {NetworkRelationships.RESOURCE_GROUP_HAS_NETWORK_SECURITY_GROUP,
          NetworkRelationships.NETWORK_SECURITY_GROUP_PROTECTS_NETWORK_INTERFACE} \cup
          DiagnosticRelationships),
    Step("rm-network-load-balancers", "network", {"ad-account", "rm-resources-resource-groups"},
         fetchLoadBalancers, {NetworkEntities.LOAD_BALANCER, "azure_diagnostic_setting"},
         {NetworkRelationships.RESOURCE_GROUP_HAS_NETWORK_LOAD_BALANCER,
          NetworkRelationships.NETWORK_LOAD_BALANCER_CONNECTS_NETWORK_INTERFACE} \cup
          DiagnosticRelationships),
    Step("rm-network-firewalls", "network",
         {"ad-account", "rm-network-firewall-policies", "rm-resources-resource-groups"},
         fetchAzureFirewalls, {NetworkEntities.AZURE_FIREWALL, "azure_diagnostic_setting"},
         {NetworkRelationships.RESOURCE_GROUP_HAS_NETWORK_AZURE_FIREWALL,
          NetworkRelationships.NETWORK_AZURE_FIREWALL_HAS_FIREWALL_POLICY} \cup
          DiagnosticRelationships)}

networkPolicySteps == {
    Step("rm-network-firewall-policies", "network",
         {"ad-account", "rm-resources-resource-groups"}, fetchFirewallPolicies,
         {NetworkEntities.FIREWALL_POLICY}, {}),
    Step("rm-network-firewall-rule-relationships", "network",
         {"rm-network-firewall-policies", "rm-network-firewalls"},
         buildFirewallRuleRelationships, {},
         {NetworkMappedRelationships.FIREWALL_ALLOWS_INTERNET_FORWARD,
          NetworkMappedRelationships.FIREWALL_ALLOWS_INTERNET_REVERSE,
          NetworkMappedRelationships.FIREWALL_DENIES_INTERNET_FORWARD,
          NetworkMappedRelationships.FIREWALL_DENIES_INTERNET_REVERSE}),
    Step("rm-network-firewall-policy-relationships", "network",
         {"rm-network-firewall-policies"}, buildFirewallPoliciesRelationships, {},
         {NetworkRelationships.NETWORK_FIREWALL_POLICY_EXTENDS_FIREWALL_POLICY}),
    Step("rm-network-security-group-rules", "network",
         {"ad-account", "rm-network-security-groups", "rm-network-virtual-networks"},
         buildSecurityGroupRuleRelationships, {},
         {NetworkRelationships.NETWORK_SECURITY_GROUP_ALLOWS_NETWORK_SUBNET,
          NetworkRelationships.NETWORK_SUBNET_ALLOWS_NETWORK_SECURITY_GROUP,
          NetworkRelationships.NETWORK_SECURITY_GROUP_DENIES_NETWORK_SUBNET,
          NetworkRelationships.NETWORK_SUBNET_DENIES_NETWORK_SECURITY_GROUP}),
    Step("rm-network-watchers", "network", {"ad-account", "rm-resources-resource-groups"},
         fetchNetworkWatchers, {NetworkEntities.NETWORK_WATCHER},
         {NetworkRelationships.RESOURCE_GROUP_HAS_NETWORK_WATCHER}),
    Step("rm-network-private-endpoints", "network",
         {"ad-account", "rm-resources-resource-groups"}, fetchPrivateEndpoints,
         {NetworkEntities.PRIVATE_ENDPOINT},
         {NetworkRelationships.RESOURCE_GROUP_HAS_PRIVATE_ENDPOINT}),
    Step("rm-network-private-endpoint-subnet-relationships", "network",
         {"rm-network-private-endpoints", "rm-network-virtual-networks"},
         buildPrivateEndpointSubnetRelationships, {},
         {NetworkRelationships.NETWORK_SUBNET_HAS_PRIVATE_ENDPOINT}),
    Step("rm-network-private-endpoint-nic-relationships", "network",
         {"rm-network-interfaces", "rm-network-private-endpoints"},
         buildPrivateEndpointNetworkInterfaceRelationships, {},
         {NetworkRelationships.PRIVATE_ENDPOINT_USES_NIC}),
    InLastGraph(Step("rm-network-private-endpoint-resource-relationships", "network", {},
         buildPrivateEndpointResourceRelationships, {},
         {NetworkRelationships.PRIVATE_ENDPOINT_CONNECTS_RESOURCE})),
    Step("rm-network-location-watcher-relationships", "network",
         {"rm-network-watchers", "rm-subscription-locations"},
         buildLocationNetworkWatcherRelationships, {},
         {NetworkMappedRelationships.LOCATION_HAS_NETWORK_WATCHER}),
    Step("rm-network-flow-logs", "network",
         {"rm-network-security-groups", "rm-network-watchers", "rm-storage-resources"},
         fetchNetworkSecurityGroupFlowLogs, {NetworkEntities.SECURITY_GROUP_FLOW_LOGS},
         {NetworkRelationships.NETWORK_WATCHER_HAS_FLOW_LOGS,
          NetworkRelationships.NETWORK_SECURITY_GROUP_HAS_FLOW_LOGS,
          NetworkRelationships.NETWORK_SECURITY_GROUP_FLOW_LOGS_USES_STORAGE_ACCOUNT})}

networkSteps == networkResourceSteps \cup networkPolicySteps
=============================================================================
