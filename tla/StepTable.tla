----------------------------- MODULE StepTable -----------------------------
(***************************************************************************)
(* integrationSteps of src/index.ts: the steps of all services.             *)
(***************************************************************************)
EXTENDS StepStartStates

ActiveDirectory      == INSTANCE ActiveDirectorySteps
AccessPackage        == INSTANCE AccessPackageSteps
Security             == INSTANCE SecuritySteps
AppService           == INSTANCE AppServiceSteps
NetworkProtection    == INSTANCE NetworkProtectionSteps
Authorization        == INSTANCE AuthorizationSteps
Cdn                  == INSTANCE CdnSteps
Compute              == INSTANCE ComputeSteps
ConditionalAccess    == INSTANCE ConditionalAccessSteps
Container            == INSTANCE ContainerSteps
Databases            == INSTANCE DatabasesSteps
Dns                  == INSTANCE DnsSteps
Event                == INSTANCE EventSteps
ExpressRoute         == INSTANCE ExpressRouteSteps
KeyVault             == INSTANCE KeyVaultSteps
Scope                == INSTANCE ScopeSteps
Monitor              == INSTANCE MonitorSteps
Network              == INSTANCE NetworkSteps
Policy               == INSTANCE PolicySteps
Resources            == INSTANCE ResourcesSteps
Storage              == INSTANCE StorageSteps
Synapse              == INSTANCE SynapseSteps

integrationSteps ==
    ActiveDirectory!activeDirectorySteps \cup AccessPackage!accessPackageSteps \cup
    Security!advisorSteps \cup AppService!apiManagementSteps \cup AppService!appServiceSteps
    \cup NetworkProtection!applicationSecurityGroupSteps \cup Authorization!authorizationSteps
    \cup AppService!batchSteps \cup Cdn!cdnSteps \cup Compute!computeSteps \cup
    ConditionalAccess!conditionalAccessPolicySteps \cup Container!containerInstanceSteps \cup
    Container!containerRegistrySteps \cup Container!containerServicesSteps \cup
    Databases!cosmosdbSteps \cup Databases!databaseSteps \cup NetworkProtection!DdosServiceSteps
    \cup Dns!dnsSteps \cup Event!eventGridSteps \cup Event!eventHubStep \cup
    ExpressRoute!expressRouteSteps \cup Cdn!frontdoorSteps \cup
    NetworkProtection!interserviceSteps \cup KeyVault!keyvaultSteps \cup
    Scope!managementGroupSteps \cup Monitor!monitorSteps \cup Network!networkSteps \cup
    Policy!policyInsightSteps \cup Policy!policySteps \cup Dns!privateDnsSteps \cup
    Databases!redisCacheSteps \cup Resources!resourcesSteps \cup Security!securitySteps \cup
    Event!serviceBusSteps \cup Storage!storageSteps \cup Scope!subscriptionSteps \cup
    Synapse!SynapseSteps

StepOf ==
    LET table == integrationSteps
    IN  [id \in {s.id : s \in table} |-> CHOOSE s \in table : s.id = id]

StepIds == {s.id : s \in integrationSteps}

TableDependsOn ==
    LET table == StepOf IN [id \in StepIds |-> table[id].dependsOn]

TableHandler ==
    LET table == StepOf IN [id \in StepIds |-> table[id].handler]

TableDeclared ==
    LET table == StepOf
    IN  [id \in StepIds |-> [entities |-> table[id].entities,
                             relationships |-> table[id].relationships]]

TableLastGraph == {s.id : s \in {x \in integrationSteps : x.graph = "last"}}

\* dependsOn of dependsOn, and so on, to the depth of the table.
TableAncestors ==
    LET table       == StepOf
        Deeper(ids) == ids \cup UNION {table[d].dependsOn : d \in ids}
        Deep(ids)   == Deeper(Deeper(Deeper(ids)))
    IN  [id \in StepIds |-> Deep(Deep(table[id].dependsOn))]

\* The types that the steps of a set add, and those that a name for any type stands for:
\* what has an id of the resource manager.
TypesOf(ids) ==
    LET handlers == {s.handler : s \in {x \in integrationSteps : x.id \in ids}}
    IN  UNION {h.adds \cup {e[2] : e \in h.each} : h \in handlers}

TableWildcards ==
    [ANY_SCOPE    |-> TypesOf(getResourceManagerSteps.executeFirstSteps
                                  \cup getManagementGroupSteps.executeFirstSteps),
     ANY_RESOURCE |-> TypesOf(getResourceManagerSteps.executeFirstSteps)]
============================================================================
