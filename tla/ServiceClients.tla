--------------------------- MODULE ServiceClients ----------------------------
(*****************************************************************************)
(* The clients of the Azure services and of the directory: every method that *)
(* a step calls, as what tells it from the others.  Most of them list        *)
(* resources with iterateAllResources or iterateResources, which             *)
(* ResourceManagerClient and GraphClient model request by request; the       *)
(* others are written by hand, and each has its own idea of further pages,   *)
(* of retries and of errors.  The second half is one call of one method.     *)
(*                                                                           *)
(* A definition marked FAULT is no part of the specification: it is a bug    *)
(* the definition after it could have.                                       *)
(*****************************************************************************)
EXTENDS Naturals, Sequences

CONSTANTS
    Pages,          \* bound: the pages of a listing, or the locations of iterateAccessRoles
    Attempts        \* bound: the attempts for a request, in the code DEFAULT_MAX_RETRIES or 3

ASSUME PagesAssumption == Pages \in Nat \ {0}
ASSUME AttemptsAssumption == Attempts \in Nat \ {0}

\* How a request fails: a 404, a 403 without and with a code in its body, a 401, a 401 for what
\* another tenant has (AKV10032), a 429, a connection that breaks, a subscription that is not
\* registered for the service, a storage account that does not have it, a 400 for a location
\* without it, anything else.
Errors == {"notFound", "forbidden", "denied", "unauthorized", "foreign", "throttled", "dropped",
           "unregistered", "unsupported", "noLocation", "other"}

\* A missing permission, where the 403 of the answer itself is looked at.  In what request()
\* throws, the code of a body takes the place of the 403.
Status403 == {"forbidden", "denied"}

\* These come with a code in words; others may, or with a number or nothing.
Coded == {"denied", "unsupported", "noLocation"}

\* The methods of both (f @@ g of the module TLC, of which a proof knows nothing).
f (+) g == [x \in DOMAIN f \cup DOMAIN g |-> IF x \in DOMAIN f THEN f[x] ELSE g[x]]

\* A callback throws, or does because it was given a resource again, or the client does.
Faults == {"callback", "duplicate", "fault"}
-----------------------------------------------------------------------------
(* Kinds of methods.  token: whether getAuthenticatedServiceClient is waited *)
(* for first; retries: after what a request is made again; next: how further *)
(* pages are asked for; empty: what is taken for an answer without resources;*)
(* absorbs: what ends the call without an error; replaces: for what a catch  *)
(* clause may throw an error of its own; catches: whether the listing goes   *)
(* on when a callback throws; unguarded: a request or check outside the      *)
(* others, "before" them or for each "resource"; service: what a storage     *)
(* account must offer to be asked.                                           *)

\* request(): one answer, and undefined for a resource that is not found.
Request == [token |-> TRUE, retries |-> {"throttled", "dropped", "fault"}, next |-> "none",
            empty |-> {"notFound", "unregistered"}, absorbs |-> {}, replaces |-> {},
            catches |-> FALSE, unguarded |-> "nothing", service |-> "any"]

\* iterateAllResources with an endpoint that has a listNext or a listAllNext.
Listing == [Request EXCEPT !.next = "followed", !.absorbs = {"forbidden"}]

\* With a listNext taken off the service client: called as a method of the endpoint, it
\* finds no client there.
Unbound == [Listing EXCEPT !.next = "unbound"]

\* GraphClient.request(): every error has the request made again, that of its token as well.
GraphRequest == [Request EXCEPT !.token = FALSE, !.retries = Errors, !.empty = {"notFound"}]

\* iterateResources: the loop of the directory clients over request().
GraphListing == [GraphRequest EXCEPT !.next = "own", !.absorbs = Status403, !.catches = TRUE]

\* With a list only: for a next link the first page is asked for again.
Endless == [Listing EXCEPT !.next = "again"]

\* A loop of its own that reads nexLink, or an answer that is passed on without its link.
LinkLost == [Listing EXCEPT !.next = "ignored"]

\* A method of the service client without request(): one answer, or the first page of a
\* listing.
OneCall(absorbs)   == [Request EXCEPT !.retries = {}, !.empty = {}, !.absorbs = absorbs]
FirstPage(absorbs) == [OneCall(absorbs) EXCEPT !.next = "ignored"]

\* The same of a newer service client, which has credentials for tokens, and all pages of a
\* listing by its iterator.
NewerCall(absorbs) == [OneCall(absorbs) EXCEPT !.token = FALSE]
Iterator(absorbs)  == [NewerCall(absorbs) EXCEPT !.next = "own"]

\* A catch clause that warns of every error within its try block: the token is fetched before.
Warning(method) == [method EXCEPT !.absorbs = Errors \cup Faults]
-----------------------------------------------------------------------------
(* The clients.                                                              *)

AdvisorClient == [iterateRecommendations |-> Listing, iterateSuppressions |-> Listing]

\* A list() of its own, outside request(), comes before the listing of the services.
J1ApiManagementClient ==
    [iterateApiManagementServices    |-> [Listing EXCEPT !.unguarded = "before"],
     iterateApiManagementServiceApis |-> LinkLost]

AppServiceClient ==
    [iterateApps |-> Listing, iterateAppServicePlans |-> Listing,
     fetchAppConfiguration |-> Request, fetchAppAuthSettings |-> Request]

MyNetworkManagementClient == [iterateApplicationSecurityGroups |-> Endless]

AuthorizationClient ==
    [iterateRoleDefinitions       |-> Unbound,
     iterateRoleAssignments       |-> FirstPage({"notFound"}),
     iterateClassicAdministrators |-> FirstPage({"notFound"})]

BatchClient ==
    [iterateBatchAccounts |-> Unbound, iterateBatchPools |-> Unbound,
     iterateBatchApplications |-> Unbound, iterateBatchCertificates |-> Unbound]

\* FAULT: the endpoints are listed without a listNext.
CdnClientWithoutNext == [iterateProfiles |-> Listing, iterateEndpoints |-> Endless]

CdnClient == [iterateProfiles |-> Listing, iterateEndpoints |-> Listing]

\* The token for the security groups is fetched within the try block.
ComputeVirtualMachines ==
    [iterateVirtualMachines          |-> Listing,
     fetchInstanceView               |-> Request,
     getASGs |-> [Warning(OneCall({})) EXCEPT !.absorbs = @ \cup {"noToken"}],
     iterateVirtualMachineExtensions |-> LinkLost,
     iterateVirtualMachineDisks      |-> FirstPage({"notFound"})]

ComputeImages ==
    [iterateVirtualMachineImages |-> Listing, iterateGalleries |-> Listing,
     iterateGalleryImages |-> Unbound, iterateGalleryImageVersions |-> Listing,
     iterateVirtualMachinesScaleSets |-> Listing]

ContainerInstanceClient == [iterateContainerGroups |-> Unbound]

J1ContainerRegistryManagementClient ==
    [iterateRegistries |-> Listing, iterateRegistryWebhooks |-> Listing]

\* The access roles are listed location by location; one without the service is left out.
ContainerServicesClient ==
    [iterateClusters                  |-> Iterator({}),
     iterateMaintenanceConfigurations |-> Iterator({}),
     iterateRoleBindings              |-> Iterator({}),
     iterateAccessRoles |-> [NewerCall({}) EXCEPT !.next = "locations",
                                                  !.empty = {"noLocation", "notFound"}]]

CosmosDBClient == [iterateAccounts |-> Listing, iterateSQLDatabases |-> Endless]

MariaDBClient == [iterateServers |-> Listing, iterateDatabases |-> Endless]

MySQLClient == [iterateServers |-> FirstPage({}), iterateDatabases |-> Endless]

PostgreSQLClient ==
    [iterateServers |-> Listing, getServerConfigurations |-> Warning(OneCall({})),
     iterateDatabases |-> Endless, iterateServerFirewallRules |-> Endless]

SQLListings ==
    [iterateServers |-> Listing, iterateDatabases |-> Endless,
     iterateServerActiveDirectoryAdministrators |-> Endless]

SQLEncryption ==
    [method \in {"fetchServerEncryptionProtector", "fetchDatabaseEncryption"} |->
        Warning(Request)]

SQLAuditing ==
    [method \in {"fetchServerAuditingStatus", "fetchDatabaseAuditingStatus"} |-> Warning(Request)]

SQLSecurity ==
    [method \in {"fetchServerVulnerabilityAssessment", "fetchServerSecurityAlertPolicies"} |->
        Warning(Request)]

SQLFetches == SQLEncryption (+) SQLAuditing (+) SQLSecurity

SQLFirewallRules == [iterateServerFirewallRules |-> Endless]

Ddos == [iterateDdosProtectionPlan |-> Listing]

J1DnsManagementClient == [iterateDnsZones |-> Listing, iterateDnsRecordSets |-> Listing]

J1PrivateDnsManagementClient ==
    [iteratePrivateDnsZones |-> Listing, iteratePrivateDnsRecordSets |-> Listing]

EventGridDomains ==
    [iterateDomains |-> Unbound, iterateDomainTopics |-> Unbound,
     iterateDomainTopicSubscriptions |-> Unbound]

EventGridTopics == [iterateTopics |-> Unbound, iterateTopicSubscriptions |-> Unbound]

EventHubClient ==
    [method \in {"iterateEventHubNamespaces", "iterateEventHubCluster",
                 "iterateAzureConsumerGroup", "iterateEventHubs"} |->
        Iterator(Status403)]

ExpressRouteClient ==
    [iterateExpressRouteCircuit           |-> Listing,
     iterateBgpServiceCommunities         |-> Listing,
     iterateApplicationGateway            |-> Listing,
     iteratePeerExpressRouteConnection    |-> FirstPage(Status403),
     iterateExpressRouteCrossConnection   |-> Listing,
     iterateExpressRouteCircuitConnection |-> FirstPage(Status403)]

FrontDoors ==
    [method \in {"iterateFrontDoors", "iterateFrontendEndpoints", "iterateExperiments",
                 "iteratePreconfiguredEndpoints", "iterateRulesEngines"} |-> Listing]

FrontDoorPolicies ==
    [method \in {"iterateManagedRuleSets", "iterateNetworkExperimentProfiles",
                 "iteratePolicies"} |-> Listing]

\* vaults.get is called for every vault from the callback, outside request().
KeyVaultClient ==
    [iterateKeyVaults |-> [Listing EXCEPT !.unguarded = "resource"],
     iterateKeys      |-> Iterator(Status403 \cup {"foreign"}),
     iterateSecrets   |-> Iterator(Status403 \cup {"foreign"})]

ManagementGroupClient == [getManagementGroup |-> OneCall({})]

\* The catch clause around the diagnostic settings warns of every error, but the promise in
\* its try block is returned without an await: it catches none.
MonitorClient ==
    [iterateLogProfiles |-> Endless, iterateDiagnosticSettings |-> LinkLost,
     iterateActivityLogAlerts |-> Endless, iterateActivityLogsFromPreviousNDays |-> Listing]

NetworkFirewalls ==
    [iterateAzureFirewalls |-> Unbound, iterateFirewallPolicies |-> Unbound,
     iterateFirewallPolicyRuleGroups |-> LinkLost, iteratePrivateEndpoints |-> Listing]

\* FAULT: the load balancers are iterated as list() answers them.
NetworkResourcesFirstPage ==
    [iterateNetworkInterfaces |-> Listing, iteratePublicIPAddresses |-> Listing,
     iterateLoadBalancers |-> [Listing EXCEPT !.next = "ignored"],
     iterateNetworkSecurityGroups |-> Listing,
     iterateVirtualNetworks |-> Listing, iterateNetworkWatchers |-> Endless,
     iterateNetworkSecurityGroupFlowLogs |-> Listing]

NetworkResources ==
    [iterateNetworkInterfaces |-> Listing, iteratePublicIPAddresses |-> Listing,
     iterateLoadBalancers |-> Listing, iterateNetworkSecurityGroups |-> Listing,
     iterateVirtualNetworks |-> Listing, iterateNetworkWatchers |-> Endless,
     iterateNetworkSecurityGroupFlowLogs |-> Listing]

AzurePolicyClient ==
    [method \in {"getPolicySetDefinition", "getBuiltInPolicySetDefinition",
                 "getManagementGroupPolicySetDefinition", "getPolicyDefinition",
                 "getBuiltInPolicyDefinition", "getManagementGroupPolicyDefinition"} |->
        Request]
        (+) [iteratePolicyAssignments |-> Listing]

AzurePolicyInsightsClient == [iterateLatestPolicyStatesForSubscription |-> Listing]

RedisCacheClient ==
    [iterateCaches |-> Unbound, iterateFirewallRules |-> Unbound, iterateLinkedServers |-> Unbound]

\* FAULT: the provider is asked for without request().
ResourcesClientDirect ==
    [getResourceProvider |-> OneCall({"notFound"}), iterateLocks |-> Unbound,
     iterateResourceGroups |-> FirstPage({"notFound"})]

ResourcesClient ==
    [getResourceProvider |-> Request, iterateLocks |-> Unbound,
     iterateResourceGroups |-> FirstPage({"notFound"})]

\* FAULT: the listing of the settings is returned without an await, too.
SecurityClientUnawaited ==
    [iterateAssessments |-> Listing, iteratePricings |-> LinkLost, iterateSettings |-> Listing,
     iterateAutoProvisioningSettings |-> Listing, iterateDefenderAlerts |-> Listing,
     iterateSecurityContacts |-> Listing]

SecurityClient ==
    [iterateAssessments |-> Listing, iteratePricings |-> LinkLost,
     iterateSettings |-> Warning(Listing),
     iterateAutoProvisioningSettings |-> Listing, iterateDefenderAlerts |-> Listing,
     iterateSecurityContacts |-> Listing]

\* The next page of the subscriptions of a topic is read as a page of topics.
ServiceBusClient ==
    [iterateNamespaces |-> Listing, iterateQueues |-> Listing, iterateTopics |-> Listing,
     iterateTopicSubscriptions |-> Listing]

\* What an account offers is told by its kind and tier.
Kinds == {"Storage", "StorageV2", "FileStorage", "BlobStorage", "BlockBlobStorage"}
SkuTiers == {"Standard", "Premium"}

getSupportedServicesForKindAndTier(kind, tier) ==
    CASE kind = "FileStorage" -> {"FILE_SHARE"}
      [] kind \in {"Storage", "StorageV2"} /\ tier = "Standard" ->
            {"BLOB", "FILE_SHARE", "QUEUE", "TABLE"}
      [] OTHER -> {"BLOB"}

isServiceEnabledForKindAndTier(service, kind, tier) ==
    service = "any" \/ service \in getSupportedServicesForKindAndTier(kind, tier)

IfEnabled(service, method) == [method EXCEPT !.service = service]

\* The properties of the tables are asked for where there are blobs.
StorageServiceProperties ==
    [getBlobServiceProperties  |-> IfEnabled("BLOB", Warning(NewerCall({}))),
     getQueueServiceProperties |-> IfEnabled("QUEUE", Warning(NewerCall({}))),
     getTableServiceProperties |-> IfEnabled("BLOB", Warning(NewerCall({})))]

StorageContents ==
    [iterateContainers |-> IfEnabled("BLOB", Iterator({})),
     iterateBlob       |-> IfEnabled("BLOB", Warning(Iterator({})))]

\* The words of a status are looked for that may be a number or undefined: includes() is then
\* no function, and the error of that is thrown.
withAccountSupportErrorHandling(method) ==
    [method EXCEPT !.absorbs = @ \cup {"unsupported"},
                   !.replaces = (Errors \cup Faults) \ (method.absorbs \cup Coded)]

StorageAccounts == [iterateStorageAccounts |-> Listing]

StorageBlobsAndQueues ==
    [iterateStorageBlobContainers |-> IfEnabled("BLOB", withAccountSupportErrorHandling(Listing)),
     iterateQueues |-> IfEnabled("QUEUE", withAccountSupportErrorHandling(Listing))]

StorageTablesAndShares ==
    [iterateTables     |-> IfEnabled("TABLE", withAccountSupportErrorHandling(Listing)),
     iterateFileShares |-> IfEnabled("FILE_SHARE", withAccountSupportErrorHandling(Listing))]

\* A 404 for what is described as 'subscriptions' is an error.
OfSubscriptions(method) == [method EXCEPT !.empty = @ \ {"notFound"}]

requestWithAuthErrorhandling(method) == [method EXCEPT !.absorbs = {"forbidden"}]

J1SubscriptionClient ==
    [iterateSubscriptions |-> OfSubscriptions(Listing), iterateLocations |-> Endless,
     getUsageDetails |-> requestWithAuthErrorhandling(OfSubscriptions(Request)),
     fetchSubscriptions |-> [Request EXCEPT !.next = "concat"],
     fetchSubscription  |-> OfSubscriptions(Request)]

SynapseWorkspaces ==
    [method \in {"iterateWorkspaces", "iterateSqlPools", "iterateSynapseKeys"} |->
        Iterator(Status403 \cup {"foreign"})]

SynapseDataMasking ==
    [iterateDataMaskingPolicies |-> NewerCall(Status403 \cup {"foreign"}),
     iterateDataMaskingRules    |-> Iterator(Status403 \cup {"foreign"})]

\* Reads the value of an undefined where there is nothing.
GraphClientFetches == [fetchOrganization |-> [GraphRequest EXCEPT !.empty = {}],
                       fetchDomain |-> [GraphRequest EXCEPT !.empty = {}, !.next = "ignored"]]

\* The permission is checked first, and a missing one is warned of.
DirectoryFetches ==
    [fetchIdentitySecurityDefaultsEnforcementPolicy |->
        [Warning(GraphRequest) EXCEPT !.unguarded = "permission"]]

DirectoryGroupsAndUsers ==
    [method \in {"iterateDirectoryRoles", "iterateDirectoryRoleMembers", "iterateGroups",
                 "iterateGroupMembers", "iterateUsers"} |-> GraphListing]

DirectoryPrincipals ==
    [method \in {"iterateDevices", "iterateServicePrincipals", "iterateServicePrincipalMembers",
                 "iterateRoleDefinitions", "iterateRoleAssignments"} |-> GraphListing]

DirectoryReports == [iterateUserRegistrationDetails |-> Warning(GraphListing)]

DirectoryGraphClient ==
    GraphClientFetches (+) DirectoryFetches (+) DirectoryGroupsAndUsers (+) DirectoryPrincipals
        (+) DirectoryReports

AccessPackageListings ==
    [method \in {"iterateAccessPackage", "iterateAccessPackageAssignment",
                 "iterateAccessPackageAssignmentPolicy", "iterateAccessPackageAssignmentRequest",
                 "iterateAccessPackagecatalog", "iterateAccessPackageResource",
                 "iterateAzureApplications"} |->
        GraphListing]

\* iterateResourcesforApprover: a 401 is taken for a missing permission, too.
AccessPackageApprovers ==
    [iterateAccessPackageAssignmentApprover |->
        [GraphListing EXCEPT !.absorbs = Status403 \cup {"unauthorized", "foreign"}]]

ConditionalAccessPolicyClient ==
    [method \in {"iterateConditionalAccessPolicy", "iterateConditionalAccessNamedLocation",
                 "iterateConditionalAccessAuthorizationContext",
                 "iterateConditionalAccessTemplate"} |->
        GraphListing]
-----------------------------------------------------------------------------
(* One call.                                                                 *)

Clients ==
    [AdvisorClient             |-> AdvisorClient,
     J1ApiManagementClient     |-> J1ApiManagementClient,
     AppServiceClient          |-> AppServiceClient,
     MyNetworkManagementClient |-> MyNetworkManagementClient,
     AuthorizationClient       |-> AuthorizationClient,
     BatchClient               |-> BatchClient,
     CdnClient                 |-> CdnClient,
     ComputeClient             |-> ComputeVirtualMachines (+) ComputeImages,
     ContainerInstanceClient   |-> ContainerInstanceClient,
     J1ContainerRegistryManagementClient |-> J1ContainerRegistryManagementClient,
     ContainerServicesClient   |-> ContainerServicesClient,
     CosmosDBClient            |-> CosmosDBClient,
     MariaDBClient             |-> MariaDBClient,
     MySQLClient               |-> MySQLClient,
     PostgreSQLClient          |-> PostgreSQLClient,
     SQLClient                 |-> SQLListings (+) SQLFetches (+) SQLFirewallRules,
     Ddos                      |-> Ddos,
     J1DnsManagementClient     |-> J1DnsManagementClient,
     J1PrivateDnsManagementClient |-> J1PrivateDnsManagementClient,
     EventGridClient           |-> EventGridDomains (+) EventGridTopics,
     EventHubClient            |-> EventHubClient,
     ExpressRouteClient        |-> ExpressRouteClient,
     FrontDoorClient           |-> FrontDoors (+) FrontDoorPolicies,
     KeyVaultClient            |-> KeyVaultClient,
     ManagementGroupClient     |-> ManagementGroupClient,
     MonitorClient             |-> MonitorClient,
     NetworkClient             |-> NetworkFirewalls (+) NetworkResources,
     AzurePolicyClient         |-> AzurePolicyClient,
     AzurePolicyInsightsClient |-> AzurePolicyInsightsClient,
     RedisCacheClient          |-> RedisCacheClient,
     ResourcesClient           |-> ResourcesClient,
     SecurityClient            |-> SecurityClient,
     ServiceBusClient          |-> ServiceBusClient,
     createStorageAccountServiceClient |-> StorageServiceProperties (+) StorageContents,
     StorageClient             |-> StorageAccounts (+) StorageBlobsAndQueues
                                       (+) StorageTablesAndShares,
     J1SubscriptionClient      |-> J1SubscriptionClient,
     SynapseClient             |-> SynapseWorkspaces (+) SynapseDataMasking,
     DirectoryGraphClient      |-> DirectoryGraphClient,
     AccessPackageClient       |-> AccessPackageListings (+) AccessPackageApprovers,
     ConditionalAccessPolicyClient |-> ConditionalAccessPolicyClient]

CallsOf(client) == {client} \X DOMAIN Clients[client]
Calls == UNION {CallsOf(client) : client \in DOMAIN Clients}

VARIABLES
    call,           \* <<client, method>>
    pages,          \* how many pages the service has
    page,           \* the page that is asked for, or was answered
    attempts,       \* left for the request, this one included
    phase,          \* the "token" is asked for; "before" a listing; a page is "asked" for, or
                    \* "answered", or the answer to a next link is "undefined"
    delivered,      \* the pages handed over; 0 is an undefined
    outcome,        \* "running", or how the call ended: "complete", "partial", "failed"
    cause           \* the last error that was not retried

vars == <<call, pages, page, attempts, phase, delivered, outcome, cause>>

Method == Clients[call[1]][call[2]]

\* What comes after the token.
FirstPhase == IF Method.unguarded \in {"before", "permission"} THEN "before" ELSE "asked"

Init ==
    /\ call \in Calls
    /\ pages \in 1 .. (IF Method.next = "none" THEN 1 ELSE Pages)
    /\ page = 1 /\ attempts = Attempts /\ delivered = <<>>
    /\ phase = IF Method.token THEN "token" ELSE FirstPhase
    /\ outcome = "running" /\ cause = "none"

\* An error ends the call, with or without a word.
Fail(error) ==
    /\ \/ cause' = error
       \/ error \in Method.replaces /\ cause' = "fault"
    /\ outcome' = IF error \in Method.absorbs THEN "partial" ELSE "failed"
    /\ UNCHANGED <<call, pages, page, attempts, phase, delivered>>

\* A listNext that has lost its service client throws before it asks.
MayAnswer(error) ==
    /\ outcome = "running" /\ phase = "asked"
    /\ IF page > 1 /\ Method.next = "unbound" THEN error = "fault" ELSE error \in Errors

\* This error ends the request.
Ends(error) == MayAnswer(error) /\ (error \in Method.retries => attempts = 1)

Answer ==
    /\ outcome = "running" /\ phase = "asked"
    /\ page > 1 => Method.next # "unbound"
    /\ phase' = "answered"
    /\ UNCHANGED <<call, pages, page, attempts, delivered, outcome, cause>>

\* FAULT: one attempt more than granted.
RetryOnceMore ==
    /\ \E error \in Errors \cup Faults : error \in Method.retries /\ MayAnswer(error)
    /\ attempts > 0 /\ attempts' = attempts - 1
    /\ UNCHANGED <<call, pages, page, phase, delivered, outcome, cause>>

Retry ==
    /\ \E error \in Errors \cup Faults : error \in Method.retries /\ MayAnswer(error)
    /\ attempts > 1 /\ attempts' = attempts - 1
    /\ UNCHANGED <<call, pages, page, phase, delivered, outcome, cause>>

GiveUp ==
    \E error \in (Errors \cup Faults) \ Method.empty :
        Ends(error) /\ Fail(error)

\* What was handed over is all there is to hand over, as far as the method can tell.
LastPage == page = pages \/ Method.next \in {"none", "ignored"}

AskNext ==
    /\ page' = page + 1 /\ attempts' = Attempts /\ phase' = "asked"
    /\ UNCHANGED outcome

Return(why) ==
    /\ outcome' = IF why = "none" THEN "complete" ELSE "partial"
    /\ UNCHANGED <<page, attempts, phase>>

\* FAULT: without an answer the same page is asked for again.
EmptyAsksAgain ==
    /\ \E error \in Method.empty : Ends(error) /\ cause' = error
    /\ UNCHANGED <<call, pages, page, attempts, phase, delivered, outcome>>

\* iterateAllResources forgets no link for an undefined: it has none before the first page.
KeepsLink == page > 1 /\ Method.next \in {"followed", "again"}

\* request() answers undefined: a listing ends, as there is no next link, the list of the
\* subscriptions gets an undefined.  A location without access roles is passed over.
Empty ==
    \E error \in Method.empty :
        /\ Ends(error) /\ ~KeepsLink
        /\ cause' = error
        /\ delivered' = IF Method.next = "concat" THEN Append(delivered, 0) ELSE delivered
        /\ IF Method.next = "locations" /\ page < pages THEN AskNext ELSE Return(error)
        /\ UNCHANGED <<call, pages>>

\* It answers undefined for a next link, and the loop asks for the same link.
Undefined ==
    /\ \E error \in Method.empty : Ends(error) /\ KeepsLink /\ cause' = error
    /\ phase' = "undefined"
    /\ UNCHANGED <<call, pages, page, attempts, delivered, outcome>>

AskAgain ==
    /\ outcome = "running" /\ phase = "undefined"
    /\ attempts' = Attempts /\ phase' = "asked"
    /\ UNCHANGED <<call, pages, page, delivered, outcome, cause>>

\* The page handed over: without a listNext it is the first one again.
Served == IF Method.next = "again" THEN 1 ELSE page

Delivered(why) ==
    /\ outcome = "running" /\ phase = "answered"
    /\ delivered' = Append(delivered, Served) /\ cause' = why
    /\ IF LastPage THEN Return(why) ELSE AskNext
    /\ UNCHANGED <<call, pages>>

HandOver ==
    /\ \A i \in DOMAIN delivered : delivered[i] # Served
    /\ Delivered(cause)

TakesCallback == Method.next \notin {"none", "concat"}

\* A callback throws for one of the resources, and the listing goes on.
CallbackCaught == Method.catches /\ TakesCallback /\ Delivered("callback")

\* The callback of a step throws; it is sure to for a resource that it has added before.
CallbackThrew ==
    /\ outcome = "running" /\ phase = "answered"
    /\ TakesCallback /\ ~Method.catches
    /\ Fail(IF \E i \in DOMAIN delivered : delivered[i] = Served THEN "duplicate"
                                                                  ELSE "callback")

\* A storage account whose kind and tier lack the service is not asked for it.
NotEnabled ==
    /\ outcome = "running" /\ phase = "asked" /\ page = 1 /\ attempts = Attempts
    /\ \E kind \in Kinds, tier \in SkuTiers :
            ~isServiceEnabledForKindAndTier(Method.service, kind, tier)
    /\ cause' = "unsupported" /\ outcome' = "partial"
    /\ UNCHANGED <<call, pages, page, attempts, phase, delivered>>

\* getAuthenticatedServiceClient: the token is there, or could not be fetched; how often that is
\* tried is in ResourceManagerClient.
Authenticated ==
    /\ outcome = "running" /\ phase = "token"
    /\ phase' = FirstPhase
    /\ UNCHANGED <<call, pages, page, attempts, delivered, outcome, cause>>

TokenFailed == outcome = "running" /\ phase = "token" /\ Fail("noToken")

\* A request or check outside request(), before a call or for one of its resources, fails.
ListAnswered ==
    /\ outcome = "running" /\ phase = "before"
    /\ phase' = "asked"
    /\ UNCHANGED <<call, pages, page, attempts, delivered, outcome, cause>>

UnguardedFailed ==
    /\ outcome = "running"
    /\ phase = "before" \/ (phase = "answered" /\ Method.unguarded = "resource")
    /\ cause' \in Errors
    /\ outcome' = IF Method.unguarded = "permission" THEN "partial" ELSE "failed"
    /\ UNCHANGED <<call, pages, page, attempts, phase, delivered>>

CallOver == outcome # "running" /\ UNCHANGED vars

Progress ==
    \/ Authenticated \/ TokenFailed \/ ListAnswered \/ UnguardedFailed
    \/ Answer \/ Retry \/ GiveUp \/ Empty \/ Undefined \/ AskAgain
    \/ HandOver \/ CallbackCaught \/ CallbackThrew \/ NotEnabled

Next == Progress \/ CallOver

\* Every request is answered in the end, and callbacks return.
Spec == Init /\ [][Next]_vars /\ WF_vars(Progress)
-----------------------------------------------------------------------------
(* Properties.  Each is about all the calls but the ones it names.           *)

Of(client, methods) == {client} \X methods

\* Every variable has its type; a request has an attempt left (retryResourceRequest).
TypeOK ==
    /\ call \in Calls /\ pages \in 1 .. Pages /\ page \in 1 .. pages
    /\ attempts \in 1 .. Attempts
    /\ phase \in {"token", "before", "asked", "answered", "undefined"}
    /\ delivered \in Seq(0 .. Pages)
    /\ outcome \in {"running", "complete", "partial", "failed"}
    /\ cause \in Errors \cup Faults \cup {"none", "noToken"}

\* These have one page as long as the service answers without a next link.
FirstPageOnly ==
         Of("J1ApiManagementClient", {"iterateApiManagementServiceApis"})
    \cup Of("AuthorizationClient", {"iterateRoleAssignments", "iterateClassicAdministrators"})
    \cup Of("ComputeClient", {"iterateVirtualMachineExtensions", "iterateVirtualMachineDisks"})
    \cup Of("MySQLClient", {"iterateServers"})
    \cup Of("ExpressRouteClient", {"iteratePeerExpressRouteConnection",
                                   "iterateExpressRouteCircuitConnection"})
    \cup Of("DirectoryGraphClient", {"fetchDomain"})
    \cup Of("MonitorClient", {"iterateDiagnosticSettings"})
    \cup Of("NetworkClient", {"iterateFirewallPolicyRuleGroups"})
    \cup Of("ResourcesClient", {"iterateResourceGroups"})
    \cup Of("SecurityClient", {"iteratePricings"})

\* These fail at a next link.
FailsAtNextLink ==
         CallsOf("BatchClient")
    \cup CallsOf("ContainerInstanceClient")
    \cup CallsOf("EventGridClient")
    \cup CallsOf("RedisCacheClient")
    \cup Of("AuthorizationClient", {"iterateRoleDefinitions"})
    \cup Of("ComputeClient", {"iterateGalleryImages"})
    \cup Of("NetworkClient", {"iterateAzureFirewalls", "iterateFirewallPolicies"})
    \cup Of("ResourcesClient", {"iterateLocks"})

\* These may fail through their own catch clause, with the error of the request lost.
CatchClauseFails ==
    Of("StorageClient", DOMAIN StorageBlobsAndQueues \cup DOMAIN StorageTablesAndShares)

\* A call that returns without a warning handed over every page there is, and none fails
\* through the client itself (the loops of the clients and of iterateAllResources).
EveryPageArrives ==
    /\ call \notin FirstPageOnly \cup FailsAtNextLink /\ outcome = "complete" =>
            \A i \in 1 .. pages : \E j \in DOMAIN delivered : delivered[j] = i
    /\ call \notin FailsAtNextLink \cup CatchClauseFails => cause # "fault"

\* These have a list only: a next link has the first page delivered again.
WithoutNext ==
         CallsOf("MyNetworkManagementClient")
    \cup Of("CosmosDBClient", {"iterateSQLDatabases"})
    \cup Of("MariaDBClient", {"iterateDatabases"})
    \cup Of("MySQLClient", {"iterateDatabases"})
    \cup Of("PostgreSQLClient", {"iterateDatabases", "iterateServerFirewallRules"})
    \cup Of("SQLClient", {"iterateDatabases", "iterateServerActiveDirectoryAdministrators",
                          "iterateServerFirewallRules"})
    \cup Of("MonitorClient", {"iterateLogProfiles", "iterateActivityLogAlerts"})
    \cup Of("NetworkClient", {"iterateNetworkWatchers"})
    \cup Of("J1SubscriptionClient", {"iterateLocations"})

\* The pages are handed over in order, none twice, and nothing but pages is: an entity that
\* is added twice fails its step (the next links of iterateAllResources, fetchSubscriptions).
HandedOverOnce ==
    call \notin WithoutNext \cup Of("J1SubscriptionClient", {"fetchSubscriptions"}) =>
        /\ \A i \in DOMAIN delivered : /\ delivered[i] \in 1 .. pages
                                       /\ i > 1 => delivered[i] > delivered[i - 1]
        /\ cause # "duplicate"

\* These make requests without request() or check a permission before it: the retries are
\* those of the service client.
WithoutRequest ==
         CallsOf("ContainerServicesClient")
    \cup CallsOf("EventHubClient")
    \cup CallsOf("ManagementGroupClient")
    \cup CallsOf("SynapseClient")
    \cup CallsOf("createStorageAccountServiceClient")
    \cup CallsOf("KeyVaultClient")
    \cup Of("J1ApiManagementClient", {"iterateApiManagementServices"})
    \cup Of("DirectoryGraphClient", DOMAIN DirectoryFetches)
    \cup Of("AuthorizationClient", {"iterateRoleAssignments", "iterateClassicAdministrators"})
    \cup Of("ComputeClient", {"getASGs", "iterateVirtualMachineDisks"})
    \cup Of("MySQLClient", {"iterateServers"})
    \cup Of("PostgreSQLClient", {"getServerConfigurations"})
    \cup Of("ExpressRouteClient", {"iteratePeerExpressRouteConnection",
                                   "iterateExpressRouteCircuitConnection"})
    \cup Of("ResourcesClient", {"iterateResourceGroups"})

\* A throttled or broken request ends no call before every attempt is used up
\* (retryResourceRequest, retryRequest).
OutagesAreSurvived ==
    call \notin WithoutRequest /\ cause \in {"throttled", "dropped"} => attempts = 1

\* These fail for a missing permission.
ForbiddenFails ==
         CallsOf("ContainerServicesClient")
    \cup CallsOf("ManagementGroupClient")
    \cup Of("J1ApiManagementClient", {"iterateApiManagementServices"})
    \cup Of("AppServiceClient", {"fetchAppConfiguration", "fetchAppAuthSettings"})
    \cup Of("DirectoryGraphClient", {"fetchOrganization", "fetchDomain"})
    \cup Of("AuthorizationClient", {"iterateRoleAssignments", "iterateClassicAdministrators"})
    \cup Of("ComputeClient", {"fetchInstanceView", "iterateVirtualMachineDisks"})
    \cup Of("MySQLClient", {"iterateServers"})
    \cup Of("KeyVaultClient", {"iterateKeyVaults"})
    \cup (CallsOf("AzurePolicyClient") \ Of("AzurePolicyClient", {"iteratePolicyAssignments"}))
    \cup Of("ResourcesClient", {"getResourceProvider", "iterateResourceGroups"})
    \cup Of("createStorageAccountServiceClient", {"iterateContainers"})
    \cup Of("J1SubscriptionClient", {"fetchSubscriptions", "fetchSubscription"})

\* These have a catch clause that takes any error of request().
CatchesAnyError == Of("SQLClient", DOMAIN SQLFetches) \cup Of("SecurityClient", {"iterateSettings"})

DirectoryCalls ==
    CallsOf("DirectoryGraphClient") \cup CallsOf("AccessPackageClient")
        \cup CallsOf("ConditionalAccessPolicyClient")

\* These fail for a missing permission as soon as the body of the 403 has a code: they look for
\* the 403 in the status of the error that request() throws, and it is that code.
CodeHides403 == Calls \ (WithoutRequest \cup DirectoryCalls \cup CatchesAnyError)

\* A 403 without a code costs the resources it is for and never the step, one with a code does
\* so where the answer itself is looked at or any error is caught, the promise awaited within
\* the try block (the catch clauses of iterateAllResources, iterateResources,
\* requestWithAuthErrorhandling and the clients).
ForbiddenIsReported ==
    /\ call \notin ForbiddenFails /\ cause = "forbidden" => outcome = "partial"
    /\ call \notin ForbiddenFails \cup CodeHides403 /\ cause = "denied" => outcome = "partial"

\* A call ends, unless the service answers with an undefined to a next link over and over: any
\* other answers, errors and outages come to an end.
CallEnds == <>(outcome # "running") \/ []<>(phase = "undefined")
=============================================================================
