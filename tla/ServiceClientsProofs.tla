------------------------ MODULE ServiceClientsProofs -------------------------
(*****************************************************************************)
(* What is proved of the calls of the clients, for every number of pages and *)
(* of attempts.  The first half is about the table of the methods: all but   *)
(* the exceptions that the properties name do what the code around a request *)
(* promises.  The second half is about one call of a method that does.       *)
(*****************************************************************************)
EXTENDS ServiceClients, TLAPS

\* The method asks for every page the service has a link to, and can.
ReadsEveryPage(method) == method.next \notin {"ignored", "unbound"}

\* It hands over a page of the service at most once, and nothing else.
ServesPagesOnce(method) == method.next \notin {"again", "concat"}

\* A throttled or broken request is made again, and there is no request beside it.
RetriesOutages(method) ==
    /\ {"throttled", "dropped"} \subseteq method.retries
    /\ {"throttled", "dropped"} \cap method.empty = {}
    /\ method.unguarded = "nothing"

\* Its errors are those of the service or of a callback, and a catch clause keeps them.
KeepsErrors(method) == method.next # "unbound" /\ method.replaces = {}

\* A 403 ends the call with a warning: one without a code, and one with a code.
Reports(status, method) ==
    /\ status \in method.absorbs /\ status \notin method.empty
    /\ method.unguarded \in {"nothing", "permission"}

Complete(method) ==
    /\ ReadsEveryPage(method) /\ ServesPagesOnce(method)
    /\ RetriesOutages(method) /\ Reports("forbidden", method)

\* These see the 403 behind a code.
SeesDenied == WithoutRequest \cup DirectoryCalls \cup CatchesAnyError

\* The methods of a client do what the exceptions of the properties leave.
Conforms(client, methods) ==
    \A m \in DOMAIN methods :
        /\ <<client, m>> \in FirstPageOnly \cup FailsAtNextLink \/ ReadsEveryPage(methods[m])
        /\ <<client, m>> \in FailsAtNextLink \cup CatchClauseFails \/ KeepsErrors(methods[m])
        /\ \/ <<client, m>> \in WithoutNext \cup Of("J1SubscriptionClient", {"fetchSubscriptions"})
           \/ ServesPagesOnce(methods[m])
        /\ <<client, m>> \in WithoutRequest \/ RetriesOutages(methods[m])
        /\ <<client, m>> \in ForbiddenFails \/ Reports("forbidden", methods[m])
        /\ \/ <<client, m>> \in ForbiddenFails \/ <<client, m>> \notin SeesDenied
           \/ Reports("denied", methods[m])
-----------------------------------------------------------------------------
(* The table.                                                                *)

\* The listings that iterateAllResources and iterateResources make, and their variants, go
\* through all the pages, retry and report.
LEMMA CompleteListings ==
    /\ \A method \in {Listing, withAccountSupportErrorHandling(Listing),
                      OfSubscriptions(Listing), Warning(Listing)} : Complete(method)
    /\ \A method \in {Listing, OfSubscriptions(Listing), Warning(Listing)} : KeepsErrors(method)
    /\ Reports("denied", Warning(Listing))
  <1> USE DEF Complete, ReadsEveryPage, ServesPagesOnce, RetriesOutages, Reports, KeepsErrors
  <1>1. Complete(Listing) /\ KeepsErrors(Listing)
    BY DEF Listing, Request
  <1>2. Complete(withAccountSupportErrorHandling(Listing))
    BY DEF Listing, Request, withAccountSupportErrorHandling
  <1>3. Complete(OfSubscriptions(Listing)) /\ KeepsErrors(OfSubscriptions(Listing))
    BY DEF Listing, Request, OfSubscriptions
  <1>4. /\ Complete(Warning(Listing)) /\ KeepsErrors(Warning(Listing))
        /\ Reports("denied", Warning(Listing))
    BY DEF Listing, Request, Warning, Errors, Faults
  <1> HIDE DEF Complete, KeepsErrors, Reports
  <1> QED BY <1>1, <1>2, <1>3, <1>4

\* The listings of the directory do as well, the one that takes a 401 for a 403 included.
LEMMA CompleteGraphListings ==
    \A method \in {GraphListing,
                   [GraphListing EXCEPT !.absorbs = Status403 \cup {"unauthorized", "foreign"}],
                   Warning(GraphListing)} :
        Complete(method) /\ KeepsErrors(method) /\ Reports("denied", method)
  <1> USE DEF Complete, ReadsEveryPage, ServesPagesOnce, RetriesOutages, Reports, KeepsErrors,
              GraphListing, GraphRequest, Request, Errors, Status403
  <1> DEFINE Whole(method) == Complete(method) /\ KeepsErrors(method) /\ Reports("denied", method)
  <1>1. Whole(GraphListing)
    OBVIOUS
  <1>2. Whole([GraphListing EXCEPT !.absorbs = Status403 \cup {"unauthorized", "foreign"}])
    OBVIOUS
  <1>3. Whole(Warning(GraphListing))
    BY DEF Warning, Faults
  <1> HIDE DEF Complete, Reports, KeepsErrors, GraphListing, GraphRequest, Request, Errors,
               Status403
  <1> QED BY <1>1, <1>2, <1>3

\* So do the single requests within a catch clause.
LEMMA CompleteRequests ==
    /\ \A method \in {Warning(Request), requestWithAuthErrorhandling(OfSubscriptions(Request))} :
          Complete(method) /\ KeepsErrors(method)
    /\ Reports("denied", Warning(Request))
  <1> USE DEF Complete, ReadsEveryPage, ServesPagesOnce, RetriesOutages, Reports, KeepsErrors,
              Request
  <1>1. /\ Complete(Warning(Request)) /\ KeepsErrors(Warning(Request))
        /\ Reports("denied", Warning(Request))
    BY DEF Warning, Errors, Faults
  <1>2. /\ Complete(requestWithAuthErrorhandling(OfSubscriptions(Request)))
        /\ KeepsErrors(requestWithAuthErrorhandling(OfSubscriptions(Request)))
    BY DEF requestWithAuthErrorhandling, OfSubscriptions
  <1> HIDE DEF Complete, Request, KeepsErrors, Reports
  <1> QED BY <1>1, <1>2

\* What the listings do that have trouble with a next link.
LEMMA FirstPageKinds ==
    /\ \A method \in {Unbound, LinkLost} :
          ServesPagesOnce(method) /\ RetriesOutages(method) /\ Reports("forbidden", method)
    /\ ReadsEveryPage(Endless) /\ RetriesOutages(Endless) /\ Reports("forbidden", Endless)
    /\ KeepsErrors(LinkLost) /\ KeepsErrors(Endless)
    /\ \A absorbs : /\ ServesPagesOnce(FirstPage(absorbs)) /\ KeepsErrors(FirstPage(absorbs))
                    /\ \A status \in absorbs : Reports(status, FirstPage(absorbs))
  BY DEF Unbound, LinkLost, Endless, Listing, FirstPage, OneCall, Request,
         ReadsEveryPage, ServesPagesOnce, RetriesOutages, Reports, KeepsErrors

\* What the single requests do, and the calls without request().
LEMMA RequestKinds ==
    /\ \A method \in {Request, OfSubscriptions(Request), [GraphRequest EXCEPT !.empty = {}]} :
          /\ ReadsEveryPage(method) /\ ServesPagesOnce(method) /\ RetriesOutages(method)
          /\ KeepsErrors(method)
    /\ \A absorbs : \A method \in {OneCall(absorbs), NewerCall(absorbs), Iterator(absorbs)} :
          /\ ReadsEveryPage(method) /\ ServesPagesOnce(method) /\ KeepsErrors(method)
          /\ \A status \in absorbs : Reports(status, method)
  BY DEF Request, GraphRequest, OfSubscriptions, OneCall, NewerCall, Iterator, Errors,
         ReadsEveryPage, ServesPagesOnce, RetriesOutages, Reports, KeepsErrors

\* What the methods do with a catch clause for every error.
LEMMA WarningKinds ==
    \A method \in {Warning(OneCall({})), Warning(NewerCall({})), Warning(Iterator({})),
                   [Warning(OneCall({})) EXCEPT !.absorbs = @ \cup {"noToken"}],
                   [Warning(GraphRequest) EXCEPT !.unguarded = "permission"]} :
        /\ ReadsEveryPage(method) /\ ServesPagesOnce(method) /\ KeepsErrors(method)
        /\ Reports("forbidden", method) /\ Reports("denied", method)
  <1> DEFINE Whole(method) ==
                /\ ReadsEveryPage(method) /\ ServesPagesOnce(method) /\ KeepsErrors(method)
                /\ Reports("forbidden", method) /\ Reports("denied", method)
  <1> USE DEF Warning, Request, GraphRequest, OneCall, NewerCall, Iterator, Errors, Faults,
              ReadsEveryPage, ServesPagesOnce, Reports, KeepsErrors
  <1>1. Whole(Warning(OneCall({})))
    OBVIOUS
  <1>2. Whole(Warning(NewerCall({})))
    OBVIOUS
  <1>3. Whole(Warning(Iterator({})))
    OBVIOUS
  <1>4. Whole([Warning(OneCall({})) EXCEPT !.absorbs = @ \cup {"noToken"}])
    OBVIOUS
  <1>5. Whole([Warning(GraphRequest) EXCEPT !.unguarded = "permission"])
    OBVIOUS
  <1> HIDE DEF Warning, Request, GraphRequest, OneCall, NewerCall, Iterator, Errors, Faults,
               ReadsEveryPage, ServesPagesOnce, Reports, KeepsErrors
  <1> QED BY <1>1, <1>2, <1>3, <1>4, <1>5

\* What an account must offer changes none of it.
LEMMA StorageKinds ==
    \A service, method :
        LET enabled == IfEnabled(service, method)
        IN  /\ ReadsEveryPage(method) => ReadsEveryPage(enabled)
            /\ ServesPagesOnce(method) => ServesPagesOnce(enabled)
            /\ KeepsErrors(method) => KeepsErrors(enabled)
            /\ RetriesOutages(method) => RetriesOutages(enabled)
            /\ \A status : Reports(status, method) => Reports(status, enabled)
  BY DEF IfEnabled, ReadsEveryPage, ServesPagesOnce, RetriesOutages, Reports, KeepsErrors

\* Both kinds of a 403 are among them.
LEMMA BothStatuses ==
    /\ \A others : {"forbidden", "denied"} \subseteq Status403 \cup others
    /\ {"forbidden", "denied"} \subseteq Status403
  BY DEF Status403

\* Which clients have calls that see a 403 behind a code.
LEMMA DeniedIsSeen ==
    ASSUME NEW client, NEW m, <<client, m>> \in SeesDenied
    PROVE  \/ client \in {"ContainerServicesClient", "EventHubClient", "ManagementGroupClient",
                          "SynapseClient", "createStorageAccountServiceClient",
                          "KeyVaultClient", "DirectoryGraphClient", "AccessPackageClient",
                          "ConditionalAccessPolicyClient"}
           \/ client = "J1ApiManagementClient" /\ m = "iterateApiManagementServices"
           \/ client = "AuthorizationClient"
                /\ m \in {"iterateRoleAssignments", "iterateClassicAdministrators"}
           \/ client = "ComputeClient" /\ m \in {"getASGs", "iterateVirtualMachineDisks"}
           \/ client = "MySQLClient" /\ m = "iterateServers"
           \/ client = "PostgreSQLClient" /\ m = "getServerConfigurations"
           \/ client = "ExpressRouteClient"
                /\ m \in {"iteratePeerExpressRouteConnection",
                          "iterateExpressRouteCircuitConnection"}
           \/ client = "ResourcesClient" /\ m = "iterateResourceGroups"
           \/ client = "SQLClient" /\ m \in DOMAIN SQLFetches
           \/ client = "SecurityClient" /\ m = "iterateSettings"
  <1>1. CASE <<client, m>> \in WithoutRequest
    BY <1>1 DEF WithoutRequest, CallsOf, Of
  <1>2. CASE <<client, m>> \in DirectoryCalls
    BY <1>2 DEF DirectoryCalls, CallsOf
  <1>3. CASE <<client, m>> \in CatchesAnyError
    BY <1>3 DEF CatchesAnyError, Of
  <1> QED BY <1>1, <1>2, <1>3 DEF SeesDenied

\* A client in parts conforms when its parts do.
LEMMA MergeConforms ==
    ASSUME NEW client, NEW f, NEW g, Conforms(client, f), Conforms(client, g)
    PROVE  Conforms(client, f (+) g)
  BY DEF Conforms, (+)

\* The calls of the clients that the properties name as a whole.
LEMMA CallsOfClients ==
    /\ CallsOf("MyNetworkManagementClient")
        = Of("MyNetworkManagementClient", DOMAIN MyNetworkManagementClient)
    /\ CallsOf("BatchClient") = Of("BatchClient", DOMAIN BatchClient)
    /\ CallsOf("ContainerInstanceClient")
        = Of("ContainerInstanceClient", DOMAIN ContainerInstanceClient)
    /\ CallsOf("ContainerServicesClient")
        = Of("ContainerServicesClient", DOMAIN ContainerServicesClient)
    /\ CallsOf("EventHubClient") = Of("EventHubClient", DOMAIN EventHubClient)
    /\ CallsOf("KeyVaultClient") = Of("KeyVaultClient", DOMAIN KeyVaultClient)
    /\ CallsOf("ManagementGroupClient")
        = Of("ManagementGroupClient", DOMAIN ManagementGroupClient)
    /\ CallsOf("AzurePolicyClient") = Of("AzurePolicyClient", DOMAIN AzurePolicyClient)
    /\ CallsOf("RedisCacheClient") = Of("RedisCacheClient", DOMAIN RedisCacheClient)
  BY DEF Clients, CallsOf, Of

\* The same for those in parts.
LEMMA CallsOfParts ==
    /\ CallsOf("EventGridClient")
        = Of("EventGridClient", DOMAIN EventGridDomains \cup DOMAIN EventGridTopics)
    /\ CallsOf("createStorageAccountServiceClient")
        = Of("createStorageAccountServiceClient",
              DOMAIN StorageServiceProperties \cup DOMAIN StorageContents)
    /\ CallsOf("SynapseClient")
        = Of("SynapseClient", DOMAIN SynapseWorkspaces \cup DOMAIN SynapseDataMasking)
  BY DEF Clients, CallsOf, Of, (+)

\* Every method of every client is an exception that the properties name or keeps them.
LEMMA ClientsConform == \A client \in DOMAIN Clients : Conforms(client, Clients[client])
  <1> USE DeniedIsSeen
  <1>1. Conforms("AdvisorClient", AdvisorClient)
    BY CompleteListings DEF AdvisorClient, Conforms, Complete, Of
  <1>2. Conforms("J1ApiManagementClient", J1ApiManagementClient)
    <2>1. LET method == [Listing EXCEPT !.unguarded = "before"]
          IN  ReadsEveryPage(method) /\ ServesPagesOnce(method) /\ KeepsErrors(method)
      BY DEF Listing, Request, ReadsEveryPage, ServesPagesOnce, KeepsErrors
    <2> QED BY <2>1, FirstPageKinds
               DEF J1ApiManagementClient, Conforms, FirstPageOnly, WithoutRequest,
                   ForbiddenFails, Of
  <1>3. Conforms("AppServiceClient", AppServiceClient)
    BY CompleteListings, RequestKinds
       DEF AppServiceClient, Conforms, Complete, ForbiddenFails, Of
  <1>4. Conforms("MyNetworkManagementClient", MyNetworkManagementClient)
    BY CallsOfClients, FirstPageKinds
       DEF MyNetworkManagementClient, Conforms, WithoutNext, Of
  <1>5. Conforms("AuthorizationClient", AuthorizationClient)
    BY FirstPageKinds
       DEF AuthorizationClient, Conforms, FirstPageOnly, FailsAtNextLink, WithoutRequest,
           ForbiddenFails, Of
  <1>6. Conforms("BatchClient", BatchClient)
    BY CallsOfClients, FirstPageKinds DEF BatchClient, Conforms, FailsAtNextLink, Of
  <1>7. Conforms("CdnClient", CdnClient)
    BY CompleteListings DEF CdnClient, Conforms, Complete, Of
  <1>8. Conforms("ComputeClient", ComputeVirtualMachines (+) ComputeImages)
    <2>1. Conforms("ComputeClient", ComputeVirtualMachines)
      BY CompleteListings, FirstPageKinds, RequestKinds, WarningKinds
         DEF ComputeVirtualMachines, Conforms, Complete, FirstPageOnly, WithoutRequest,
             ForbiddenFails, Of
    <2>2. Conforms("ComputeClient", ComputeImages)
      BY CompleteListings, FirstPageKinds
         DEF ComputeImages, Conforms, Complete, FailsAtNextLink, Of
    <2> QED BY <2>1, <2>2, MergeConforms
  <1>9. Conforms("ContainerInstanceClient", ContainerInstanceClient)
    BY CallsOfClients, FirstPageKinds
       DEF ContainerInstanceClient, Conforms, FailsAtNextLink, Of
  <1>10. Conforms("J1ContainerRegistryManagementClient", J1ContainerRegistryManagementClient)
    BY CompleteListings DEF J1ContainerRegistryManagementClient, Conforms, Complete, Of
  <1>11. Conforms("ContainerServicesClient", ContainerServicesClient)
    <2>1. LET method == [NewerCall({}) EXCEPT !.next = "locations",
                                       !.empty = {"noLocation", "notFound"}]
          IN  ReadsEveryPage(method) /\ ServesPagesOnce(method) /\ KeepsErrors(method)
      BY DEF NewerCall, OneCall, Request, ReadsEveryPage, ServesPagesOnce, KeepsErrors
    <2> QED BY CallsOfClients, <2>1, RequestKinds
               DEF ContainerServicesClient, Conforms, WithoutRequest, ForbiddenFails, Of
  <1>12. Conforms("CosmosDBClient", CosmosDBClient)
    BY CompleteListings, FirstPageKinds
       DEF CosmosDBClient, Conforms, Complete, WithoutNext, Of
  <1>13. Conforms("MariaDBClient", MariaDBClient)
    BY CompleteListings, FirstPageKinds
       DEF MariaDBClient, Conforms, Complete, WithoutNext, Of
  <1>14. Conforms("MySQLClient", MySQLClient)
    BY FirstPageKinds
       DEF MySQLClient, Conforms, FirstPageOnly, WithoutNext, WithoutRequest,
           ForbiddenFails, Of
  <1>15. Conforms("PostgreSQLClient", PostgreSQLClient)
    BY CompleteListings, FirstPageKinds, WarningKinds
       DEF PostgreSQLClient, Conforms, Complete, WithoutNext, WithoutRequest, Of
  <1>16. Conforms("SQLClient", SQLListings (+) SQLFetches (+) SQLFirewallRules)
    <2>1. Conforms("SQLClient", SQLListings)
      BY CompleteListings, FirstPageKinds
         DEF SQLListings, Conforms, Complete, WithoutNext, Of, SQLFetches,
             SQLEncryption, SQLAuditing, SQLSecurity, (+)
    <2>2. Conforms("SQLClient", SQLFetches)
      BY CompleteRequests, WarningKinds
         DEF SQLFetches, Conforms, Complete, Of, SQLEncryption, SQLAuditing,
             SQLSecurity, (+)
    <2>3. Conforms("SQLClient", SQLFirewallRules)
      BY FirstPageKinds
         DEF SQLFirewallRules, Conforms, WithoutNext, Of, SQLFetches,
             SQLEncryption, SQLAuditing, SQLSecurity, (+)
    <2> QED BY <2>1, <2>2, <2>3, MergeConforms
  <1>17. Conforms("Ddos", Ddos)
    BY CompleteListings DEF Ddos, Conforms, Complete, Of
  <1>18. Conforms("J1DnsManagementClient", J1DnsManagementClient)
    BY CompleteListings DEF J1DnsManagementClient, Conforms, Complete, Of
  <1>19. Conforms("J1PrivateDnsManagementClient", J1PrivateDnsManagementClient)
    BY CompleteListings DEF J1PrivateDnsManagementClient, Conforms, Complete, Of
  <1>20. Conforms("EventGridClient", EventGridDomains (+) EventGridTopics)
    <2>1. Conforms("EventGridClient", EventGridDomains)
      BY CallsOfParts, FirstPageKinds
         DEF EventGridDomains, Conforms, FailsAtNextLink, Of
    <2>2. Conforms("EventGridClient", EventGridTopics)
      BY CallsOfParts, FirstPageKinds
         DEF EventGridTopics, Conforms, FailsAtNextLink, Of
    <2> QED BY <2>1, <2>2, MergeConforms
  <1>21. Conforms("EventHubClient", EventHubClient)
    BY BothStatuses, CallsOfClients, RequestKinds DEF EventHubClient, Conforms, WithoutRequest, Of
  <1>22. Conforms("ExpressRouteClient", ExpressRouteClient)
    BY BothStatuses, CompleteListings, FirstPageKinds
       DEF ExpressRouteClient, Conforms, Complete, FirstPageOnly, WithoutRequest, Of
  <1>23. Conforms("FrontDoorClient", FrontDoors (+) FrontDoorPolicies)
    <2>1. Conforms("FrontDoorClient", FrontDoors)
      BY CompleteListings DEF FrontDoors, Conforms, Complete, Of
    <2>2. Conforms("FrontDoorClient", FrontDoorPolicies)
      BY CompleteListings DEF FrontDoorPolicies, Conforms, Complete, Of
    <2> QED BY <2>1, <2>2, MergeConforms
  <1>24. Conforms("KeyVaultClient", KeyVaultClient)
    <2>1. LET method == [Listing EXCEPT !.unguarded = "resource"]
          IN  ReadsEveryPage(method) /\ ServesPagesOnce(method) /\ KeepsErrors(method)
      BY DEF Listing, Request, ReadsEveryPage, ServesPagesOnce, KeepsErrors
    <2> QED BY BothStatuses, CallsOfClients, <2>1, RequestKinds
               DEF KeyVaultClient, Conforms, WithoutRequest, ForbiddenFails, Of
  <1>25. Conforms("ManagementGroupClient", ManagementGroupClient)
    BY CallsOfClients, RequestKinds
       DEF ManagementGroupClient, Conforms, WithoutRequest, ForbiddenFails, Of
  <1>26. Conforms("MonitorClient", MonitorClient)
    BY CompleteListings, FirstPageKinds
       DEF MonitorClient, Conforms, Complete, FirstPageOnly, WithoutNext, Of
  <1>27. Conforms("NetworkClient", NetworkFirewalls (+) NetworkResources)
    <2>1. Conforms("NetworkClient", NetworkFirewalls)
      BY CompleteListings, FirstPageKinds
         DEF NetworkFirewalls, Conforms, Complete, FirstPageOnly, FailsAtNextLink, Of
    <2>2. Conforms("NetworkClient", NetworkResources)
      BY CompleteListings, FirstPageKinds
         DEF NetworkResources, Conforms, Complete, WithoutNext, Of
    <2> QED BY <2>1, <2>2, MergeConforms
  <1>28. Conforms("AzurePolicyClient", AzurePolicyClient)
    BY CallsOfClients, CompleteListings, RequestKinds
       DEF AzurePolicyClient, Conforms, Complete, ForbiddenFails, Of, (+)
  <1>29. Conforms("AzurePolicyInsightsClient", AzurePolicyInsightsClient)
    BY CompleteListings DEF AzurePolicyInsightsClient, Conforms, Complete, Of
  <1>30. Conforms("RedisCacheClient", RedisCacheClient)
    BY CallsOfClients, FirstPageKinds
       DEF RedisCacheClient, Conforms, FailsAtNextLink, Of
  <1>31. Conforms("ResourcesClient", ResourcesClient)
    BY FirstPageKinds, RequestKinds
       DEF ResourcesClient, Conforms, FirstPageOnly, FailsAtNextLink, WithoutRequest,
           ForbiddenFails, Of
  <1>32. Conforms("SecurityClient", SecurityClient)
    BY CompleteListings, FirstPageKinds, WarningKinds
       DEF SecurityClient, Conforms, Complete, FirstPageOnly, Of
  <1>33. Conforms("ServiceBusClient", ServiceBusClient)
    BY CompleteListings DEF ServiceBusClient, Conforms, Complete, Of
  <1>34. Conforms("createStorageAccountServiceClient",
                 StorageServiceProperties (+) StorageContents)
    <2>1. Conforms("createStorageAccountServiceClient", StorageServiceProperties)
      BY CallsOfParts, WarningKinds, StorageKinds
         DEF StorageServiceProperties, Conforms, WithoutRequest, Of
    <2>2. Conforms("createStorageAccountServiceClient", StorageContents)
      BY CallsOfParts, RequestKinds, WarningKinds, StorageKinds
         DEF StorageContents, Conforms, WithoutRequest, ForbiddenFails, Of,
             StorageServiceProperties
    <2> QED BY <2>1, <2>2, MergeConforms
  <1>35. Conforms("StorageClient",
                 StorageAccounts (+) StorageBlobsAndQueues (+) StorageTablesAndShares)
    <2>1. Conforms("StorageClient", StorageAccounts)
      BY CompleteListings DEF StorageAccounts, Conforms, Complete, Of
    <2>2. Conforms("StorageClient", StorageBlobsAndQueues)
      BY CompleteListings, StorageKinds
         DEF StorageBlobsAndQueues, Conforms, Complete, CatchClauseFails, Of
    <2>3. Conforms("StorageClient", StorageTablesAndShares)
      BY CompleteListings, StorageKinds
         DEF StorageTablesAndShares, Conforms, Complete, CatchClauseFails, Of
    <2> QED BY <2>1, <2>2, <2>3, MergeConforms
  <1>36. Conforms("J1SubscriptionClient", J1SubscriptionClient)
    <2>1. LET method == [Request EXCEPT !.next = "concat"]
          IN  ReadsEveryPage(method) /\ RetriesOutages(method) /\ KeepsErrors(method)
      BY DEF Request, ReadsEveryPage, RetriesOutages, KeepsErrors
    <2> QED BY <2>1, CompleteListings, CompleteRequests, FirstPageKinds, RequestKinds
               DEF J1SubscriptionClient, Conforms, Complete, WithoutNext, ForbiddenFails, Of
  <1>37. Conforms("SynapseClient", SynapseWorkspaces (+) SynapseDataMasking)
    <2>1. Conforms("SynapseClient", SynapseWorkspaces)
      BY BothStatuses, CallsOfParts, RequestKinds
         DEF SynapseWorkspaces, Conforms, WithoutRequest, Of
    <2>2. Conforms("SynapseClient", SynapseDataMasking)
      BY BothStatuses, CallsOfParts, RequestKinds
         DEF SynapseDataMasking, Conforms, WithoutRequest, Of
    <2> QED BY <2>1, <2>2, MergeConforms
  <1>38. Conforms("DirectoryGraphClient", DirectoryGraphClient)
    <2>1. Conforms("DirectoryGraphClient", GraphClientFetches)
      <3>1. LET method == [GraphRequest EXCEPT !.empty = {}, !.next = "ignored"]
            IN  ServesPagesOnce(method) /\ RetriesOutages(method) /\ KeepsErrors(method)
        BY DEF GraphRequest, Request, ServesPagesOnce, RetriesOutages, KeepsErrors, Errors
      <3> QED BY <3>1, RequestKinds
              DEF GraphClientFetches, DirectoryFetches, DirectoryReports, Conforms, FirstPageOnly,
                  ForbiddenFails, Of
    <2>2. Conforms("DirectoryGraphClient", DirectoryFetches)
      BY WarningKinds DEF DirectoryFetches, Conforms, WithoutRequest, Of
    <2>3. Conforms("DirectoryGraphClient", DirectoryGroupsAndUsers)
      BY CompleteGraphListings
         DEF DirectoryGroupsAndUsers, DirectoryFetches, DirectoryReports, Conforms, Complete, Of
    <2>4. Conforms("DirectoryGraphClient", DirectoryPrincipals)
      BY CompleteGraphListings
         DEF DirectoryPrincipals, DirectoryFetches, DirectoryReports, Conforms, Complete, Of
    <2>5. Conforms("DirectoryGraphClient", DirectoryReports)
      BY CompleteGraphListings, WarningKinds DEF DirectoryReports, Conforms, Complete, Of
    <2> QED BY <2>1, <2>2, <2>3, <2>4, <2>5, MergeConforms DEF DirectoryGraphClient
  <1>39. Conforms("AccessPackageClient", AccessPackageListings (+) AccessPackageApprovers)
    <2>1. Conforms("AccessPackageClient", AccessPackageListings)
      BY CompleteGraphListings DEF AccessPackageListings, Conforms, Complete, Of
    <2>2. Conforms("AccessPackageClient", AccessPackageApprovers)
      BY CompleteGraphListings DEF AccessPackageApprovers, Conforms, Complete, Of
    <2> QED BY <2>1, <2>2, MergeConforms
  <1>40. Conforms("ConditionalAccessPolicyClient", ConditionalAccessPolicyClient)
    BY CompleteGraphListings DEF ConditionalAccessPolicyClient, Conforms, Complete, Of
  <1> QED BY <1>1, <1>2, <1>3, <1>4, <1>5, <1>6, <1>7, <1>8, <1>9, <1>10, <1>11, <1>12, <1>13,
             <1>14, <1>15, <1>16, <1>17, <1>18, <1>19, <1>20, <1>21, <1>22, <1>23, <1>24, <1>25,
             <1>26, <1>27, <1>28, <1>29, <1>30, <1>31, <1>32, <1>33, <1>34, <1>35, <1>36, <1>37,
             <1>38, <1>39, <1>40 DEF Clients
-----------------------------------------------------------------------------
(* The calls.                                                                *)

\* A call comes with what its method does, unless a property names it.
LEMMA CallsConform ==
    ASSUME call \in Calls
    PROVE  /\ call \notin FirstPageOnly \cup FailsAtNextLink => ReadsEveryPage(Method)
           /\ call \notin WithoutNext \cup Of("J1SubscriptionClient", {"fetchSubscriptions"})
                  => ServesPagesOnce(Method)
           /\ call \notin WithoutRequest => RetriesOutages(Method)
           /\ call \notin FailsAtNextLink \cup CatchClauseFails => KeepsErrors(Method)
           /\ call \notin ForbiddenFails => Reports("forbidden", Method)
           /\ call \notin ForbiddenFails \cup CodeHides403 => Reports("denied", Method)
  <1>1. PICK client \in DOMAIN Clients : call \in CallsOf(client)
    BY DEF Calls
  <1>2. PICK m \in DOMAIN Clients[client] : call = <<client, m>>
    BY <1>1 DEF CallsOf
  <1>3. Method = Clients[client][m]
    BY <1>2 DEF Method
  <1> QED BY <1>2, <1>3, ClientsConform DEF Conforms, CodeHides403, SeesDenied

\* Where a call can be: a phase before the listing is that of a method with a request or
\* check before it, and what takes one request has one page.
Begun ==
    /\ phase = "before" => Method.unguarded \in {"before", "permission"}
    /\ Method.next = "none" => pages = 1

\* The pages before the one that is asked for were handed over if nothing was warned of.
Arrived == {delivered[j] : j \in DOMAIN delivered}

AllArrive ==
    ReadsEveryPage(Method) =>
        /\ outcome = "running" /\ cause = "none" => 1 .. (page - 1) \subseteq Arrived
        /\ outcome = "complete" => 1 .. pages \subseteq Arrived

\* No error is made up on the way.
Kept == KeepsErrors(Method) => cause # "fault"

\* What was handed over comes before the page that is asked for.
InOrder ==
    ServesPagesOnce(Method) =>
        /\ \A i \in DOMAIN delivered : /\ delivered[i] \in 1 .. pages
                                       /\ i > 1 => delivered[i] > delivered[i - 1]
                                       /\ outcome = "running" => delivered[i] < page
        /\ cause # "duplicate"

\* An outage is the end of a call, and of its attempts.
Survived ==
    RetriesOutages(Method) /\ cause \in {"throttled", "dropped"} =>
        attempts = 1 /\ outcome # "running"

\* A missing permission is the end of a call, and not of its step.
Reported(status) == Reports(status, Method) /\ cause = status => outcome = "partial"

\* No step changes the call, and so none its method.
LEMMA MethodStays == ASSUME [Next]_vars PROVE UNCHANGED <<call, pages>> /\ Method' = Method
  BY DEF Next, Progress, Authenticated, TokenFailed, Answer, Retry, GiveUp, Fail, Empty, Undefined,
         AskAgain, HandOver, CallbackCaught, Delivered, CallbackThrew, NotEnabled, ListAnswered,
         UnguardedFailed, CallOver, vars, Method

\* How a request fails is one of the errors, or the client's own fault.
LEMMA AnswersAreErrors ==
    ASSUME NEW error, MayAnswer(error)
    PROVE  error \in Errors \/ (error = "fault" /\ Method.next = "unbound")
  BY DEF MayAnswer

\* The words of the causes differ.
LEMMA CausesDiffer ==
    /\ {"none", "noToken"} \cap (Errors \cup Faults) = {} /\ Errors \cap Faults = {}
    /\ {"throttled", "dropped"} \cup Status403 \subseteq Errors
  BY DEF Errors, Faults, Status403

\* A call begins with the types and in a phase of its method.
LEMMA InitCall == ASSUME Init PROVE TypeOK /\ Begun
  <1> USE PagesAssumption, AttemptsAssumption
  <1>1. pages \in 1 .. Pages /\ (Method.next = "none" => pages = 1)
    BY DEF Init
  <1>2. delivered \in Seq(0 .. Pages)
    BY DEF Init
  <1> QED BY <1>1, <1>2 DEF Init, FirstPhase, TypeOK, Begun

\* A hand-over keeps the types.
LEMMA DeliveredType ==
    ASSUME TypeOK, NEW why \in Errors \cup Faults \cup {"none", "noToken"}, Delivered(why)
    PROVE  TypeOK'
  <1> USE PagesAssumption, AttemptsAssumption
  <1>1. Served \in 0 .. Pages
    BY DEF Served, TypeOK
  <1>2. delivered' \in Seq(0 .. Pages)
    BY <1>1 DEF Delivered, TypeOK
  <1>3. CASE LastPage
    BY <1>2, <1>3 DEF Delivered, Return, TypeOK
  <1>4. CASE ~LastPage
    BY <1>2, <1>4 DEF Delivered, AskNext, LastPage, TypeOK
  <1> QED BY <1>3, <1>4

\* So does every step.
LEMMA StepsKeepType == ASSUME TypeOK, [Next]_vars PROVE TypeOK'
  <1> USE PagesAssumption, AttemptsAssumption
  <1>1. ASSUME Answer PROVE TypeOK'
    BY <1>1 DEF Answer, TypeOK
  <1>2. ASSUME Retry PROVE TypeOK'
    BY <1>2 DEF Retry, TypeOK
  <1>3. ASSUME GiveUp PROVE TypeOK'
    BY <1>3 DEF GiveUp, Fail, Faults, TypeOK
  <1>4. ASSUME Empty PROVE TypeOK'
    <2>1. PICK error \in Method.empty :
            /\ Ends(error) /\ cause' = error
            /\ delivered' = IF Method.next = "concat" THEN Append(delivered, 0) ELSE delivered
            /\ IF Method.next = "locations" /\ page < pages THEN AskNext ELSE Return(error)
            /\ UNCHANGED <<call, pages>>
      BY <1>4 DEF Empty
    <2>2. cause' \in Errors \cup Faults
      BY <2>1, AnswersAreErrors DEF Ends, Faults
    <2>3. delivered' \in Seq(0 .. Pages)
      <3>1. delivered \in Seq(0 .. Pages) /\ 0 \in 0 .. Pages
        BY DEF TypeOK
      <3>2. Append(delivered, 0) \in Seq(0 .. Pages)
        BY <3>1
      <3> QED BY <2>1, <3>1, <3>2
    <2>4. phase = "asked"
      BY <2>1 DEF Ends, MayAnswer
    <2>5. CASE Method.next = "locations" /\ page < pages
      BY <2>1, <2>2, <2>3, <2>4, <2>5 DEF AskNext, TypeOK
    <2>6. CASE ~(Method.next = "locations" /\ page < pages)
      BY <2>1, <2>2, <2>3, <2>6 DEF Return, TypeOK
    <2> QED BY <2>5, <2>6
  <1>5. ASSUME HandOver \/ CallbackCaught PROVE TypeOK'
    BY <1>5, DeliveredType DEF HandOver, CallbackCaught, Faults, TypeOK
  <1>6. ASSUME CallbackThrew PROVE TypeOK'
    BY <1>6 DEF CallbackThrew, Fail, Faults, TypeOK
  <1>7. ASSUME NotEnabled PROVE TypeOK'
    BY <1>7 DEF NotEnabled, Errors, TypeOK
  <1>8. ASSUME ListAnswered PROVE TypeOK'
    BY <1>8 DEF ListAnswered, TypeOK
  <1>9. ASSUME UnguardedFailed PROVE TypeOK'
    BY <1>9 DEF UnguardedFailed, TypeOK
  <1>10. ASSUME Authenticated \/ AskAgain PROVE TypeOK'
    BY <1>10 DEF Authenticated, FirstPhase, AskAgain, TypeOK
  <1>11. ASSUME TokenFailed PROVE TypeOK'
    BY <1>11 DEF TokenFailed, Fail, Faults, TypeOK
  <1>12. ASSUME Undefined PROVE TypeOK'
    <2>1. PICK error : MayAnswer(error) /\ cause' = error
      BY <1>12 DEF Undefined, Ends
    <2>2. cause' \in Errors \cup Faults
      BY <2>1, AnswersAreErrors DEF Faults
    <2> QED BY <1>12, <2>2 DEF Undefined, TypeOK
  <1>13. CASE UNCHANGED vars
    BY <1>13 DEF vars, TypeOK
  <1> QED BY <1>1, <1>2, <1>3, <1>4, <1>5, <1>6, <1>7, <1>8, <1>9, <1>10, <1>11, <1>12, <1>13
          DEF Next, Progress, CallOver

\* No step goes back to the time before the listing.
LEMMA StepsKeepBegun == ASSUME TypeOK, Begun, [Next]_vars PROVE Begun'
  <1>1. phase' = "before" => phase = "before" \/ phase' = FirstPhase
    BY DEF Next, Progress, Authenticated, TokenFailed, Answer, Retry, GiveUp, Fail, Empty,
           Undefined, AskAgain, HandOver, CallbackCaught, Delivered, AskNext, Return,
           CallbackThrew, NotEnabled, ListAnswered, UnguardedFailed, CallOver, vars
  <1> QED BY <1>1, MethodStays DEF Begun, FirstPhase

\* Every variable of a call has its type, and a request an attempt left.
THEOREM CallTypes == Spec => []TypeOK
  <1>1. Init => TypeOK
    BY InitCall
  <1>2. TypeOK /\ [Next]_vars => TypeOK'
    BY StepsKeepType
  <1> QED BY <1>1, <1>2, PTL DEF Spec

\* The phase of a call is always one that its method has.
LEMMA CallsBegin == Spec => []Begun
  <1>1. Init => Begun
    BY InitCall
  <1>2. TypeOK /\ Begun /\ [Next]_vars => Begun'
    BY StepsKeepBegun
  <1> QED BY <1>1, <1>2, CallTypes, PTL DEF Spec
-----------------------------------------------------------------------------
(* What arrives.                                                             *)

\* What is appended arrives, and what had arrived stays.
LEMMA AppendedArrives ==
    ASSUME TypeOK, NEW x, delivered' = Append(delivered, x)
    PROVE  Arrived' = Arrived \cup {x}
  BY DEF Arrived, TypeOK

\* A page that is handed over for the first time is the one that was asked for.
LEMMA HandedOverPage ==
    ASSUME TypeOK, AllArrive, ReadsEveryPage(Method), cause = "none", HandOver
    PROVE  Served = page
  <1>1. CASE page = 1
    BY <1>1 DEF Served
  <1>2. CASE page # 1
    <2>1. 1 \in Arrived
      BY <1>2 DEF AllArrive, HandOver, Delivered, TypeOK
    <2>2. Served # 1
      BY <2>1 DEF Arrived, HandOver
    <2> QED BY <2>2 DEF Served
  <1> QED BY <1>1, <1>2

\* A hand-over keeps that the pages before the next one arrived.
LEMMA HandOverKeepsArrival ==
    ASSUME TypeOK, Begun, AllArrive, HandOver, ReadsEveryPage(Method), Method' = Method
    PROVE  AllArrive'
  <1>1. outcome = "running" /\ cause' = cause /\ pages' = pages
    BY DEF HandOver, Delivered, AllArrive
  <1>2. CASE cause # "none"
    BY <1>1, <1>2 DEF AllArrive, HandOver, Delivered, Return, AskNext
  <1>3. CASE cause = "none"
    <2>1. delivered' = Append(delivered, page)
      BY <1>3, HandedOverPage DEF HandOver, Delivered
    <2>2. 1 .. page \subseteq Arrived'
      <3>1. 1 .. (page - 1) \subseteq Arrived
        BY <1>1, <1>3 DEF AllArrive
      <3>2. Arrived' = Arrived \cup {page}
        BY <2>1, AppendedArrives
      <3> QED BY <3>1, <3>2 DEF TypeOK
    <2>3. CASE LastPage
      <3>1. page = pages
        BY <2>3 DEF LastPage, Begun, ReadsEveryPage, TypeOK
      <3>2. outcome' = "complete"
        BY <2>3, <1>3 DEF HandOver, Delivered, Return
      <3> QED BY <1>1, <2>2, <3>1, <3>2 DEF AllArrive
    <2>4. CASE ~LastPage
      <3>1. page' = page + 1 /\ outcome' = "running"
        BY <2>4, <1>1 DEF HandOver, Delivered, AskNext
      <3> QED BY <1>1, <2>2, <3>1 DEF AllArrive, TypeOK
    <2> QED BY <2>3, <2>4
  <1> QED BY <1>2, <1>3

\* Every step keeps what has arrived.
LEMMA StepsKeepArrival ==
    ASSUME TypeOK, Begun, AllArrive, [Next]_vars
    PROVE  AllArrive'
  <1>1. UNCHANGED <<call, pages>> /\ Method' = Method
    BY MethodStays
  <1>2. SUFFICES ASSUME ReadsEveryPage(Method)
                 PROVE  AllArrive'
    BY <1>1 DEF AllArrive
  <1> USE DEF AllArrive
  <1>3. CASE Authenticated \/ ListAnswered \/ Answer \/ Retry \/ AskAgain \/ CallOver
    BY <1>1, <1>2, <1>3
       DEF Authenticated, ListAnswered, Answer, Retry, AskAgain, CallOver, vars, Arrived
  <1>4. CASE TokenFailed \/ GiveUp \/ CallbackThrew
    <2>1. PICK error \in {"noToken"} \cup Errors \cup Faults : Fail(error)
      BY <1>4 DEF TokenFailed, GiveUp, CallbackThrew, Faults
    <2> QED BY <2>1 DEF Fail
  <1>5. CASE Empty \/ Undefined
    <2>1. PICK error : MayAnswer(error) /\ cause' = error /\ outcome = "running"
      BY <1>5 DEF Empty, Undefined, Ends, MayAnswer
    <2>2. error # "none"
      BY <2>1, AnswersAreErrors, CausesDiffer DEF Faults
    <2>3. outcome' # "complete"
      BY <1>5, <2>1, <2>2 DEF Empty, Undefined, Ends, AskNext, Return
    <2> QED BY <2>1, <2>2, <2>3
  <1>6. CASE HandOver
    BY <1>1, <1>2, <1>6, HandOverKeepsArrival
  <1>7. CASE CallbackCaught
    BY <1>7 DEF CallbackCaught, Delivered, Return, AskNext
  <1>8. CASE NotEnabled
    BY <1>8 DEF NotEnabled
  <1>9. CASE UnguardedFailed
    BY <1>9 DEF UnguardedFailed
  <1>10. CASE UNCHANGED vars
    BY <1>1, <1>2, <1>10 DEF vars, Arrived
  <1> QED BY <1>3, <1>4, <1>5, <1>6, <1>7, <1>8, <1>9, <1>10 DEF Next, Progress

\* No step makes up an error.
LEMMA StepsKeepErrors ==
    ASSUME Kept, [Next]_vars
    PROVE  Kept'
  <1>1. UNCHANGED <<call, pages>> /\ Method' = Method
    BY MethodStays
  <1>2. SUFFICES ASSUME KeepsErrors(Method)
                 PROVE  cause' # "fault"
    BY <1>1 DEF Kept
  <1>3. cause # "fault"
    BY <1>2 DEF Kept
  <1>4. \A error : MayAnswer(error) => error # "fault"
    BY <1>2, AnswersAreErrors, CausesDiffer DEF KeepsErrors, Faults
  <1>5. \A error : Fail(error) => cause' = error
    BY <1>2 DEF Fail, KeepsErrors
  <1>6. CASE Authenticated \/ ListAnswered \/ Answer \/ Retry \/ AskAgain \/ CallOver
             \/ UNCHANGED vars
    BY <1>3, <1>6 DEF Authenticated, ListAnswered, Answer, Retry, AskAgain, CallOver, vars
  <1>7. CASE TokenFailed \/ CallbackThrew
    BY <1>5, <1>7 DEF TokenFailed, CallbackThrew
  <1>8. CASE GiveUp \/ Empty \/ Undefined
    BY <1>4, <1>5, <1>8 DEF GiveUp, Empty, Undefined, Ends
  <1>9. CASE HandOver \/ CallbackCaught
    BY <1>3, <1>9 DEF HandOver, CallbackCaught, Delivered
  <1>10. CASE NotEnabled
    BY <1>10 DEF NotEnabled
  <1>11. CASE UnguardedFailed
    BY <1>11, CausesDiffer DEF UnguardedFailed, Faults
  <1> QED BY <1>6, <1>7, <1>8, <1>9, <1>10, <1>11 DEF Next, Progress

\* A call that returns without a warning handed over every page there is, and none fails
\* through the client itself, but for the methods named.
THEOREM PagesArrive == Spec => []EveryPageArrives
  <1>1. Init => AllArrive /\ Kept
    BY DEF Init, AllArrive, Kept
  <1>2. TypeOK /\ Begun /\ AllArrive /\ [Next]_vars => AllArrive'
    BY StepsKeepArrival
  <1>3. Kept /\ [Next]_vars => Kept'
    BY StepsKeepErrors
  <1>4. TypeOK /\ AllArrive /\ Kept => EveryPageArrives
    BY CallsConform DEF AllArrive, Kept, EveryPageArrives, Arrived, TypeOK
  <1> QED BY <1>1, <1>2, <1>3, <1>4, CallTypes, CallsBegin, PTL DEF Spec
-----------------------------------------------------------------------------
(* In which order.                                                           *)

\* A page that is handed over comes after those before it.
LEMMA DeliveredInOrder ==
    ASSUME TypeOK, InOrder, ServesPagesOnce(Method), Method' = Method,
           NEW why, why # "duplicate", Delivered(why)
    PROVE  InOrder'
  <1>1. delivered' = Append(delivered, page) /\ pages' = pages /\ outcome = "running"
    BY DEF Delivered, Served, ServesPagesOnce
  <1>2. outcome' = "running" => page' = page + 1
    BY DEF Delivered, Return, AskNext
  <1>3. DOMAIN delivered' = 1 .. (Len(delivered) + 1)
    BY <1>1 DEF TypeOK
  <1>4. ASSUME NEW i \in DOMAIN delivered
        PROVE  delivered'[i] = delivered[i] /\ delivered[i] < page /\ delivered[i] \in 1 .. pages
    BY <1>1, <1>4 DEF TypeOK, InOrder
  <1>5. delivered'[Len(delivered) + 1] = page
    BY <1>1 DEF TypeOK
  <1>6. DOMAIN delivered = 1 .. Len(delivered) /\ Len(delivered) \in Nat
    BY DEF TypeOK
  <1>7. ASSUME NEW i \in DOMAIN delivered'
        PROVE  /\ delivered'[i] \in 1 .. pages'
               /\ i > 1 => delivered'[i] > delivered'[i - 1]
               /\ outcome' = "running" => delivered'[i] < page'
    <2>1. CASE i \in DOMAIN delivered
      <3>1. i > 1 => i - 1 \in DOMAIN delivered /\ delivered[i] > delivered[i - 1]
        BY <2>1, <1>6 DEF InOrder
      <3> QED BY <2>1, <3>1, <1>1, <1>2, <1>4 DEF TypeOK
    <2>2. CASE i = Len(delivered) + 1
      <3>1. i > 1 => i - 1 \in DOMAIN delivered
        BY <2>2, <1>6
      <3> QED BY <2>2, <3>1, <1>1, <1>2, <1>4, <1>5 DEF TypeOK
    <2> QED BY <2>1, <2>2, <1>3, <1>6
  <1>8. cause' # "duplicate"
    BY DEF Delivered
  <1> QED BY <1>7, <1>8 DEF InOrder

\* Every step keeps the order.
LEMMA StepsKeepOrder ==
    ASSUME TypeOK, InOrder, [Next]_vars
    PROVE  InOrder'
  <1>1. UNCHANGED <<call, pages>> /\ Method' = Method
    BY MethodStays
  <1>2. SUFFICES ASSUME ServesPagesOnce(Method)
                 PROVE  InOrder'
    BY <1>1 DEF InOrder
  <1>3. CASE Authenticated \/ ListAnswered \/ Answer \/ Retry \/ AskAgain \/ CallOver
             \/ UNCHANGED vars
    BY <1>1, <1>2, <1>3
       DEF Authenticated, ListAnswered, Answer, Retry, AskAgain, CallOver, vars, InOrder
  <1>4. ASSUME NEW error, error # "duplicate", outcome = "running", Fail(error)
        PROVE  InOrder'
    BY <1>1, <1>2, <1>4 DEF Fail, InOrder
  <1>5. CASE TokenFailed
    BY <1>4, <1>5 DEF TokenFailed
  <1>6. CASE GiveUp
    <2>1. PICK error : MayAnswer(error) /\ Fail(error)
      BY <1>6 DEF GiveUp, Ends
    <2>2. error # "duplicate" /\ outcome = "running"
      BY <2>1, AnswersAreErrors, CausesDiffer DEF MayAnswer, Faults
    <2> QED BY <1>4, <2>1, <2>2
  <1>7. CASE Empty \/ Undefined
    <2>1. PICK error : /\ MayAnswer(error) /\ cause' = error /\ delivered' = delivered
                       /\ (AskNext \/ UNCHANGED page)
      BY <1>2, <1>7 DEF Empty, Undefined, Return, Ends, ServesPagesOnce
    <2>2. error # "duplicate" /\ outcome = "running"
      BY <2>1, AnswersAreErrors, CausesDiffer DEF MayAnswer, Faults
    <2>3. page' \in {page, page + 1}
      BY <2>1 DEF AskNext
    <2> QED BY <1>1, <1>2, <2>1, <2>2, <2>3 DEF InOrder, TypeOK
  <1>8. CASE HandOver
    BY <1>1, <1>2, <1>8, DeliveredInOrder DEF HandOver, InOrder
  <1>9. CASE CallbackCaught
    BY <1>1, <1>2, <1>9, DeliveredInOrder DEF CallbackCaught
  <1>10. CASE CallbackThrew
    <2>1. \A i \in DOMAIN delivered : delivered[i] # Served
      BY <1>2, <1>10 DEF CallbackThrew, InOrder, Served, ServesPagesOnce, TypeOK
    <2> QED BY <1>4, <1>10, <2>1 DEF CallbackThrew
  <1>11. CASE NotEnabled
    BY <1>1, <1>2, <1>11 DEF NotEnabled, InOrder
  <1>12. CASE UnguardedFailed
    BY <1>1, <1>2, <1>12, CausesDiffer DEF UnguardedFailed, InOrder, Faults
  <1> QED BY <1>3, <1>5, <1>6, <1>7, <1>8, <1>9, <1>10, <1>11, <1>12 DEF Next, Progress

\* The pages are handed over in order, none twice, and nothing but pages is, but for the
\* methods that have no listNext and the list of the subscriptions.
THEOREM PagesComeOnce == Spec => []HandedOverOnce
  <1>1. Init => InOrder
    BY CausesDiffer DEF Init, InOrder
  <1>2. TypeOK /\ InOrder /\ [Next]_vars => InOrder'
    BY StepsKeepOrder
  <1>3. TypeOK /\ InOrder => HandedOverOnce
    BY CallsConform DEF InOrder, HandedOverOnce, TypeOK
  <1> QED BY <1>1, <1>2, <1>3, CallTypes, PTL DEF Spec
-----------------------------------------------------------------------------
(* What an error ends.                                                       *)

\* What a step does to the cause and the outcome: nothing; the end of a request fails the
\* call, or is taken for an empty answer; a page is handed over; a callback throws or there is
\* no token; an account lacks the service; a request beside the listing fails, of a method that
\* has one.
LEMMA ErrorsEnd ==
    ASSUME Begun, [Next]_vars
    PROVE  \/ UNCHANGED <<cause, outcome>>
           \/ \E error \in (Errors \cup Faults) \ Method.empty :
                Ends(error) /\ Fail(error)
           \/ /\ outcome = "running" /\ cause' \in Method.empty
              /\ outcome' \in {"running", "partial"}
           \/ /\ outcome = "running" /\ cause' \in {cause, "callback"}
              /\ outcome' \in {"running", "complete", "partial"}
           \/ CallbackThrew \/ TokenFailed
           \/ cause' = "unsupported" /\ outcome' = "partial"
           \/ /\ outcome = "running" /\ Method.unguarded \in {"before", "permission", "resource"}
              /\ outcome' = IF Method.unguarded = "permission" THEN "partial" ELSE "failed"
  <1>1. CASE Authenticated \/ ListAnswered \/ Answer \/ Retry \/ AskAgain \/ CallOver
             \/ UNCHANGED vars
    BY <1>1 DEF Authenticated, ListAnswered, Answer, Retry, AskAgain, CallOver, vars
  <1>2. CASE GiveUp
    BY <1>2 DEF GiveUp
  <1>3. CASE Empty
    <2>1. PICK error \in Method.empty :
            MayAnswer(error) /\ cause' = error /\ (AskNext \/ Return(error))
      BY <1>3 DEF Empty, Ends
    <2>2. outcome = "running" /\ error # "none"
      BY <2>1, AnswersAreErrors, CausesDiffer DEF MayAnswer, Faults
    <2>3. outcome' \in {"running", "partial"}
      BY <2>1, <2>2 DEF AskNext, Return
    <2> QED BY <2>1, <2>2, <2>3
  <1>4. CASE Undefined
    BY <1>4 DEF Undefined, Ends, MayAnswer
  <1>5. CASE HandOver \/ CallbackCaught
    BY <1>5 DEF HandOver, CallbackCaught, Delivered, AskNext, Return
  <1>6. CASE CallbackThrew \/ TokenFailed
    BY <1>6
  <1>7. CASE NotEnabled
    BY <1>7 DEF NotEnabled
  <1>8. CASE UnguardedFailed
    BY <1>8 DEF UnguardedFailed, Begun
  <1> QED BY <1>1, <1>2, <1>3, <1>4, <1>5, <1>6, <1>7, <1>8 DEF Next, Progress

\* A callback that throws or a missing token fails a call that is running, and is no error of
\* a request.
LEMMA ThrowsAreFaults ==
    ASSUME CallbackThrew \/ TokenFailed
    PROVE  outcome = "running" /\ cause' \notin Errors
  <1>1. PICK error \in {"duplicate", "callback", "noToken"} : outcome = "running" /\ Fail(error)
    BY DEF CallbackThrew, TokenFailed
  <1> QED BY <1>1, CausesDiffer DEF Fail, Faults

\* A call that is over takes no step.
LEMMA OverStaysOver ==
    ASSUME outcome # "running", [Next]_vars
    PROVE  UNCHANGED <<outcome, cause, attempts>>
  BY DEF Next, Progress, Authenticated, TokenFailed, Answer, Retry, GiveUp, Ends, MayAnswer,
         Empty, Undefined, AskAgain, HandOver, CallbackCaught, Delivered, CallbackThrew,
         NotEnabled, ListAnswered, UnguardedFailed, CallOver, vars

\* An outage ends no call that has attempts left, if its method retries after it.
LEMMA StepsKeepSurvived ==
    ASSUME Begun, Survived, [Next]_vars
    PROVE  Survived'
  <1>1. Method' = Method
    BY MethodStays
  <1>2. SUFFICES ASSUME RetriesOutages(Method), cause' \in {"throttled", "dropped"}
                 PROVE  attempts' = 1 /\ outcome' # "running"
    BY <1>1 DEF Survived
  <1>3. CASE outcome # "running"
    BY <1>2, <1>3, OverStaysOver DEF Survived
  <1>4. CASE outcome = "running"
    <2>1. cause \notin {"throttled", "dropped"}
      BY <1>2, <1>4 DEF Survived
    <2>2. Method.unguarded = "nothing" /\ cause' \notin Method.empty
      BY <1>2 DEF RetriesOutages
    <2>3. ~CallbackThrew /\ ~TokenFailed
      BY <1>2, ThrowsAreFaults, CausesDiffer
    <2>4. PICK error \in (Errors \cup Faults) \ Method.empty : Ends(error) /\ Fail(error)
      BY <1>2, <2>1, <2>2, <2>3, ErrorsEnd
    <2>5. error = cause' /\ error \in Method.retries
      BY <1>2, <2>4 DEF Fail, RetriesOutages
    <2> QED BY <2>4, <2>5 DEF Fail, Ends
  <1> QED BY <1>3, <1>4

\* A missing permission ends a call with a warning, if its method reports it.
LEMMA StepsKeepReported ==
    ASSUME NEW status \in Status403, Begun, Reported(status), [Next]_vars
    PROVE  Reported(status)'
  <1>1. Method' = Method /\ status \in Errors /\ status # "fault" /\ status # "callback"
    BY MethodStays, CausesDiffer DEF Faults
  <1>2. SUFFICES ASSUME Reports(status, Method), cause' = status
                 PROVE  outcome' = "partial"
    BY <1>1 DEF Reported
  <1>3. CASE outcome # "running"
    BY <1>2, <1>3, OverStaysOver DEF Reported
  <1>4. CASE outcome = "running"
    <2>1. cause # status
      BY <1>2, <1>4 DEF Reported
    <2>2. Method.unguarded \in {"nothing", "permission"} /\ cause' \notin Method.empty
      BY <1>2 DEF Reports
    <2>3. ~CallbackThrew /\ ~TokenFailed
      BY <1>1, <1>2, ThrowsAreFaults
    <2>4. \/ outcome' = "partial"
          \/ \E error \in (Errors \cup Faults) \ Method.empty : Ends(error) /\ Fail(error)
      BY <1>1, <1>2, <2>1, <2>2, <2>3, ErrorsEnd
    <2> QED BY <1>1, <1>2, <2>4 DEF Fail, Reports
  <1> QED BY <1>3, <1>4

\* A throttled or broken request ends no call before every attempt for it is used up, but for
\* the methods that make a request without request().
THEOREM OutagesAreOutlasted == Spec => []OutagesAreSurvived
  <1>1. Init => Survived
    BY DEF Init, Survived
  <1>2. Begun /\ Survived /\ [Next]_vars => Survived'
    BY StepsKeepSurvived
  <1>3. TypeOK /\ Survived => OutagesAreSurvived
    BY CallsConform DEF Survived, OutagesAreSurvived, TypeOK
  <1> QED BY <1>1, <1>2, <1>3, CallTypes, CallsBegin, PTL DEF Spec

\* A 403 without a code costs the resources it is for and never the step, but for the methods
\* named; one with a code does so where the answer itself is looked at or any error is caught.
THEOREM PermissionsAreReported == Spec => []ForbiddenIsReported
  <1>1. Init => Reported("forbidden") /\ Reported("denied")
    BY DEF Init, Reported
  <1>2. Begun /\ Reported("forbidden") /\ [Next]_vars => Reported("forbidden")'
    BY StepsKeepReported DEF Status403
  <1>3. Begun /\ Reported("denied") /\ [Next]_vars => Reported("denied")'
    BY StepsKeepReported DEF Status403
  <1>4. TypeOK /\ Reported("forbidden") /\ Reported("denied") => ForbiddenIsReported
    BY CallsConform DEF Reported, ForbiddenIsReported, TypeOK
  <1> QED BY <1>1, <1>2, <1>3, <1>4, CallTypes, CallsBegin, PTL DEF Spec
-----------------------------------------------------------------------------
(* Calls do not go on for ever.                                            *)

\* What a step of a call does if it does not end it: it goes on to a further page of those
\* there are, uses up an attempt, or comes closer to an answer.
Advances ==
    \/ outcome' # "running"
    \/ page' > page
    \/ page' = page /\ attempts' < attempts
    \/ /\ page' = page /\ attempts' = attempts
       /\ <<phase, phase'>> \in {<<"token", "before">>, <<"token", "asked">>,
                                <<"before", "asked">>, <<"asked", "answered">>,
                                <<"asked", "undefined">>}

\* Every step of a call ends it or advances, but for the step after an undefined for a next
\* link, which asks for the same page with all attempts; a call that is over takes no step.  As
\* there is no page beyond the last, and no request without an attempt (CallTypes), only
\* infinitely many of those answers keep a call from its end, for any number of pages and
\* attempts.
THEOREM CallsAdvance == Spec => [][outcome = "running" /\ (Advances \/ phase = "undefined")]_vars
  <1>1. ASSUME TypeOK, [Next]_vars
        PROVE  [outcome = "running" /\ (Advances \/ phase = "undefined")]_vars
    <2> SUFFICES ASSUME Progress PROVE outcome = "running" /\ (Advances \/ phase = "undefined")
      BY <1>1 DEF Next, CallOver
    <2>1. CASE Answer \/ ListAnswered
      BY <2>1 DEF Answer, ListAnswered, Advances
    <2>2. CASE Authenticated
      BY <2>2 DEF Authenticated, FirstPhase, Advances
    <2>3. CASE Retry
      BY <1>1, <2>3 DEF Retry, MayAnswer, TypeOK, Advances
    <2>4. CASE GiveUp
      BY <2>4 DEF GiveUp, Ends, MayAnswer, Fail, Advances
    <2>5. CASE Empty
      BY <1>1, <2>5 DEF Empty, Ends, MayAnswer, AskNext, Return, TypeOK, Advances
    <2>6. CASE Undefined
      BY <2>6 DEF Undefined, Ends, MayAnswer, Advances
    <2>7. CASE AskAgain
      BY <2>7 DEF AskAgain
    <2>8. CASE HandOver \/ CallbackCaught
      BY <1>1, <2>8 DEF HandOver, CallbackCaught, Delivered, AskNext, Return, TypeOK, Advances
    <2>9. CASE CallbackThrew \/ NotEnabled \/ UnguardedFailed \/ TokenFailed
      BY <2>9 DEF CallbackThrew, TokenFailed, Fail, NotEnabled, UnguardedFailed, Advances
    <2> QED BY <2>1, <2>2, <2>3, <2>4, <2>5, <2>6, <2>7, <2>8, <2>9 DEF Progress
  <1> QED BY <1>1, CallTypes, PTL DEF Spec
=============================================================================
