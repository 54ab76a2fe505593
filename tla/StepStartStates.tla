--------------------------- MODULE StepStartStates ---------------------------
(***************************************************************************)
(* src/getStepStartStates.ts and src/config.ts: which steps of the table    *)
(* run in an instance.  The configuration of the instance enables the       *)
(* groups of steps, and its ingestion sources the steps that name them.     *)
(***************************************************************************)

getActiveDirectorySteps ==
    [executeFirstSteps |->
           {"ad-devices", "ad-groups", "ad-domain", "ad-account-domain", "ad-group-members",
            "ad-user-registration-details", "ad-users", "ad-service-principals",
            "ad-role-assignments", "ad-role-service_principal_access", "ad-role-definitions",
            "rm-skipped-subscription", "rm-access-package",
            "rm-access-package-assignment-policy", "rm-access-package-assignment",
            "rm-access-package-assignment-approver", "rm-access-package-assignment-request",
            "rm-access-package-assignment-approver-is-user",
            "rm-azure-user-create-access-package-assignment-request",
            "rm-azure-access-package-has-application",
            "rm-access-package-has-access-package-assignment-relationship",
            "rm-access-package-catalog", "rm-azure-application",
            "rm-access-package-assignment-contains-access-package-assignment-policy",
            "rm-azure-user-assigned-to-access-package",
            "rm-azure-group-assigned-to-access-package",
            "rm-azure-application-assigned-to-access-package-catalog",
            "ad-conditional-access", "ad-conditional-access-policy",
            "ad-conditional-access-template", "ad-conditional-access-auth-context",
            "ad-conditional-access-named-location",
            "ad-conditional-access-policy-assigned-azure-ad-users-relationships",
            "ad-conditional-access-policy-assigned-azure-ad-groups-relationships",
            "ad-conditional-access-has-conditional-access-policy-relationships",
            "ad-conditional-access-policy-contains-conditional-access-named-location-relationships",
            "ad-conditional-access-has-conditional-access-template-relationships",
            "ad-conditional-access-has-conditional-access-auth-context-relationships"},
     executeLastSteps |->
           {}]

getManagementGroupSteps ==
    [executeFirstSteps |->
           {"rm-management-groups"},
     executeLastSteps |->
           {}]

\* The executeFirstSteps of getResourceManagerSteps, from the key vaults to the express routes,
resourceSteps ==
    {"rm-keyvault-vaults", "rm-keyvault-keys", "rm-keyvault-secrets",
     "rm-keyvault-principal-relationships", "rm-keyvault-diagnostic-settings",
     "rm-network-virtual-networks", "rm-network-security-groups",
     "rm-network-firewall-rule-relationships",
     "rm-network-firewall-policy-relationships", "rm-network-security-group-rules",
     "rm-azure-application-security-group",
     "rm-azure-application-security-group-virtual-machine-relation",
     "rm-network-interfaces", "rm-network-ip-addresses", "rm-network-load-balancers",
     "rm-network-firewalls", "rm-network-firewall-policies", "rm-network-watchers",
     "rm-network-location-watcher-relationships", "rm-network-flow-logs",
     "rm-kubernetes-service", "rm-access-role", "rm-role-binding",
     "rm-maintenance-configurations",
     "rm-kubernetes-service-contains-access-role-relationship",
     "rm-managed-cluster-contains-role-binding", "rm-compute-virtual-machine-images",
     "rm-compute-virutal-machine-disks", "rm-compute-virtual-machines",
     "rm-network-private-endpoints", "rm-network-private-endpoint-subnet-relationships",
     "rm-network-private-endpoint-nic-relationships", "rm-compute-galleries",
     "rm-compute-shared-images", "rm-compute-shared-image-versions",
     "rm-compute-shared-image-version-source-relationships",
     "rm-compute-virtual-machine-extensions",
     "rm-compute-virtual-machine-disk-relationships",
     "rm-compute-virtual-machine-image-relationships",
     "rm-compute-virtual-machine-managed-identity-relationships",
     "rm-compute-virtual-machines-scale-sets",
     "rm-virtual-machines-scale-sets-relationships",
     "rm-virtual-machines-scale-sets-image-relationships", "rm-cosmosdb-sql-databases",
     "rm-database-mariadb-databases",
     "rm-database-mariadb-databases-diagnostic-settings", "rm-database-mysql-databases",
     "rm-database-mysql-databases-diagnostic-settings",
     "rm-database-postgresql-servers",
     "rm-database-postgresql-servers-diagnostic-settings",
     "rm-database-postgresql-databases", "rm-database-postgresql-server-firewall-rules",
     "rm-database-sql-servers", "rm-sql-server-diagnostic-settings",
     "rm-database-sql-databases", "rm-database-sql-server-firewall-rules",
     "rm-database-sql-server-active-directory-admins", "rm-storage-resources",
     "rm-storage-containers", "rm-storage-file-shares", "rm-storage-queues",
     "rm-storage-tables", "rm-compute-network-relationships",
     "rm-authorization-role-assignments",
     "rm-authorization-role-assignment-principal-relationships",
     "rm-authorization-role-definitions",
     "rm-authorization-role-assignment-definition-relationships",
     "rm-authorization-classic-administrators", "rm-resources-resource-groups",
     "rm-resources-resource-locks", "rm-subscription",
     "rm-subscription-diagnostic-settings", "rm-subscription-locations",
     "rm-subscription-usage-details", "rm-api-management-services",
     "m-api-management-services-diagnostic-settings", "rm-api-management-apis",
     "rm-container-services-clusters", "rm-dns-zones", "rm-dns-record-sets",
     "rm-private-dns-zones", "rm-private-dns-record-sets", "rm-container-registries",
     "rm-container-registries-diagnostic-settings", "rm-container-registry-webhooks",
     "rm-service-bus-namespaces", "rm-service-bus-queues", "rm-service-bus-topics",
     "rm-service-bus-subscriptions", "rm-cdn-profiles",
     "rm-cdn-profiles-diagnostic-settings", "rm-cdn-endpoints",
     "rm-cdn-endpoints-diagnostic-settings", "rm-batch-account",
     "rm-batch-account-diagnostic-settings", "rm-batch-pool", "rm-batch-application",
     "rm-batch-certificate", "rm-redis-caches", "rm-redis-firewall-rules",
     "rm-redis-linked-servers", "rm-container-groups", "rm-event-grid-domains",
     "rm-event-grid-domains-diagnostic-settings", "rm-event-grid-domain-topics",
     "rm-event-grid-topics", "rm-event-grid-topics-diagnostic-settings",
     "rm-event-grid-topic-subscriptions", "rm-event-grid-domain-topic-subscriptions",
     "rm-event-hub-namespace", "rm-azure-event-hub-key", "rm-azure-event-hub",
     "rm-azure-consumer-group", "rm-event-hub-cluster",
     "rm-event-hub-cluster-assigned-event-hub-namespace-relation",
     "rm-azure-consumer-group-has-event-hub-relation",
     "rm-azure-subscription-has-azure-event-hub",
     "rm-azure-resource-group-has-azure-event-hub-relation",
     "rm-event-hub-namespace-has-azure-event-hub-relation",
     "rm-event-hub-namespace-has-event-hub-key-relation",
     "rm-event-hub-keys-uses-azure-key-vault-relation",
     "rm-azure-event-hub-has-location-relation", "rm-azure-express-route-circuit",
     "rm-azure-application-gateway", "rm-azure-bgp-service-communities",
     "rm-azure-bgp-service-communities-has-azure-express-route-relation",
     "rm-azure-express-route", "rm-azure-express-route-circuit-connection",
     "rm-azure-express-route-circuit-has-azure-express-route-circuit-connection-relation",
     "rm-azure-express-route-circuit-has-azure-peer-express-route-connection-relation",
     "rm-azure-express-route-has-azure-application-gateway-relation",
     "rm-azure-express-route-has-azure-express-route-circuit-connection-relation",
     "rm-azure-express-route-has-azure-express-route-circuit-relation",
     "rm-azure-express-route-has-azure-peer-express-route-connection-relation",
     "rm-azure-peer-express-route-connection",
     "rm-azure-subscription-has-azure-bgp-service-communities-relation"}

\* And from the security center on.
governanceSteps ==
    {"rm-security-assessments", "rm-security-center-contacts",
     "rm-security-center-settings", "rm-security-center-auto-provisioning-settings",
     "rm-security-defender-alerts", "rm-security-center-pricing-configs",
     "rm-monitor-log-profiles", "rm-monitor-activity-log-alerts",
     "rm-policy-assignments", "rm-policy-definitions", "rm-appservice-apps",
     "rm-appservice-app-service-plans", "rm-appservice-app-plan-relationships",
     "rm-policy-states-for-subscription",
     "rm-policy-state-to-policy-assignment-relationships",
     "rm-policy-state-to-policy-definition-relationships", "fetch-synapse-service",
     "fetch-synpase-workspaces", "build-synapse-service-workspace-relationship",
     "fetch-synapse-sql-pools", "build-synapse-service-sql-pool-relationship",
     "build-workspace-sql-pool-relationship", "fetch-synapse-keys",
     "build-synapse-service-key-relationship",
     "build-synapse-workspace-keys-relationship", "fetch-synapse-data-masking-policy",
     "fetch-synapse-data-masking-rule",
     "build-sql-pool-data-masking-policy-relationship",
     "build-vault-service-synapse-key-relationship",
     "build-synapse-sql-pool-data-masking-relationship", "fetch-ddos-protection_plan",
     "build-ddos-protection-plan-public-ip-relationship",
     "build-ddos-protection-plan-vnet-relationship",
     "build-resource-group-protection-plan-relationship", "rm-fetch-frontdoors",
     "rm-fetch-frontdoor-rules-engines", "rm-fetch-frontdoor-routing-rules",
     "rm-fetch-frontdoor-backend-pools", "rm-fetch-frontdoor-frontend-endpoints"}

getResourceManagerSteps ==
    [executeFirstSteps |-> resourceSteps \cup governanceSteps,
     executeLastSteps |->
           {"rm-advisor-recommendations",
            "rm-advisor-assessment-recommendation-relationships",
            "rm-advisor-resource-recommendation-relationships",
            "rm-authorization-role-assignment-scope-relationships",
            "rm-policy-assignment-scope-relationships",
            "rm-monitor-activity-log-alert-scope-relationships",
            "rm-network-private-endpoint-resource-relationships",
            "rm-policy-state-to-resource-relationships",
            "rm-resources-resource-has-resource-lock-relationships"}]

StepsOf(group) == group.executeFirstSteps \cup group.executeLastSteps

\* getStepStartStates.  What is asked of the configuration: whether it has a subscriptionId,
\* ingestActiveDirectory, configureSubscriptionInstances; and of the service: whether the
\* subscription was read and bears the name that disables every step.
Configurations ==
    [hasSubscriptionId : BOOLEAN, ingestActiveDirectory : BOOLEAN,
     configureSubscriptionInstances : BOOLEAN, accessToAzureActiveDirectory : BOOLEAN]

disableAllSteps(config) == config.hasSubscriptionId /\ config.accessToAzureActiveDirectory

\* FAULT: the account is one of the steps of the directory.
getStepStartStatesAccountWithDirectory(config) ==
    LET stepsOf(group, wanted) ==
            IF wanted /\ ~disableAllSteps(config) THEN StepsOf(group) ELSE {}
    IN  (IF config.ingestActiveDirectory THEN {"ad-account"} ELSE {})
            \cup stepsOf(getActiveDirectorySteps, config.ingestActiveDirectory)
            \cup stepsOf(getResourceManagerSteps, config.hasSubscriptionId)
            \cup stepsOf(getManagementGroupSteps, config.configureSubscriptionInstances)

getStepStartStates(config) ==
    LET stepsOf(group, wanted) ==
            IF wanted /\ ~disableAllSteps(config) THEN StepsOf(group) ELSE {}
    IN  {"ad-account"}
            \cup stepsOf(getActiveDirectorySteps, config.ingestActiveDirectory)
            \cup stepsOf(getResourceManagerSteps, config.hasSubscriptionId)
            \cup stepsOf(getManagementGroupSteps, config.configureSubscriptionInstances)
-----------------------------------------------------------------------------
\* ingestionConfig
IngestionSources ==
        {"ad-generals", "ad-domain", "ad-groups", "ad-devices", "advisor-recommendations",
         "api-management", "application-security-group", "app-service", "authorization",
         "batch", "cdn", "compute", "container-instance", "container-registry",
         "container-services", "container-services-extras", "cosmosdb", "databases", "dns",
         "event-grid", "event-hub", "express-route", "synapse", "ddos", "frontdoor",
         "key-vault", "management-groups", "monitor", "network", "policy", "policy-insights",
         "private-dns", "redis_cache", "resources", "security", "service-bus", "storage",
         "subscriptions", "subscriptions_usage", "defender_alerts",
         "identity-governance-access-packages", "conditional-access-policy",
         "conditional-access-policy-user-relationship"}

defaultsToDisabled ==
        {"ad-domain", "ad-groups", "ad-devices", "application-security-group",
         "container-services-extras", "event-hub", "express-route", "synapse", "ddos",
         "network", "policy", "storage", "subscriptions_usage", "defender_alerts",
         "identity-governance-access-packages", "conditional-access-policy",
         "conditional-access-policy-user-relationship"}

cannotBeDisabled == {"ad-generals", "subscriptions"}
==============================================================================
