---------------------------- MODULE SynapseSteps -----------------------------
(*****************************************************************************)
(* The steps of steps/resource-manager/synapse: workspaces, SQL pools,       *)
(* masking rules and keys.                                                   *)
(*****************************************************************************)
EXTENDS StepEffects

SynapseEntities ==
    [WORKSPACE |-> "azure_synapse_workspace",
     SYNAPSE_KEYS |-> "azure_synapse_key",
     SYNAPSE_SERVICE |-> "azure_synapse",
     SYNAPSE_SQL_POOL |-> "azure_synapse_sql_pool",
     SYNAPSE_DATA_MASKING_POLICY |-> "azure_synapse_masking_policy",
     SYNAPSE_DATA_MASKING_RULE |-> "azure_synapse_masking_rule"]

SynapseRelationship ==
    [SUBSCRIPTION_HAS_SYNAPSE_SERVICE |-> <<"azure_subscription", "HAS", "azure_synapse">>,
     SYNAPSE_SERVICE_HAS_WORKSPACE |-> <<"azure_synapse", "HAS", "azure_synapse_workspace">>,
     SYNAPSE_SERVICE_KEYS |-> <<"azure_synapse", "HAS", "azure_synapse_key">>,
     SYNAPSE_SERVICE_HAS_SQL_POOL |-> <<"azure_synapse", "HAS", "azure_synapse_sql_pool">>,
     SYNAPSE_WORKSPACE_HAS_SQL_POOL |-> <<"azure_synapse_workspace", "HAS", "azure_synapse_sql_pool">>,
     SYNAPSE_SQL_POOL_ASSIGNED_DATA_MASKING_POLICY |-> <<"azure_synapse_sql_pool", "ASSIGNED", "azure_synapse_masking_policy">>,
     SYNAPSE_WORKSPACE_HAS_KEYS |-> <<"azure_synapse_workspace", "HAS", "azure_synapse_key">>,
     VALUT_SERVICE_HAS_SYNAPSE_KEY |-> <<"azure_keyvault_service", "HAS", "azure_synapse_key">>,
     SYNAPSE_SQL_POOL_HAS_DATA_MASKING_RULE |-> <<"azure_synapse_sql_pool", "HAS", "azure_synapse_masking_rule">>]
-----------------------------------------------------------------------------
fetchSynapseWorkspaces == Account (+) Adds({"azure_synapse_workspace"})

createSynapseService ==
    Adds({"azure_synapse"}) (+) Iterates({"azure_subscription"})
        (+) Relates({<<"azure_subscription", "HAS", "azure_synapse">>})

\* The service is looked up before the loop.
ServiceHas(type) ==
    LinksFrom("azure_synapse", "HAS", type) (+) Demands(Always, "azure_synapse")

buildSynapseServiceWorkspaceRelationship == ServiceHas("azure_synapse_workspace")
buildSynapseServiceSqlPoolRelationship   == ServiceHas("azure_synapse_sql_pool")
buildSynapseServiceKeysRelationship      == ServiceHas("azure_synapse_key")

OfWorkspace(type) == Account (+) Each("azure_synapse_workspace", type)

fetchSynapseSqlPool == OfWorkspace("azure_synapse_sql_pool")
fetchSynapseKeys    == OfWorkspace("azure_synapse_key")

buildSynapseWorkspaceSQLPoolRelationship ==
    MustLinkFrom("azure_synapse_workspace", "HAS", "azure_synapse_sql_pool")

buildSynapseWorkspaceKeysRelationship ==
    MustLinkFrom("azure_synapse_workspace", "HAS", "azure_synapse_key")

OfPool(type) == Account (+) Each("azure_synapse_sql_pool", type)

fetchSynapseDataMaskingPolicy == OfPool("azure_synapse_masking_policy")
fetchSynapseDataMaskingRules  == OfPool("azure_synapse_masking_rule")

buildSynapseSQLPoolDataMaskingPilicyRelationship ==
    MustLinkFrom("azure_synapse_sql_pool", "ASSIGNED", "azure_synapse_masking_policy")

buildSynapseSQLPoolDataMaskingRuleRelationship ==
    MustLinkFrom("azure_synapse_sql_pool", "HAS", "azure_synapse_masking_rule")

\* The vault's key is made from the resource group of the workspace and the name of the
\* vault in the URL of the key.
buildVaultServiceSynapseKeyRelationship ==
    MustLinkFrom("azure_keyvault_service", "HAS", "azure_synapse_key")
-----------------------------------------------------------------------------
SynapseSteps == {
    Step("fetch-synpase-workspaces", "synapse", {"ad-account"}, fetchSynapseWorkspaces,
         {SynapseEntities.WORKSPACE}, {}),
    Step("fetch-synapse-service", "synapse", {"rm-subscription"}, createSynapseService,
         {SynapseEntities.SYNAPSE_SERVICE},
         {SynapseRelationship.SUBSCRIPTION_HAS_SYNAPSE_SERVICE}),
    Step("build-synapse-service-workspace-relationship", "synapse",
         {"fetch-synapse-service", "fetch-synpase-workspaces"},
         buildSynapseServiceWorkspaceRelationship, {},
         {SynapseRelationship.SYNAPSE_SERVICE_HAS_WORKSPACE}),
    Step("fetch-synapse-sql-pools", "synapse", {"fetch-synpase-workspaces"},
         fetchSynapseSqlPool, {SynapseEntities.SYNAPSE_SQL_POOL}, {}),
    Step("build-synapse-service-sql-pool-relationship", "synapse",
         {"fetch-synapse-service", "fetch-synapse-sql-pools"},
         buildSynapseServiceSqlPoolRelationship, {},
         {SynapseRelationship.SYNAPSE_SERVICE_HAS_SQL_POOL}),
    Step("build-synapse-service-key-relationship", "synapse",
         {"fetch-synapse-keys", "fetch-synapse-service"}, buildSynapseServiceKeysRelationship,
         {}, {SynapseRelationship.SYNAPSE_SERVICE_KEYS}),
    Step("build-workspace-sql-pool-relationship", "synapse",
         {"fetch-synapse-sql-pools", "fetch-synpase-workspaces"},
         buildSynapseWorkspaceSQLPoolRelationship, {},
         {SynapseRelationship.SYNAPSE_WORKSPACE_HAS_SQL_POOL}),
    Step("build-synapse-workspace-keys-relationship", "synapse",
         {"fetch-synapse-keys", "fetch-synpase-workspaces"},
         buildSynapseWorkspaceKeysRelationship, {},
         {SynapseRelationship.SYNAPSE_WORKSPACE_HAS_KEYS}),
    Step("fetch-synapse-data-masking-policy", "synapse", {"fetch-synapse-sql-pools"},
         fetchSynapseDataMaskingPolicy, {SynapseEntities.SYNAPSE_DATA_MASKING_POLICY}, {}),
    Step("fetch-synapse-data-masking-rule", "synapse", {"fetch-synapse-sql-pools"},
         fetchSynapseDataMaskingRules, {SynapseEntities.SYNAPSE_DATA_MASKING_RULE}, {}),
    Step("build-synapse-sql-pool-data-masking-relationship", "synapse",
         {"fetch-synapse-data-masking-rule", "fetch-synapse-sql-pools"},
         buildSynapseSQLPoolDataMaskingRuleRelationship, {},
         {SynapseRelationship.SYNAPSE_SQL_POOL_HAS_DATA_MASKING_RULE}),
    Step("build-sql-pool-data-masking-policy-relationship", "synapse",
         {"fetch-synapse-data-masking-policy", "fetch-synapse-sql-pools"},
         buildSynapseSQLPoolDataMaskingPilicyRelationship, {},
         {SynapseRelationship.SYNAPSE_SQL_POOL_ASSIGNED_DATA_MASKING_POLICY}),
    Step("fetch-synapse-keys", "synapse", {"fetch-synpase-workspaces"}, fetchSynapseKeys,
         {SynapseEntities.SYNAPSE_KEYS}, {}),
    Step("build-vault-service-synapse-key-relationship", "synapse",
         {"fetch-synapse-keys", "rm-keyvault-vaults"}, buildVaultServiceSynapseKeyRelationship,
         {}, {SynapseRelationship.VALUT_SERVICE_HAS_SYNAPSE_KEY})}
=============================================================================
