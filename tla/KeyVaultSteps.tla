---------------------------- MODULE KeyVaultSteps ----------------------------
(*****************************************************************************)
(* The steps of steps/resource-manager/key-vault: vaults, their keys,        *)
(* secrets, access policies and diagnostic settings.                         *)
(*****************************************************************************)
EXTENDS StepEffects

KeyVaultEntities ==
    [KEY_VAULT |-> "azure_keyvault_service",
     KEY_VAULT_KEY |-> "azure_keyvault_key",
     KEY_VAULT_SECRET |-> "azure_keyvault_secret"]

KeyVaultRelationships ==
    [KEY_VAULT_ALLOWS_PRINCIPAL |-> <<"azure_keyvault_service", "ALLOWS", "ANY_PRINCIPAL">>,
     KEY_VAULT_CONTAINS_KEY |-> <<"azure_keyvault_service", "CONTAINS", "azure_keyvault_key">>,
     KEY_VAULT_CONTAINS_SECRET |-> <<"azure_keyvault_service", "CONTAINS", "azure_keyvault_secret">>,
     ACCOUNT_HAS_KEY_VAULT |-> <<"azure_account", "HAS", "azure_keyvault_service">>]
-----------------------------------------------------------------------------
fetchKeyVaults ==
    Account (+) InGroup("azure_keyvault_service")
            (+) Relates({<<"azure_account", "HAS", "azure_keyvault_service">>})

\* A step of its own: the storage accounts are ingested after the vaults.
buildDiagosticSettingsRelationships ==
    Iterates({"azure_keyvault_service"}) (+) Diagnostics("azure_keyvault_service")

fetchKeyVaultKeys ==
    Account (+) Under("azure_keyvault_service", "CONTAINS", "azure_keyvault_key")

buildKeyVaultAccessPolicyRelationships ==
    Iterates({"azure_keyvault_service"})
        (+) Maps({<<"azure_keyvault_service", "ALLOWS", "azure_principal">>})

fetchKeyVaultSecrets ==
    Account (+) Under("azure_keyvault_service", "CONTAINS", "azure_keyvault_secret")
-----------------------------------------------------------------------------
keyvaultSteps == {
    Step("rm-keyvault-vaults", "key-vault", {"ad-account", "rm-resources-resource-groups"},
         fetchKeyVaults, {KeyVaultEntities.KEY_VAULT},
         {KeyVaultRelationships.ACCOUNT_HAS_KEY_VAULT, GroupHas("azure_keyvault_service")}),
    Step("rm-keyvault-diagnostic-settings", "key-vault",
         {"rm-keyvault-vaults", "rm-storage-resources"}, buildDiagosticSettingsRelationships,
         {"azure_diagnostic_setting"}, DiagnosticRelationships),
    Step("rm-keyvault-principal-relationships", "key-vault", {"rm-keyvault-vaults"},
         buildKeyVaultAccessPolicyRelationships, {},
         {KeyVaultRelationships.KEY_VAULT_ALLOWS_PRINCIPAL}),
    Step("rm-keyvault-keys", "key-vault", {"rm-keyvault-vaults"}, fetchKeyVaultKeys,
         {KeyVaultEntities.KEY_VAULT_KEY}, {KeyVaultRelationships.KEY_VAULT_CONTAINS_KEY}),
    Step("rm-keyvault-secrets", "key-vault", {"rm-keyvault-vaults"}, fetchKeyVaultSecrets,
         {KeyVaultEntities.KEY_VAULT_SECRET}, {KeyVaultRelationships.KEY_VAULT_CONTAINS_SECRET})}
=============================================================================
