---------------------------- MODULE StorageSteps -----------------------------
(*****************************************************************************)
(* The steps of steps/resource-manager/storage: storage accounts, and what   *)
(* is stored in them.                                                        *)
(*****************************************************************************)
EXTENDS StepEffects

entities ==
    [STORAGE_ACCOUNT |-> "azure_storage_account",
     STORAGE_CONTAINER |-> "azure_storage_container",
     STORAGE_FILE_SHARE |-> "azure_storage_file_share",
     STORAGE_QUEUE |-> "azure_storage_queue",
     STORAGE_TABLE |-> "azure_storage_table"]

relationships ==
    [STORAGE_ACCOUNT_HAS_CONTAINER |-> <<"azure_storage_account", "HAS", "azure_storage_container">>,
     STORAGE_ACCOUNT_HAS_FILE_SHARE |-> <<"azure_storage_account", "HAS", "azure_storage_file_share">>,
     STORAGE_ACCOUNT_HAS_QUEUE |-> <<"azure_storage_account", "HAS", "azure_storage_queue">>,
     STORAGE_ACCOUNT_HAS_TABLE |-> <<"azure_storage_account", "HAS", "azure_storage_table">>,
     STORAGE_ACCOUNT_USES_KEY_VAULT |-> <<"azure_storage_account", "USES", "azure_keyvault_service">>]
-----------------------------------------------------------------------------
\* The key vaults are collected before the listing of the accounts begins.
buildKeyVaultEntityMap == Iterates({"azure_keyvault_service"})

associateStorageAccountWithKeyVault ==
    Relates({<<"azure_storage_account", "USES", "azure_keyvault_service">>})

fetchStorageAccounts ==
    Account (+) InGroup("azure_storage_account")
            (+) buildKeyVaultEntityMap (+) associateStorageAccountWithKeyVault

fetchStorageFileShares ==
    Account (+) Under("azure_storage_account", "HAS", "azure_storage_file_share")

fetchStorageContainers ==
    Account (+) Under("azure_storage_account", "HAS", "azure_storage_container")

fetchStorageQueues ==
    Account (+) Under("azure_storage_account", "HAS", "azure_storage_queue")

fetchStorageTables ==
    Account (+) Under("azure_storage_account", "HAS", "azure_storage_table")
-----------------------------------------------------------------------------
storageSteps == {
    Step("rm-storage-resources", "storage",
         {"ad-account", "rm-keyvault-vaults", "rm-resources-resource-groups"},
         fetchStorageAccounts, {entities.STORAGE_ACCOUNT},
         {GroupHas("azure_storage_account"), relationships.STORAGE_ACCOUNT_USES_KEY_VAULT}),
    Step("rm-storage-file-shares", "storage", {"ad-account", "rm-storage-resources"},
         fetchStorageFileShares, {entities.STORAGE_FILE_SHARE},
         {relationships.STORAGE_ACCOUNT_HAS_FILE_SHARE}),
    Step("rm-storage-containers", "storage", {"ad-account", "rm-storage-resources"},
         fetchStorageContainers, {entities.STORAGE_CONTAINER},
         {relationships.STORAGE_ACCOUNT_HAS_CONTAINER}),
    Step("rm-storage-queues", "storage", {"ad-account", "rm-storage-resources"},
         fetchStorageQueues, {entities.STORAGE_QUEUE},
         {relationships.STORAGE_ACCOUNT_HAS_QUEUE}),
    Step("rm-storage-tables", "storage", {"ad-account", "rm-storage-resources"},
         fetchStorageTables, {entities.STORAGE_TABLE},
         {relationships.STORAGE_ACCOUNT_HAS_TABLE})}
=============================================================================
