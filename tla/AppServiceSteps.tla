--------------------------- MODULE AppServiceSteps ---------------------------
(*****************************************************************************)
(* The steps of applications: steps/resource-manager/appservice,             *)
(* api-management and batch.                                                 *)
(*****************************************************************************)
EXTENDS StepEffects

-----------------------------------------------------------------------------
\* steps/resource-manager/appservice

AppServiceEntities ==
    [WEB_APP |-> "azure_web_app",
     FUNCTION_APP |-> "azure_function_app",
     APP_SERVICE_PLAN |-> "azure_app_service_plan"]

AppServiceRelationships ==
    [RESOURCE_GROUP_HAS_WEB_APP |-> GroupHas("azure_web_app"),
     RESOURCE_GROUP_HAS_FUNCTION_APP |-> GroupHas("azure_function_app"),
     RESOURCE_GROUP_HAS_APP_SERVICE_PLAN |-> GroupHas("azure_app_service_plan"),
     WEB_APP_USES_PLAN |-> <<"azure_web_app", "USES", "azure_app_service_plan">>,
     FUNCTION_APP_USES_PLAN |-> <<"azure_function_app", "USES", "azure_app_service_plan">>]
-----------------------------------------------------------------------------
\* The type of an app is told by its kind: web app unless it says otherwise.
getMetadataForApp == {"azure_web_app", "azure_function_app"}

\* Web apps and function apps come from one list; an app listed twice is added once.
fetchApps ==
    Account (+) Finds(getMetadataForApp \cup {"azure_resource_group"})
            (+) Adds(getMetadataForApp)
            (+) Relates({GroupHas(type) : type \in getMetadataForApp})

fetchAppServicePlans == Account (+) InGroup("azure_app_service_plan")

buildAppToPlanRelationships ==
    LinksTo("azure_web_app", "USES", "azure_app_service_plan")
        (+) LinksTo("azure_function_app", "USES", "azure_app_service_plan")
-----------------------------------------------------------------------------
appServiceSteps == {
    Step("rm-appservice-apps", "app-service", {"ad-account", "rm-resources-resource-groups"},
         fetchApps, {AppServiceEntities.WEB_APP, AppServiceEntities.FUNCTION_APP},
         {AppServiceRelationships.RESOURCE_GROUP_HAS_WEB_APP,
          AppServiceRelationships.RESOURCE_GROUP_HAS_FUNCTION_APP}),
    Step("rm-appservice-app-service-plans", "app-service",
         {"ad-account", "rm-resources-resource-groups"}, fetchAppServicePlans,
         {AppServiceEntities.APP_SERVICE_PLAN},
         {AppServiceRelationships.RESOURCE_GROUP_HAS_APP_SERVICE_PLAN}),
    Step("rm-appservice-app-plan-relationships", "app-service",
         {"rm-appservice-app-service-plans", "rm-appservice-apps"}, buildAppToPlanRelationships,
         {},
         {AppServiceRelationships.WEB_APP_USES_PLAN,
          AppServiceRelationships.FUNCTION_APP_USES_PLAN})}
-----------------------------------------------------------------------------
\* steps/resource-manager/api-management

ApiManagementEntities ==
    [SERVICE |-> "azure_api_management_service",
     API |-> "azure_api_management_api"]

ApiManagementRelationships ==
    [RESOURCE_GROUP_HAS_SERVICE |-> GroupHas("azure_api_management_service"),
     SERVICE_HAS_API |-> <<"azure_api_management_service", "HAS", "azure_api_management_api">>]
-----------------------------------------------------------------------------
fetchApiManagementServices == Account (+) InGroup("azure_api_management_service")

fetchDiagnosticSettingsForApiManagementServices ==
    Iterates({"azure_api_management_service"}) (+) Diagnostics("azure_api_management_service")

fetchApiManagementApis ==
    Account (+) Under("azure_api_management_service", "HAS", "azure_api_management_api")
-----------------------------------------------------------------------------
apiManagementSteps == {
    Step("rm-api-management-services", "api-management",
         {"ad-account", "rm-resources-resource-groups"}, fetchApiManagementServices,
         {ApiManagementEntities.SERVICE},
         {ApiManagementRelationships.RESOURCE_GROUP_HAS_SERVICE}),
    Step("m-api-management-services-diagnostic-settings", "api-management",
         {"rm-api-management-services", "rm-storage-resources"},
         fetchDiagnosticSettingsForApiManagementServices, {"azure_diagnostic_setting"},
         DiagnosticRelationships),
    Step("rm-api-management-apis", "api-management",
         {"ad-account", "rm-api-management-services"}, fetchApiManagementApis,
         {ApiManagementEntities.API}, {ApiManagementRelationships.SERVICE_HAS_API})}
-----------------------------------------------------------------------------
\* steps/resource-manager/batch

BatchEntities ==
    [BATCH_ACCOUNT |-> "azure_batch_account",
     BATCH_POOL |-> "azure_batch_pool",
     BATCH_APPLICATION |-> "azure_batch_application",
     BATCH_CERTIFICATE |-> "azure_batch_certificate"]

BatchAccountRelationships ==
    [RESOURCE_GROUP_HAS_BATCH_ACCOUNT |-> GroupHas("azure_batch_account"),
     BATCH_ACCOUNT_HAS_BATCH_POOL |-> <<"azure_batch_account", "HAS", "azure_batch_pool">>,
     BATCH_ACCOUNT_HAS_BATCH_APPLICATION |-> <<"azure_batch_account", "HAS", "azure_batch_application">>,
     BATCH_ACCOUNT_HAS_BATCH_CERTIFICATE |-> <<"azure_batch_account", "HAS", "azure_batch_certificate">>]
-----------------------------------------------------------------------------
fetchBatchAccounts ==
    Account (+) InEachGroup("azure_batch_account")

fetchBatchAccountsDiagnosticSettings ==
    Iterates({"azure_batch_account"}) (+) Diagnostics("azure_batch_account")

fetchBatchPools == Account (+) Under("azure_batch_account", "HAS", "azure_batch_pool")

\* Of the accounts with an auto storage only.
fetchBatchApplications ==
    Account (+) Under("azure_batch_account", "HAS", "azure_batch_application")

fetchBatchCertificates ==
    Account (+) Under("azure_batch_account", "HAS", "azure_batch_certificate")
-----------------------------------------------------------------------------
batchSteps == {
    Step("rm-batch-account", "batch", {"ad-account", "rm-resources-resource-groups"},
         fetchBatchAccounts, {BatchEntities.BATCH_ACCOUNT},
         {BatchAccountRelationships.RESOURCE_GROUP_HAS_BATCH_ACCOUNT}),
    Step("rm-batch-account-diagnostic-settings", "batch",
         {"rm-batch-account", "rm-storage-resources"}, fetchBatchAccountsDiagnosticSettings,
         {"azure_diagnostic_setting"}, DiagnosticRelationships),
    Step("rm-batch-pool", NoSource,
         {"ad-account", "rm-batch-account", "rm-resources-resource-groups"}, fetchBatchPools,
         {BatchEntities.BATCH_POOL}, {BatchAccountRelationships.BATCH_ACCOUNT_HAS_BATCH_POOL}),
    Step("rm-batch-application", NoSource,
         {"ad-account", "rm-batch-account", "rm-resources-resource-groups"},
         fetchBatchApplications, {BatchEntities.BATCH_APPLICATION},
         {BatchAccountRelationships.BATCH_ACCOUNT_HAS_BATCH_APPLICATION}),
    Step("rm-batch-certificate", NoSource,
         {"ad-account", "rm-batch-account", "rm-resources-resource-groups"},
         fetchBatchCertificates, {BatchEntities.BATCH_CERTIFICATE},
         {BatchAccountRelationships.BATCH_ACCOUNT_HAS_BATCH_CERTIFICATE})}
=============================================================================
