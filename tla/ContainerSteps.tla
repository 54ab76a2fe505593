--------------------------- MODULE ContainerSteps ----------------------------
(*****************************************************************************)
(* The steps of containers: steps/resource-manager/container-instance,       *)
(* container-registry and container-services.                                *)
(*****************************************************************************)
EXTENDS StepEffects

-----------------------------------------------------------------------------
\* steps/resource-manager/container-instance

ContainerInstanceEntities ==
    [CONTAINER_GROUP |-> "azure_container_group",
     CONTAINER |-> "azure_container",
     CONTAINER_VOLUME |-> "azure_container_volume"]

ContainerInstanceRelationships ==
    [RESOURCE_GROUP_HAS_CONTAINER_GROUP |-> GroupHas("azure_container_group"),
     CONTAINER_GROUP_HAS_CONTAINER |-> <<"azure_container_group", "HAS", "azure_container">>,
     CONTAINER_GROUP_HAS_CONTAINER_VOLUME |-> <<"azure_container_group", "HAS", "azure_container_volume">>,
     CONTAINER_USES_CONTAINER_VOLUME |-> <<"azure_container", "USES", "azure_container_volume">>,
     CONTAINER_VOLUME_USES_STORAGE_FILE_SHARE |-> <<"azure_container_volume", "USES", "azure_storage_file_share">>]
-----------------------------------------------------------------------------
createVolumeFileShareRelationshipHandler ==
    LinksFrom("azure_container_volume", "USES", "azure_storage_file_share")

fetchContainerGroups ==
    Account (+) InEachGroup("azure_container_group")
            (+) With("azure_container_group", "azure_container_volume")
            (+) With("azure_container_group", "azure_container")
            (+) createVolumeFileShareRelationshipHandler
            (+) Relates({<<"azure_container_group", "HAS", "azure_container_volume">>,
                         <<"azure_container_group", "HAS", "azure_container">>,
                         <<"azure_container", "USES", "azure_container_volume">>})
-----------------------------------------------------------------------------
containerInstanceSteps == {
    Step("rm-container-groups", "container-instance",
         {"ad-account", "rm-resources-resource-groups", "rm-storage-file-shares",
          "rm-storage-resources"}, fetchContainerGroups,
         {ContainerInstanceEntities.CONTAINER_GROUP, ContainerInstanceEntities.CONTAINER,
          ContainerInstanceEntities.CONTAINER_VOLUME},
         {ContainerInstanceRelationships.RESOURCE_GROUP_HAS_CONTAINER_GROUP,
          ContainerInstanceRelationships.CONTAINER_GROUP_HAS_CONTAINER,
          ContainerInstanceRelationships.CONTAINER_GROUP_HAS_CONTAINER_VOLUME,
          ContainerInstanceRelationships.CONTAINER_USES_CONTAINER_VOLUME,
          ContainerInstanceRelationships.CONTAINER_VOLUME_USES_STORAGE_FILE_SHARE})}
-----------------------------------------------------------------------------
\* steps/resource-manager/container-registry

ContainerRegistryEntities ==
    [REGISTRY |-> "azure_container_registry",
     WEBHOOK |-> "azure_container_registry_webhook"]

ContainerRegistryRelationships ==
    [RESOURCE_GROUP_HAS_ZONE |-> GroupHas("azure_container_registry"),
     REGISTRY_HAS_WEBHOOK |-> <<"azure_container_registry", "HAS", "azure_container_registry_webhook">>]
-----------------------------------------------------------------------------
fetchContainerRegistries == Account (+) InGroup("azure_container_registry")

fetchContainerRegistriesDiagnosticSettings ==
    Iterates({"azure_container_registry"}) (+) Diagnostics("azure_container_registry")

fetchContainerRegistryWebhooks ==
    Account (+) Under("azure_container_registry", "HAS", "azure_container_registry_webhook")
-----------------------------------------------------------------------------
containerRegistrySteps == {
    Step("rm-container-registries", "container-registry",
         {"ad-account", "rm-resources-resource-groups"}, fetchContainerRegistries,
         {ContainerRegistryEntities.REGISTRY},
         {ContainerRegistryRelationships.RESOURCE_GROUP_HAS_ZONE}),
    Step("rm-container-registries-diagnostic-settings", "container-registry",
         {"rm-container-registries", "rm-storage-resources"},
         fetchContainerRegistriesDiagnosticSettings, {"azure_diagnostic_setting"},
         DiagnosticRelationships),
    Step("rm-container-registry-webhooks", "container-registry",
         {"ad-account", "rm-container-registries"}, fetchContainerRegistryWebhooks,
         {ContainerRegistryEntities.WEBHOOK},
         {ContainerRegistryRelationships.REGISTRY_HAS_WEBHOOK})}
-----------------------------------------------------------------------------
\* steps/resource-manager/container-services

ContainerServicesEntities ==
    [KUBERNETES_CLUSTER |-> "azure_kubernetes_cluster"]

ContainerServicesRelationships ==
    [RESOURCE_GROUP_HAS_SERVICE |-> GroupHas("azure_kubernetes_cluster")]

Entities ==
    [MAINTENANCE_CONFIGURATION |-> "azure_kube_maintenance_configuration",
     ACCESS_ROLE |-> "azure_kube_trusted_access_role",
     ROLE_BINDING |-> "azure_kube_cluster_role_binding",
     KUBERNETES_SERVICE |-> "azure_kube_service"]

Relationships ==
    [MANAGED_CLUSTER_HAS_MAINTENANCE_CONFIGURATION |-> <<"azure_kubernetes_cluster", "HAS", "azure_kube_maintenance_configuration">>,
     MANAGED_CLUSTER_CONTAINS_ROLE_BINDING |-> <<"azure_kubernetes_cluster", "CONTAINS", "azure_kube_cluster_role_binding">>,
     KUBERNETES_SERVICE_CONTAINS_ACCESS_ROLE |-> <<"azure_kube_service", "CONTAINS", "azure_kube_trusted_access_role">>,
     AZURE_SUBSCRIPTION_HAS_KUBERNETES_SERVICE |-> <<"azure_subscription", "HAS", "azure_kube_service">>,
     MANAGED_CLUSTER_IS_KUBE_CLUSTER |-> <<"azure_kube_service", "CONTAINS", "azure_kube_trusted_access_role">>,
     ACCESS_ROLE_IS_KUBE_CLUSTER_ROLE |-> <<"azure_kube_service", "CONTAINS", "azure_kube_trusted_access_role">>]

ContainerServiceMappedRelationships ==
    [TRUSTED_ACCESS_ROLE_IS_KUBERNETES_CLUSTER |-> <<"azure_kube_trusted_access_role", "IS", "kube_cluster_role">>,
     ROLE_BINDING_IS_KUBERNETES_CLUSTER_ROLE_BINDING |-> <<"azure_kube_cluster_role_binding", "IS", "kube_cluster_role_binding">>]
-----------------------------------------------------------------------------
fetchClusters == Account (+) InGroup("azure_kubernetes_cluster")

fetchMaintenanceConfigurations ==
    Account (+) Under("azure_kubernetes_cluster", "HAS", "azure_kube_maintenance_configuration")

\* A role binding listed for several clusters is added once.
fetchRoleBindings ==
    Account (+) Each("azure_kubernetes_cluster", "azure_kube_cluster_role_binding")
            (+) Finds({"azure_kube_cluster_role_binding"})
            (+) Maps({<<"azure_kube_cluster_role_binding", "IS", "kube_cluster_role_binding">>})

\* Asked for every location, whether or not the data names locations.
fetchAccessRoles ==
    Account (+) Reads({"DATA_LOCATION_NAME_MAP"}) (+) Adds({"azure_kube_trusted_access_role"})
            (+) Maps({<<"azure_kube_trusted_access_role", "IS", "kube_cluster_role">>})

kubernetesService ==
    Adds({"azure_kube_service"}) (+) Iterates({"azure_subscription"})
        (+) Relates({<<"azure_subscription", "HAS", "azure_kube_service">>})

\* The key of the service is a constant, and is not looked up.
buildKubernetesAccessRoleRelationship ==
    Iterates({"azure_kube_trusted_access_role"})
        (+) Relates({<<"azure_kube_service", "CONTAINS", "azure_kube_trusted_access_role">>})

buildKubernetesClusterRoleBindingRelationship ==
    MustLinkFrom("azure_kubernetes_cluster", "CONTAINS", "azure_kube_cluster_role_binding")
-----------------------------------------------------------------------------
containerServicesSteps == {
    Step("rm-container-services-clusters", "container-services",
         {"ad-account", "rm-resources-resource-groups"}, fetchClusters,
         {ContainerServicesEntities.KUBERNETES_CLUSTER},
         {ContainerServicesRelationships.RESOURCE_GROUP_HAS_SERVICE}),
    Step("rm-maintenance-configurations", "container-services-extras",
         {"rm-container-services-clusters", "rm-resources-resource-groups"},
         fetchMaintenanceConfigurations, {Entities.MAINTENANCE_CONFIGURATION},
         {Relationships.MANAGED_CLUSTER_HAS_MAINTENANCE_CONFIGURATION}),
    Step("rm-kubernetes-service", "container-services-extras",
         {"ad-account", "rm-container-services-clusters", "rm-subscription"}, kubernetesService,
         {Entities.KUBERNETES_SERVICE},
         {Relationships.AZURE_SUBSCRIPTION_HAS_KUBERNETES_SERVICE}),
    Step("rm-access-role", "container-services-extras",
         {"ad-account", "rm-container-services-clusters", "rm-subscription-locations"},
         fetchAccessRoles, {Entities.ACCESS_ROLE},
         {ContainerServiceMappedRelationships.TRUSTED_ACCESS_ROLE_IS_KUBERNETES_CLUSTER}),
    Step("rm-role-binding", "container-services-extras",
         {"ad-account", "rm-container-services-clusters"}, fetchRoleBindings,
         {Entities.ROLE_BINDING},
         {ContainerServiceMappedRelationships.ROLE_BINDING_IS_KUBERNETES_CLUSTER_ROLE_BINDING}),
    Step("rm-kubernetes-service-contains-access-role-relationship", "container-services-extras",
         {"rm-access-role", "rm-kubernetes-service"}, buildKubernetesAccessRoleRelationship, {},
         {Relationships.KUBERNETES_SERVICE_CONTAINS_ACCESS_ROLE}),
    Step("rm-managed-cluster-contains-role-binding", "container-services-extras",
         {"rm-container-services-clusters", "rm-role-binding"},
         buildKubernetesClusterRoleBindingRelationship, {},
         {Relationships.MANAGED_CLUSTER_CONTAINS_ROLE_BINDING})}
=============================================================================
