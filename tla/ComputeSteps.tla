---------------------------- MODULE ComputeSteps -----------------------------
(*****************************************************************************)
(* The steps of steps/resource-manager/compute: galleries and images,        *)
(* virtual machines, their disks, extensions and scale sets.                 *)
(*****************************************************************************)
EXTENDS StepEffects

entities ==
    [GALLERY |-> "azure_gallery",
     SHARED_IMAGE |-> "azure_shared_image",
     SHARED_IMAGE_VERSION |-> "azure_shared_image_version",
     VIRTUAL_MACHINE_EXTENSION |-> "azure_vm_extension",
     VIRTUAL_MACHINE_IMAGE |-> "azure_image",
     DISK |-> "azure_managed_disk",
     VIRTUAL_MACHINE |-> "azure_vm",
     VIRTUAL_MACHINE_SCALE_SET |-> "azure_vm_scale_set"]

relationships ==
    [RESOURCE_GROUP_HAS_GALLERY |-> GroupHas("azure_gallery"),
     IMAGE_GALLERY_CONTAINS_SHARED_IMAGE |-> <<"azure_gallery", "CONTAINS", "azure_shared_image">>,
     SHARED_IMAGE_HAS_VERSION |-> <<"azure_shared_image", "HAS", "azure_shared_image_version">>,
     VIRTUAL_MACHINE_USES_EXTENSION |-> <<"azure_vm", "USES", "azure_vm_extension">>,
     VIRTUAL_MACHINE_USES_IMAGE |-> <<"azure_vm", "USES", "azure_image">>,
     VIRTUAL_MACHINE_USES_SHARED_IMAGE |-> <<"azure_vm", "USES", "azure_shared_image">>,
     VIRTUAL_MACHINE_USES_SHARED_IMAGE_VERSION |-> <<"azure_vm", "USES", "azure_shared_image_version">>,
     VIRTUAL_MACHINE_GENERATED_SHARED_IMAGE_VERSION |-> <<"azure_vm", "GENERATED", "azure_shared_image_version">>,
     VIRTUAL_MACHINE_USES_UNMANAGED_DISK |-> <<"azure_vm", "USES", "azure_storage_account">>,
     VIRTUAL_MACHINE_USES_MANAGED_DISK |-> <<"azure_vm", "USES", "azure_managed_disk">>,
     VIRTUAL_MACHINE_USES_MANAGED_IDENTITY |-> <<"azure_vm", "USES", "azure_service_principal">>,
     VIRTUAL_MACHINE_USES_SCALE_SETS |-> <<"azure_vm", "USES", "azure_vm_scale_set">>,
     VM_SCALE_SETS_USES_SHARED_IMAGE_VERSION |-> <<"azure_vm_scale_set", "USES", "azure_shared_image">>,
     VM_SCALE_SETS_USES_SHARED_IMAGE |-> <<"azure_vm_scale_set", "USES", "azure_shared_image">>,
     RESOURCE_GENERATED_IMAGE_SOURCE |-> <<"ANY_RESOURCE", "GENERATED", "azure_shared_image_version">>,
     VM_USES_EXTENSIONS |-> <<"azure_vm", "USES", "azure_vm_extension">>]
-----------------------------------------------------------------------------
fetchGalleries == Account (+) InGroup("azure_gallery")

fetchGalleryImages == Account (+) Under("azure_gallery", "CONTAINS", "azure_shared_image")

fetchGalleryImageVersions ==
    Account (+) Under("azure_shared_image", "HAS", "azure_shared_image_version")

\* A source that is not in the job state is mapped.
buildGalleryImageVersionSourceRelationships ==
    LinksFrom("azure_vm", "GENERATED", "azure_shared_image_version")
        (+) Maps({<<"azure_shared_image_version", "GENERATED", "azure_image_source">>})

fetchVirtualMachines == Account (+) InGroup("azure_vm")

\* Managed disks are found by id, storage accounts by name among all of them.
\* Unmanaged disks are files of a storage account, told by the name of its host.
createVirtualMachineDiskRelationships ==
    Finds({"azure_managed_disk"})
        (+) Relates({"azure_vm"} \X {"USES"} \X {"azure_managed_disk", "azure_storage_account"})

buildVirtualMachineDiskRelationships ==
    Iterates({"azure_storage_account", "azure_vm"}) (+) createVirtualMachineDiskRelationships

fetchVirtualMachineImages == Account (+) InGroup("azure_image")

fetchVirtualMachineDisks == Account (+) InGroup("azure_managed_disk")

\* Extensions are shared by machines and created once.
findOrCreateVirtualMachineExtensionEntity ==
    Finds({"azure_vm_extension"}) (+) With("azure_vm", "azure_vm_extension")

fetchVirtualMachineExtensions ==
    Iterates({"azure_vm"}) (+) findOrCreateVirtualMachineExtensionEntity
        (+) Relates({<<"azure_vm", "USES", "azure_vm_extension">>})

buildVirtualMachineImageRelationships ==
    LinksTo("azure_vm", "USES", "azure_image")
        (+) LinksTo("azure_vm", "USES", "azure_shared_image")
        (+) LinksTo("azure_vm", "USES", "azure_shared_image_version")

buildVirtualMachineManagedIdentityRelationships ==
    Iterates({"azure_vm"}) (+) Maps({<<"azure_vm", "ASSIGNED", "azure_service_principal">>})

fetchVirtualMachineScaleSets == Account (+) InGroup("azure_vm_scale_set")

buildVMScaleSetsRelationship == LinksTo("azure_vm", "USES", "azure_vm_scale_set")

buildVMScaleSetsImageRelationship ==
    LinksTo("azure_vm_scale_set", "USES", "azure_shared_image")
        (+) LinksTo("azure_vm_scale_set", "USES", "azure_image")
-----------------------------------------------------------------------------
imageSteps == {
    Step("rm-compute-galleries", "compute", {"ad-account", "rm-resources-resource-groups"},
         fetchGalleries, {entities.GALLERY}, {relationships.RESOURCE_GROUP_HAS_GALLERY}),
    Step("rm-compute-shared-images", "compute", {"ad-account", "rm-compute-galleries"},
         fetchGalleryImages, {entities.SHARED_IMAGE},
         {relationships.IMAGE_GALLERY_CONTAINS_SHARED_IMAGE}),
    Step("rm-compute-shared-image-versions", "compute",
         {"ad-account", "rm-compute-shared-images"}, fetchGalleryImageVersions,
         {entities.SHARED_IMAGE_VERSION}, {relationships.SHARED_IMAGE_HAS_VERSION}),
    Step("rm-compute-shared-image-version-source-relationships", "compute",
         {"rm-compute-shared-image-versions", "rm-compute-virtual-machines"},
         buildGalleryImageVersionSourceRelationships, {},
         {relationships.VIRTUAL_MACHINE_GENERATED_SHARED_IMAGE_VERSION,
          relationships.RESOURCE_GENERATED_IMAGE_SOURCE}),
    Step("rm-compute-virtual-machine-images", "compute",
         {"ad-account", "rm-resources-resource-groups"}, fetchVirtualMachineImages,
         {entities.VIRTUAL_MACHINE_IMAGE}, {GroupHas("azure_image")})}

machineSteps == {
    Step("rm-compute-virutal-machine-disks", "compute",
         {"ad-account", "rm-resources-resource-groups"}, fetchVirtualMachineDisks,
         {entities.DISK}, {GroupHas("azure_managed_disk")}),
    Step("rm-compute-virtual-machines", "compute",
         {"ad-account", "rm-resources-resource-groups"}, fetchVirtualMachines,
         {entities.VIRTUAL_MACHINE}, {GroupHas("azure_vm")}),
    Step("rm-compute-virtual-machine-disk-relationships", "compute",
         {"rm-compute-virtual-machines", "rm-compute-virutal-machine-disks",
          "rm-storage-resources"}, buildVirtualMachineDiskRelationships, {},
         {relationships.VIRTUAL_MACHINE_USES_UNMANAGED_DISK,
          relationships.VIRTUAL_MACHINE_USES_MANAGED_DISK}),
    Step("rm-compute-virtual-machine-extensions", "compute",
         {"ad-account", "rm-compute-virtual-machines"}, fetchVirtualMachineExtensions,
         {entities.VIRTUAL_MACHINE_EXTENSION}, {relationships.VIRTUAL_MACHINE_USES_EXTENSION}),
    Step("rm-compute-virtual-machine-image-relationships", "compute",
         {"rm-compute-shared-image-versions", "rm-compute-shared-images",
          "rm-compute-virtual-machine-images", "rm-compute-virtual-machines"},
         buildVirtualMachineImageRelationships, {},
         {relationships.VIRTUAL_MACHINE_USES_IMAGE,
          relationships.VIRTUAL_MACHINE_USES_SHARED_IMAGE,
          relationships.VIRTUAL_MACHINE_USES_SHARED_IMAGE_VERSION}),
    Step("rm-compute-virtual-machine-managed-identity-relationships", "compute",
         {"rm-compute-virtual-machines"}, buildVirtualMachineManagedIdentityRelationships, {},
         {relationships.VIRTUAL_MACHINE_USES_MANAGED_IDENTITY}),
    Step("rm-compute-virtual-machines-scale-sets", "compute",
         {"ad-account", "rm-resources-resource-groups"}, fetchVirtualMachineScaleSets,
         {entities.VIRTUAL_MACHINE_SCALE_SET}, {GroupHas("azure_vm_scale_set")}),
    Step("rm-virtual-machines-scale-sets-relationships", "compute",
         {"rm-compute-virtual-machines", "rm-compute-virtual-machines-scale-sets"},
         buildVMScaleSetsRelationship, {}, {relationships.VIRTUAL_MACHINE_USES_SCALE_SETS}),
    Step("rm-virtual-machines-scale-sets-image-relationships", "compute",
         {"rm-compute-shared-images", "rm-compute-virtual-machine-images",
          "rm-compute-virtual-machines-scale-sets"}, buildVMScaleSetsImageRelationship, {},
         {relationships.VM_SCALE_SETS_USES_SHARED_IMAGE})}

computeSteps == imageSteps \cup machineSteps
=============================================================================
