----------------------- MODULE NetworkProtectionSteps ------------------------
(*****************************************************************************)
(* The steps that relate networks and machines:                              *)
(* steps/resource-manager/ddos, application-security-group and               *)
(* interservice.                                                             *)
(*****************************************************************************)
EXTENDS StepEffects

-----------------------------------------------------------------------------
\* steps/resource-manager/ddos

DdosEntities ==
    [PROTECTION_PLAN |-> "azure_ddos_protection_plan"]

DdosRelationships ==
    [DDOS_PROTECTION_PLAN_ASSIGNED_PUBLIC_IP |-> <<"azure_ddos_protection_plan", "ASSIGNED", "azure_public_ip">>,
     DDOS_PROTECTION_PLAN_ASSIGNED_VNET |-> <<"azure_ddos_protection_plan", "ASSIGNED", "azure_vnet">>,
     SUBSCRIPTION_HAS_PROTECTION_PLAN |-> <<"azure_subscription", "HAS", "azure_ddos_protection_plan">>,
     RESOURCE_GROUP_HAS_PROTECTION_PLAN |-> GroupHas("azure_ddos_protection_plan")]
-----------------------------------------------------------------------------
fetchProtectionPlans ==
    Adds({"azure_ddos_protection_plan"}) (+) Iterates({"azure_subscription"})
        (+) Relates({<<"azure_subscription", "HAS", "azure_ddos_protection_plan">>})

buildProtectionPlanPublicIpRelationship ==
    MustLinkTo("azure_ddos_protection_plan", "ASSIGNED", "azure_public_ip")

buildProtectionPlanVnetRelationship ==
    MustLinkTo("azure_ddos_protection_plan", "ASSIGNED", "azure_vnet")

buildResourceGroupProtectionPlanRelationship ==
    MustLinkFrom("azure_resource_group", "HAS", "azure_ddos_protection_plan")
-----------------------------------------------------------------------------
DdosServiceSteps == {
    Step("fetch-ddos-protection_plan", "ddos", {"rm-subscription"}, fetchProtectionPlans,
         {DdosEntities.PROTECTION_PLAN}, {DdosRelationships.SUBSCRIPTION_HAS_PROTECTION_PLAN}),
    Step("build-ddos-protection-plan-public-ip-relationship", "ddos",
         {"fetch-ddos-protection_plan", "rm-network-ip-addresses"},
         buildProtectionPlanPublicIpRelationship, {},
         {DdosRelationships.DDOS_PROTECTION_PLAN_ASSIGNED_PUBLIC_IP}),
    Step("build-ddos-protection-plan-vnet-relationship", "ddos",
         {"fetch-ddos-protection_plan", "rm-network-virtual-networks"},
         buildProtectionPlanVnetRelationship, {},
         {DdosRelationships.DDOS_PROTECTION_PLAN_ASSIGNED_VNET}),
    Step("build-resource-group-protection-plan-relationship", "ddos",
         {"fetch-ddos-protection_plan", "rm-resources-resource-groups"},
         buildResourceGroupProtectionPlanRelationship, {},
         {DdosRelationships.RESOURCE_GROUP_HAS_PROTECTION_PLAN})}
-----------------------------------------------------------------------------
\* steps/resource-manager/application-security-group

ApplicationSecurityGroupEntities ==
    [AZURE_APPLICATION_SECURITY_GROUP |-> "azure_application_security_group"]

AzureApplicationSecurityGroupRelationships ==
    [AZURE_APPLICATION_SECURITY_GROUP_PROTECTS_VIRTUAL_MACHINE |-> <<"azure_application_security_group", "PROTECTS", "azure_vm">>,
     AZURE_APPLICATION_SECURITY_GROUP_ALLOWS_FIREWALL_RULE_GROUP |-> <<"azure_application_security_group", "PROTECTS", "azure_network_firewall_rule_group">>]
-----------------------------------------------------------------------------
fetchApplicationSecurityGroup ==
    Each("azure_resource_group", "azure_application_security_group")

\* The groups of a machine were put in a property of its entity.
buildAzureApplicationSecurityGroupVirtualMachineRelation ==
    MustLinkFrom("azure_application_security_group", "PROTECTS", "azure_vm")
-----------------------------------------------------------------------------
applicationSecurityGroupSteps == {
    Step("rm-azure-application-security-group", "application-security-group",
         {"ad-account", "rm-resources-resource-groups"}, fetchApplicationSecurityGroup,
         {ApplicationSecurityGroupEntities.AZURE_APPLICATION_SECURITY_GROUP}, {}),
    Step("rm-azure-application-security-group-virtual-machine-relation", "application-security-group",
         {"rm-azure-application-security-group", "rm-compute-virtual-machines"},
         buildAzureApplicationSecurityGroupVirtualMachineRelation, {},
         {AzureApplicationSecurityGroupRelationships.AZURE_APPLICATION_SECURITY_GROUP_PROTECTS_VIRTUAL_MACHINE})}
-----------------------------------------------------------------------------
\* steps/resource-manager/interservice

InterserviceRelationships ==
    [VM_USES_NIC |-> <<"azure_vm", "USES", "azure_nic">>,
     VM_USES_PUBLIC_IP |-> <<"azure_vm", "USES", "azure_public_ip">>,
     SUBNET_HAS_VM |-> <<"azure_subnet", "HAS", "azure_vm">>]
-----------------------------------------------------------------------------
\* The public addresses and subnets of a machine are those of its network interfaces
\* that were found.
buildComputeNetworkRelationships ==
    LinksTo("azure_vm", "USES", "azure_nic")
        (+) LinksTo("azure_vm", "USES", "azure_public_ip")
        (+) LinksFrom("azure_subnet", "HAS", "azure_vm")
        (+) Needs({<<"azure_vm", "USES", "azure_public_ip">>,
                   <<"azure_subnet", "HAS", "azure_vm">>}, "azure_nic")
-----------------------------------------------------------------------------
interserviceSteps == {
    Step("rm-compute-network-relationships", NoSource,
         {"rm-compute-virtual-machines", "rm-network-interfaces", "rm-network-ip-addresses",
          "rm-network-virtual-networks"}, buildComputeNetworkRelationships, {},
         {InterserviceRelationships.VM_USES_NIC, InterserviceRelationships.VM_USES_PUBLIC_IP,
          InterserviceRelationships.SUBNET_HAS_VM})}
=============================================================================
