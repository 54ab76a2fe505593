------------------------------ MODULE DnsSteps -------------------------------
(*****************************************************************************)
(* The steps of the public and the private DNS zones:                        *)
(* steps/resource-manager/dns and private-dns.                               *)
(*****************************************************************************)
EXTENDS StepEffects

-----------------------------------------------------------------------------
\* steps/resource-manager/dns

DnsEntities ==
    [ZONE |-> "azure_dns_zone",
     RECORD_SET |-> "azure_dns_record_set"]

DnsRelationships ==
    [RESOURCE_GROUP_HAS_ZONE |-> GroupHas("azure_dns_zone"),
     ZONE_HAS_RECORD_SET |-> <<"azure_dns_zone", "HAS", "azure_dns_record_set">>]
-----------------------------------------------------------------------------
\* Nothing is fetched when Microsoft.Network is not registered.
fetchZones == Account (+) InGroup("azure_dns_zone")

fetchRecordSets == Account (+) Under("azure_dns_zone", "HAS", "azure_dns_record_set")
-----------------------------------------------------------------------------
dnsSteps == {
    Step("rm-dns-zones", "dns", {"ad-account", "rm-resources-resource-groups"}, fetchZones,
         {DnsEntities.ZONE}, {DnsRelationships.RESOURCE_GROUP_HAS_ZONE}),
    Step("rm-dns-record-sets", "dns", {"ad-account", "rm-dns-zones"}, fetchRecordSets,
         {DnsEntities.RECORD_SET}, {DnsRelationships.ZONE_HAS_RECORD_SET})}
-----------------------------------------------------------------------------
\* steps/resource-manager/private-dns

PrivateDnsEntities ==
    [ZONE |-> "azure_private_dns_zone",
     RECORD_SET |-> "azure_private_dns_record_set"]

PrivateDnsRelationships ==
    [RESOURCE_GROUP_HAS_ZONE |-> GroupHas("azure_private_dns_zone"),
     ZONE_HAS_RECORD_SET |-> <<"azure_private_dns_zone", "HAS", "azure_private_dns_record_set">>]
-----------------------------------------------------------------------------
\* Nothing is fetched when Microsoft.Network is not registered.
fetchPrivateZones == Account (+) InGroup("azure_private_dns_zone")

fetchPrivateRecordSets ==
    Account (+) Under("azure_private_dns_zone", "HAS", "azure_private_dns_record_set")
-----------------------------------------------------------------------------
privateDnsSteps == {
    Step("rm-private-dns-zones", "private-dns", {"ad-account", "rm-resources-resource-groups"},
         fetchPrivateZones, {PrivateDnsEntities.ZONE},
         {PrivateDnsRelationships.RESOURCE_GROUP_HAS_ZONE}),
    Step("rm-private-dns-record-sets", "private-dns", {"ad-account", "rm-private-dns-zones"},
         fetchPrivateRecordSets, {PrivateDnsEntities.RECORD_SET},
         {PrivateDnsRelationships.ZONE_HAS_RECORD_SET})}
=============================================================================
