----------------------------- MODULE MCIngestion -----------------------------
(***************************************************************************)
(* The whole table of steps, for TLC.                                       *)
(***************************************************************************)
EXTENDS StepTable, Ingestion

\* The steps that look for an entity or for data of a step they do not wait for.
KnownRaces ==
    ({"rm-skipped-subscription"} \X {s \in Steps : "azure_subscription" \in LookedFor[s]})
        \cup ({"rm-management-groups"} \X {s \in Steps : "azure_management_group" \in LookedFor[s]})
        \cup ({"rm-storage-resources"}
                  \X {"rm-network-virtual-networks", "rm-network-security-groups",
                      "rm-network-ip-addresses", "rm-network-load-balancers",
                      "rm-network-firewalls"})
        \cup {<<"ad-groups", "ad-role-assignments">>, <<"ad-devices", "ad-group-members">>,
              <<"ad-service-principals", "ad-group-members">>}

KnownUndeclared ==
    ({"ad-role-assignments"}
         \X ({"azure_user", "azure_user_group", "azure_service_principal"}
                \X {"HAS"} \X {"azure_ad_role_definition"}))
        \cup {<<"rm-azure-application-assigned-to-access-package-catalog",
                <<"azure_application", "ASSIGNED", "azure_access_packages_catalog">>>>,
              <<"rm-virtual-machines-scale-sets-image-relationships",
                <<"azure_vm_scale_set", "USES", "azure_image">>>>,
              <<"rm-azure-express-route-has-azure-express-route-circuit-relation",
                <<"azure_expressroute", "HAS", "azure_expressroute_circuit">>>>,
              <<"rm-resources-resource-has-resource-lock-relationships",
                <<"ANY_SCOPE", "HAS", "azure_resource_lock">>>>}

KnownUnchecked ==
    {<<"ad-group-members", "azure_group_member">>,
     <<"rm-network-load-balancers", "azure_nic">>,
     <<"rm-network-security-groups", "azure_nic">>,
     <<"rm-kubernetes-service-contains-access-role-relationship", "azure_kube_service">>,
     <<"ad-conditional-access-policy-assigned-azure-ad-groups-relationships",
       "azure_user_group">>,
     <<"ad-conditional-access-policy-contains-conditional-access-named-location-relationships",
       "azure_conditional_access_named_location">>}
        \cup ({"ad-conditional-access-has-conditional-access-policy-relationships",
               "ad-conditional-access-has-conditional-access-template-relationships",
               "ad-conditional-access-has-conditional-access-auth-context-relationships"}
                 \X {"azure_conditional_access_service"})

\* Every step enabled.
AllEnabled == {StepIds}

\* Step s next to step p whose entities or data it looks for.  The account, which nearly
\* every step reads, and the steps that look for any type at all would give a thousand
\* pairs more, which differ in nothing.
LooksForOwn(s, p) ==
    LET h == Handler[s]
    IN  \/ Written[p] \cap (h.iterates \cup h.finds \cup {n[2] : n \in h.needs}) # {}
        \/ (Handler[p].sets \cap ReadKeys[s]) \ {"azure_account"} # {}

Pairs == {{x[1], x[2]} : x \in {y \in Steps \X Steps : LooksForOwn(y[1], y[2])}}

PairsAndSteps == Pairs \cup {{s} : s \in Steps}

\* Every configuration, with all ingestion sources, with the default ones, without one of
\* those that can be disabled, and without all of these.
DisabledSources ==
    LET free == IngestionSources \ cannotBeDisabled
    IN  {{}, defaultsToDisabled, free} \cup {{source} : source \in free}

ConfiguredStates ==
    LET sourceOf == [s \in StepIds |-> StepOf[s].source]
    IN  {{s \in getStepStartStates(x[1]) : sourceOf[s] \notin x[2]} :
            x \in Configurations \X DisabledSources}

ConfiguredFullStates == {getStepStartStates(config) : config \in Configurations}

NoFocus == {{}}

\* A source that cannot be disabled is ingested: when the run is over, all its enabled steps
\* have run, whichever other sources are disabled (cannotBeDisabled in src/config.ts).
CannotBeDisabled ==
    Idle => \A s \in enabled : StepOf[s].source \in cannotBeDisabled => status[s] \in Settled

\* dependsOn is complete, whatever a configuration enables: a step waits for every other one
\* whose entities or data it looks for, up to the known races; it looks for the ends of its
\* relationships, up to the known exceptions; what it throws without is added, by a step that
\* it waits for, whenever that one succeeds, and so are the ends of all it relates, up to the
\* races; what it may add or relate is declared; and without a disabled source, all it depends
\* on is enabled with it.  IngestionProofs starts from this.
TableIsComplete ==
    SchedulerInit =>
        /\ \A s \in StepIds : \A p \in StepIds \ {s} : Precedes(p, s)
        /\ EndsAreKnown
        /\ LET sure == TableSure IN DemandsAreMet(sure) /\ AllIsSure(sure)
        /\ AllIsDeclared
        /\ GroupsAreClosed
-----------------------------------------------------------------------------
\* The values of the constants.  TLC keeps the value of a definition, but not of the one
\* that stands for a constant; and in a LET, its cost model does not walk the table at every
\* use of the constant.
MCSteps         == LET table == StepIds IN table
MCDependsOn     == LET table == TableDependsOn IN table
MCAncestors     == LET table == TableAncestors IN table
MCHandler       == LET table == TableHandler IN table
MCDeclared      == LET table == TableDeclared IN table
MCLastGraph     == LET table == TableLastGraph IN table
MCWildcards     == LET table == TableWildcards IN table
MCRaces         == LET table == KnownRaces IN table
MCUndeclared    == LET table == KnownUndeclared IN table
MCUnchecked     == LET table == KnownUnchecked IN table
MCAllEnabled    == LET table == AllEnabled IN table
MCStartStates   == LET table == ConfiguredStates IN table
MCFullStates    == LET table == ConfiguredFullStates IN table
MCFoci          == LET table == PairsAndSteps IN table
MCNoFocus       == LET table == NoFocus IN table
=============================================================================
