----------------------------- MODULE StepEffects -----------------------------
(***************************************************************************)
(* What an execution handler does to the job state, as a record of sets.    *)
(* Entities are told apart by their _type, relationships are triples        *)
(* <<type, class, type>>.  A handler is written as a sum of effects:        *)
(*                                                                         *)
(*     fetchDisks == Account (+) InGroup("azure_managed_disk")             *)
(*                                                                         *)
(* The modules of the services hold one such definition per handler and the*)
(* table of their steps; Ingestion says what an executed step does with it. *)
(***************************************************************************)

\* gets:      the keys read by getData without which the handler throws
\* reads:     the keys read by getData that have a default
\* iterates:  the types passed to iterateEntities
\* finds:     the types looked up by findEntity or hasKey
\* demands:   pairs <<type, found>>: the handler throws at an entity of the type for which
\*            it does not find one of the other; a demand of Always is made at the start
\* adds:      the types passed to addEntity
\* each:      pairs <<parent, type>>: entities of the type are added in the loop over the
\*            entities of the parent type
\* relates:   the relationships added between entities
\* needs:     pairs <<relationship, type>>: it is added only once an entity of a type
\*            named so, which is none of its ends, has been found
\* knows:     pairs <<type, key>>: which entities of the type are meant is told by the
\*            data under the key, without a look at the job state
\* maps:      the mapped relationships added: source, class and target, which is
\*            outside the job state
\* sets:      the keys written by setData
Always == ""

Nothing ==
    [gets |-> {}, reads |-> {}, iterates |-> {}, finds |-> {}, demands |-> {}, adds |-> {},
     each |-> {}, relates |-> {}, needs |-> {}, knows |-> {}, maps |-> {}, sets |-> {}]

a (+) b ==
    [gets     |-> a.gets \cup b.gets,         reads    |-> a.reads \cup b.reads,
     iterates |-> a.iterates \cup b.iterates, finds    |-> a.finds \cup b.finds,
     demands  |-> a.demands \cup b.demands,   adds     |-> a.adds \cup b.adds,
     each     |-> a.each \cup b.each,         relates  |-> a.relates \cup b.relates,
     needs    |-> a.needs \cup b.needs,       knows    |-> a.knows \cup b.knows,
     maps     |-> a.maps \cup b.maps,         sets     |-> a.sets \cup b.sets]

Gets(keys)      == [Nothing EXCEPT !.gets = keys]
Reads(keys)     == [Nothing EXCEPT !.reads = keys]
Sets(keys)      == [Nothing EXCEPT !.sets = keys]
Iterates(types) == [Nothing EXCEPT !.iterates = types]
Finds(types)    == [Nothing EXCEPT !.finds = types]
Demands(type, found) == [Nothing EXCEPT !.finds = {found}, !.demands = {<<type, found>>}]
Adds(types)     == [Nothing EXCEPT !.adds = types]
Relates(edges)  == [Nothing EXCEPT !.relates = edges]
Needs(edges, type) == [Nothing EXCEPT !.needs = edges \X {type}]
Knows(type, key) == [Nothing EXCEPT !.knows = {<<type, key>>}]
Maps(edges)     == [Nothing EXCEPT !.maps = edges]

\* getAccountEntity
Account == Gets({"azure_account"}) (+) Knows("azure_account", "azure_account")

\* Entities are added with an entity that the handler has at hand,
With(parent, type) == [Nothing EXCEPT !.each = {<<parent, type>>}]

\* or for each entity of a type, and related to it.
Each(parent, type) == Iterates({parent}) (+) With(parent, type)

Under(parent, class, type) == Each(parent, type) (+) Relates({<<parent, class, type>>})

\* Each entity of a type is related to one found by its key, or the other way round.
LinksTo(type, class, found) ==
    Iterates({type}) (+) Finds({found}) (+) Relates({<<type, class, found>>})

LinksFrom(found, class, type) ==
    Iterates({type}) (+) Finds({found}) (+) Relates({<<found, class, type>>})

\* The same for the handlers that throw IntegrationMissingKeyError when the key is missing.
MustLinkFrom(found, class, type) == LinksFrom(found, class, type) (+) Demands(type, found)

MustLinkTo(type, class, found) == LinksTo(type, class, found) (+) Demands(type, found)

\* createResourceGroupResourceRelationship
GroupHas(type) == <<"azure_resource_group", "HAS", type>>

\* A resource is added and related to the resource group found by its id.
InGroup(type) ==
    Adds({type}) (+) Finds({"azure_resource_group"}) (+) Relates({GroupHas(type)})

\* The same for a resource that is listed resource group by resource group.
InEachGroup(type) ==
    Each("azure_resource_group", type) (+) Finds({"azure_resource_group"})
        (+) Relates({GroupHas(type)})

\* createDiagnosticSettingsEntitiesAndRelationshipsForResource
Diagnostics(type) ==
    Account (+) With(type, "azure_diagnostic_setting")
            (+) Finds({"azure_storage_account"})
            (+) Relates({<<type, "HAS", "azure_diagnostic_setting">>,
                         <<"azure_diagnostic_setting", "USES", "azure_storage_account">>})

\* getDiagnosticSettingsRelationshipsForResource
DiagnosticRelationships ==
    {<<"azure_diagnostic_setting", "USES", "azure_storage_account">>,
     <<"ANY_RESOURCE", "HAS", "azure_diagnostic_setting">>}
-----------------------------------------------------------------------------
\* An entry of a steps array.
Step(id, source, dependsOn, handler, entities, relationships) ==
    [id |-> id, source |-> source, dependsOn |-> dependsOn, handler |-> handler,
     entities |-> entities, relationships |-> relationships, graph |-> ""]

\* dependencyGraphId: STEP_GRAPH 'last'
InLastGraph(step) == [step EXCEPT !.graph = "last"]

\* The source of a step that names no ingestionSourceId.
NoSource == ""
=============================================================================
