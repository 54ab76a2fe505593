--------------------------- MODULE DirectorySteps ---------------------------
(***************************************************************************)
(* The steps of src/steps/active-directory/index.ts, which ingest the      *)
(* account, domains, users, devices, groups, service principals and roles  *)
(* of one Entra ID tenant.  They run concurrently under StepScheduler and  *)
(* share the job state: entities and relationships by key, and the data    *)
(* that one step leaves for another.                                       *)
(*                                                                         *)
(* What the listings return is the directory, given by the constants.  How *)
(* a listing is performed is the matter of GraphClient: here it hands over *)
(* its items in any order, may lose some of them (an absorbed 403 or 404), *)
(* and may throw.  The directory does not change while the steps run.      *)
(*                                                                         *)
(* A definition marked FAULT is no part of the specification: it is a bug  *)
(* the definition after it could have, and shows what a property excludes. *)
(***************************************************************************)
EXTENDS StepScheduler, Integers, FiniteSets

CONSTANTS
    Users, Groups, Devices, ServicePrincipals, Roles, Domains,  \* object ids
    VerifiedDomains,    \* organization.verifiedDomains
    Others,             \* the objects that no step ingests, such as contacts
    Registered,         \* the users whose registration details are reported
    RegisteredUsers,    \* pairs <<device, user>>: device.registeredUsers
    GroupMembers,       \* pairs <<group, member>>
    RoleAssignments,    \* triples <<principal, role, scope>>: directoryScopeId
    AppRoleAssignments, \* triples <<service principal, principal, app role>>
    Losses              \* bound: how many steps lose items or throw

\* The objects that some step ingests.
Objects == Users \cup Groups \cup Devices \cup ServicePrincipals

\* The keys of the entities are the ids of the objects, of which no two are the same; the
\* account's is the id of the instance, and those of the domains have a prefix.
ASSUME KeysAssumption ==
    LET kinds == [account |-> {"account"}, user |-> Users, group |-> Groups, device |-> Devices,
                  app |-> ServicePrincipals, role |-> Roles,
                  domain |-> Domains \cup VerifiedDomains, other |-> Others]
    IN  \A k, l \in DOMAIN kinds : k # l => kinds[k] \cap kinds[l] = {}

ASSUME DirectoryAssumption ==
    /\ Registered \subseteq Users
    /\ RegisteredUsers \subseteq Devices \X Users
    /\ GroupMembers \subseteq Groups \X (Objects \cup Others)
    /\ \A a \in RoleAssignments : a[1] \in Objects /\ a[2] \in Roles
    /\ \A a \in AppRoleAssignments : a[1] \in ServicePrincipals /\ a[2] \in Objects \ Devices
    /\ Losses \in Nat

VARIABLES
    todo,               \* todo[s]: the items step s has still to handle
    entities,           \* the keys of the entities in the job state
    relationships,      \* the relationships in the job state
    addedTwice,         \* the keys and relationships that were added again
    accountData,        \* setData(ACCOUNT_ENTITY_TYPE) has been called
    accountDomains,     \* verifiedDomains of the account entity
    registrationData,   \* the users in 'userRegistrationDetailsMap', {} before
    detailsRead,        \* what fetchUsers read of registrationData when it began
    incomplete,         \* the steps that lost an item or threw
    withoutAccount      \* the steps that threw ACCOUNT_ENTITY_NOT_FOUND

store == <<entities, relationships, addedTwice>>
data  == <<accountData, accountDomains, registrationData, detailsRead>>
vars  == <<status, todo, store, data, incomplete, withoutAccount>>
-----------------------------------------------------------------------------
(* dependsOn of the steps.  DOMAINS is the step DOMAIN, a word of TLA+.     *)

TenantDependencies ==
    [ACCOUNT            |-> {},
     DOMAINS            |-> {},
     ACCOUNT_HAS_DOMAIN |-> {"DOMAINS", "ACCOUNT"}]

\* FAULT: the groups do not wait for the account.
ObjectDependenciesNoAccount ==
    [USER_REGISTRATION_DETAILS |-> {},
     USERS                     |-> {"ACCOUNT", "USER_REGISTRATION_DETAILS"},
     DEVICES                   |-> {"USERS"},
     GROUPS                    |-> {},
     SERVICE_PRINCIPALS        |-> {"ACCOUNT"},
     ROLE_DEFINITIONS          |-> {"ACCOUNT"}]

\* FAULT: the users do not wait for the registration details.
ObjectDependenciesNoDetails ==
    [ObjectDependenciesNoAccount EXCEPT !.GROUPS = {"ACCOUNT"}, !.USERS = {"ACCOUNT"}]

ObjectDependencies ==
    [USER_REGISTRATION_DETAILS |-> {},
     USERS                     |-> {"ACCOUNT", "USER_REGISTRATION_DETAILS"},
     DEVICES                   |-> {"USERS"},
     GROUPS                    |-> {"ACCOUNT"},
     SERVICE_PRINCIPALS        |-> {"ACCOUNT"},
     ROLE_DEFINITIONS          |-> {"ACCOUNT"}]

\* FAULT: the members of groups do not wait for the users.
MemberDependenciesNoUsers ==
    [GROUP_MEMBERS            |-> {"GROUPS"},
     ROLE_ASSIGNMENTS         |-> {"ROLE_DEFINITIONS", "USERS", "SERVICE_PRINCIPALS"},
     SERVICE_PRINCIPAL_ACCESS |-> {"GROUPS", "USERS", "SERVICE_PRINCIPALS"}]

MemberDependencies ==
    [GROUP_MEMBERS            |-> {"GROUPS", "USERS"},
     ROLE_ASSIGNMENTS         |-> {"ROLE_DEFINITIONS", "USERS", "SERVICE_PRINCIPALS"},
     SERVICE_PRINCIPAL_ACCESS |-> {"GROUPS", "USERS", "SERVICE_PRINCIPALS"}]

DirectoryStepIds ==
    DOMAIN TenantDependencies \cup DOMAIN ObjectDependencies \cup DOMAIN MemberDependencies

DirectoryDependsOn ==
    [s \in DirectoryStepIds |->
        CASE s \in DOMAIN TenantDependencies -> TenantDependencies[s]
          [] s \in DOMAIN ObjectDependencies -> ObjectDependencies[s]
          [] s \in DOMAIN MemberDependencies -> MemberDependencies[s]]

ASSUME StepsAssumption == Steps = DirectoryStepIds /\ DependsOn = DirectoryDependsOn
-----------------------------------------------------------------------------
Edge(from, to, toType) == [from |-> from, to |-> to, toType |-> toType]

hasKey(key) == key \in entities

\* convertGraphTypeTo_type
MemberType(member) ==
    CASE member \in Users  -> "azure_user"
      [] member \in Groups -> "azure_user_group"
      [] OTHER             -> "azure_group_member"

\* convertPrincipalTypeTo_type
PrincipalType(principal) ==
    CASE principal \in ServicePrincipals -> "azure_service_principal"
      [] principal \in Groups            -> "azure_user_group"
      [] OTHER                           -> "azure_user"

Init ==
    /\ SchedulerInit
    /\ todo = [s \in Steps |-> {}]
    /\ entities = {} /\ relationships = {} /\ addedTwice = {}
    /\ accountData = FALSE /\ accountDomains = {}
    /\ registrationData = {} /\ detailsRead = {}
    /\ incomplete = {} /\ withoutAccount = {}

\* The items a step is about to handle: what its listing returns, or for each
\* entity it iterates what the listing for that entity returns.
Items(s) ==
    CASE s = "DOMAINS"            -> Domains
      [] s = "ACCOUNT_HAS_DOMAIN" -> IF hasKey("account") THEN accountDomains ELSE {}
      [] s = "USERS"              -> Users
      [] s = "DEVICES"            -> Devices
      [] s = "GROUPS"             -> Groups
      [] s = "GROUP_MEMBERS"      -> {m \in GroupMembers : hasKey(m[1])}
      [] s = "SERVICE_PRINCIPALS" -> ServicePrincipals
      [] s = "ROLE_DEFINITIONS"   -> Roles
      [] s = "ROLE_ASSIGNMENTS"   -> RoleAssignments
      [] s = "SERVICE_PRINCIPAL_ACCESS" -> {a \in AppRoleAssignments : hasKey(a[1])}
      [] OTHER                    -> {}

\* getAccountEntity, which fetchUsers and fetchGroups begin with.
FindsAccount(s) == s \in {"USERS", "GROUPS"} => accountData

\* A step starts.  Without the account it needs it throws a fatal error; fetchUsers
\* reads the registration details once, before its listing.
Begin(s) ==
    /\ Start(s)
    /\ todo' = [todo EXCEPT ![s] = IF FindsAccount(s) THEN Items(s) ELSE {}]
    /\ withoutAccount' = withoutAccount \cup IF FindsAccount(s) THEN {} ELSE {s}
    /\ detailsRead' = IF s = "USERS" THEN registrationData ELSE detailsRead
    /\ UNCHANGED <<store, accountData, accountDomains, registrationData, incomplete>>

\* Steps that lose something are few.
MayLose(s) == Cardinality(incomplete \cup {s}) <= Losses

\* addEntity and addRelationship, which refuse what is there already.
Add(keys, edges) ==
    /\ addedTwice' = addedTwice \cup (keys \cap entities) \cup (edges \cap relationships)
    /\ entities' = entities \cup keys
    /\ relationships' = relationships \cup edges

\* fetchAccount: if the organization cannot be read, the account entity is made
\* from the instance alone.
FetchAccount ==
    /\ Settle("ACCOUNT", "done")
    /\ Add({"account"}, {})
    /\ accountData' = TRUE
    /\ \/ accountDomains' = VerifiedDomains /\ UNCHANGED incomplete
       \/ /\ MayLose("ACCOUNT")
          /\ incomplete' = incomplete \cup {"ACCOUNT"}
          /\ UNCHANGED accountDomains
    /\ UNCHANGED <<todo, registrationData, detailsRead, withoutAccount>>

\* fetchUserRegistrationDetails: the client swallows every error, and the map
\* holds what came before it.
FetchUserRegistrationDetails ==
    /\ Settle("USER_REGISTRATION_DETAILS", "done")
    /\ \/ registrationData' = Registered /\ UNCHANGED incomplete
       \/ /\ MayLose("USER_REGISTRATION_DETAILS")
          /\ registrationData' \in SUBSET Registered
          /\ incomplete' = incomplete \cup {"USER_REGISTRATION_DETAILS"}
    /\ UNCHANGED <<todo, store, accountData, accountDomains, detailsRead, withoutAccount>>

\* A running step takes the next item off its list.
Take(s, x) ==
    /\ status[s] = "running"
    /\ x \in todo[s]
    /\ todo' = [todo EXCEPT ![s] = @ \ {x}]
    /\ UNCHANGED <<status, data, incomplete, withoutAccount>>

\* The callbacks of the steps.

AddDomain(d) == Take("DOMAINS", d) /\ Add({d}, {})

\* FAULT: a verified domain is taken for an ingested one.
RelateDomainUnguarded(d) ==
    /\ Take("ACCOUNT_HAS_DOMAIN", d)
    /\ Add({}, {Edge("account", d, "azure_domain")})

RelateDomain(d) ==
    /\ Take("ACCOUNT_HAS_DOMAIN", d)
    /\ Add({}, IF hasKey(d) THEN {Edge("account", d, "azure_domain")} ELSE {})

AddUser(u) ==
    /\ Take("USERS", u)
    /\ Add({u}, {Edge("account", u, "azure_user")})

\* addEntity, then findEntity for each registered user.
AddDevice(d) ==
    /\ Take("DEVICES", d)
    /\ Add({d}, {Edge(u, d, "azure_device") : u \in {v \in Users :
                                                 <<d, v>> \in RegisteredUsers /\ hasKey(v)}})

AddGroup(g) ==
    /\ Take("GROUPS", g)
    /\ Add({g}, {Edge("account", g, "azure_user_group")})

RelateGroupMember(m) ==
    /\ Take("GROUP_MEMBERS", m)
    /\ Add({}, IF hasKey(m[2]) THEN {Edge(m[1], m[2], MemberType(m[2]))} ELSE {})

AddServicePrincipal(p) == Take("SERVICE_PRINCIPALS", p) /\ Add({p}, {})

AddRoleDefinition(r) == Take("ROLE_DEFINITIONS", r) /\ Add({r}, {})

\* The scope of the assignment is left out, and the key is not looked for.
RelateRole(a) ==
    /\ Take("ROLE_ASSIGNMENTS", a)
    /\ Add({}, IF hasKey(a[1]) /\ hasKey(a[2])
                 THEN {Edge(a[1], a[2], "azure_ad_role_definition")} ELSE {})

PrincipalEdge(a) == Edge(a[1], a[2], PrincipalType(a[2]))

\* FAULT: a principal is related for each of its app roles.
RelatePrincipalAgain(a) ==
    /\ Take("SERVICE_PRINCIPAL_ACCESS", a)
    /\ Add({}, IF hasKey(a[2]) THEN {PrincipalEdge(a)} ELSE {})

\* A principal with several app roles is related once.
RelatePrincipal(a) ==
    /\ Take("SERVICE_PRINCIPAL_ACCESS", a)
    /\ Add({}, IF hasKey(a[2]) THEN {PrincipalEdge(a)} \ relationships ELSE {})

Handle ==
    \/ \E d \in Domains : AddDomain(d)
    \/ \E d \in VerifiedDomains : RelateDomain(d)
    \/ \E u \in Users : AddUser(u)
    \/ \E d \in Devices : AddDevice(d)
    \/ \E g \in Groups : AddGroup(g)
    \/ \E m \in GroupMembers : RelateGroupMember(m)
    \/ \E p \in ServicePrincipals : AddServicePrincipal(p)
    \/ \E r \in Roles : AddRoleDefinition(r)
    \/ \E a \in RoleAssignments : RelateRole(a)
    \/ \E a \in AppRoleAssignments : RelatePrincipal(a)

\* The steps that perform their listings through iterateResources or fetchDomain.
Listing == Steps \ {"ACCOUNT", "USER_REGISTRATION_DETAILS"}

\* A listing ends early without an error, or for one of the iterated entities.
LoseItems(s) ==
    /\ status[s] = "running" /\ todo[s] # {} /\ MayLose(s)
    /\ \E lost \in (SUBSET todo[s]) \ {{}} : todo' = [todo EXCEPT ![s] = @ \ lost]
    /\ incomplete' = incomplete \cup {s}
    /\ UNCHANGED <<status, store, data, withoutAccount>>

\* A listing throws, and with it the step.
Throw(s) ==
    /\ s \in Listing /\ MayLose(s)
    /\ Settle(s, "failed")
    /\ todo' = [todo EXCEPT ![s] = {}]
    /\ incomplete' = incomplete \cup {s}
    /\ UNCHANGED <<store, data, withoutAccount>>

\* FAULT: a step does not await its listing.
FinishUnawaited(s) ==
    /\ s \in Listing
    /\ Settle(s, "done")
    /\ UNCHANGED <<todo, store, data, incomplete, withoutAccount>>

\* FAULT: a step that lost an item waits for it.
FinishComplete(s) ==
    /\ s \in Listing /\ todo[s] = {} /\ s \notin incomplete
    /\ Settle(s, "done")
    /\ UNCHANGED <<todo, store, data, incomplete, withoutAccount>>

Finish(s) ==
    /\ s \in Listing /\ todo[s] = {}
    /\ Settle(s, IF s \in withoutAccount THEN "failed" ELSE "done")
    /\ UNCHANGED <<todo, store, data, incomplete, withoutAccount>>

\* The run is over.
RunOver == AllSettled /\ UNCHANGED vars

Progress ==
    \/ FetchAccount \/ FetchUserRegistrationDetails \/ Handle
    \/ \E s \in Steps : Begin(s) \/ Finish(s)

Failure == \E s \in Steps : LoseItems(s) \/ Throw(s)

Next == Progress \/ Failure \/ RunOver

Spec == Init /\ [][Next]_vars

\* The runtime resumes a pending await when its answer is there.  No failure is
\* needed for a run to go on.
FairSpec == Spec /\ WF_vars(Progress)
-----------------------------------------------------------------------------
(* Properties.                                                             *)

Keys == {"account"} \cup Objects \cup Roles \cup Domains

TypeOK ==
    /\ StatusOK
    /\ \A s \in Steps : todo[s] # {} => status[s] = "running"
    /\ entities \subseteq Keys
    /\ accountData \in BOOLEAN
    /\ accountDomains \subseteq VerifiedDomains
    /\ registrationData \subseteq Registered
    /\ detailsRead \subseteq registrationData
    /\ incomplete \subseteq Steps /\ withoutAccount \subseteq Steps

\* A relationship never precedes, nor outlives the lack of, the entities it
\* relates: the JupiterOne graph would drop it.
NoDanglingEdge == \A r \in relationships : hasKey(r.from) /\ hasKey(r.to)

\* A principal that is assigned one role at two scopes is related to it for each of them.
RolesAtTwoScopes ==
    {Edge(a[1], a[2], "azure_ad_role_definition") :
        a \in {b \in RoleAssignments :
                  \E c \in RoleAssignments : c # b /\ c[1] = b[1] /\ c[2] = b[2]}}

\* But for those, no step adds an entity or a relationship that is there already, of its own or
\* of another step: the job state would throw, and the listing log the error and go on.
NothingAddedTwice == addedTwice \subseteq RolesAtTwoScopes

\* getAccountEntity finds the account in every order of the steps, also when the
\* organization could not be read.
AccountAvailable == withoutAccount = {}

\* The entities and the relationships that step s declares, for this directory.
EntitiesOf(s) ==
    CASE s = "ACCOUNT"            -> {"account"}
      [] s = "DOMAINS"            -> Domains
      [] s = "USERS"              -> Users
      [] s = "DEVICES"            -> Devices
      [] s = "GROUPS"             -> Groups
      [] s = "SERVICE_PRINCIPALS" -> ServicePrincipals
      [] s = "ROLE_DEFINITIONS"   -> Roles
      [] OTHER                    -> {}

RelationshipsOf(s) ==
    CASE s = "ACCOUNT_HAS_DOMAIN" ->
             {Edge("account", d, "azure_domain") : d \in VerifiedDomains \cap Domains}
      [] s = "USERS"              -> {Edge("account", u, "azure_user") : u \in Users}
      [] s = "DEVICES"            -> {Edge(x[2], x[1], "azure_device") : x \in RegisteredUsers}
      [] s = "GROUPS"             -> {Edge("account", g, "azure_user_group") : g \in Groups}
      [] s = "GROUP_MEMBERS"      ->
             {Edge(m[1], m[2], MemberType(m[2])) :
                 m \in {n \in GroupMembers : n[2] \in Users \cup Groups}}
      [] s = "ROLE_ASSIGNMENTS"   ->
             {Edge(a[1], a[2], "azure_ad_role_definition") :
                 a \in {b \in RoleAssignments : b[1] \in Users \cup ServicePrincipals}}
      [] s = "SERVICE_PRINCIPAL_ACCESS" -> {PrincipalEdge(a) : a \in AppRoleAssignments}
      [] OTHER                    -> {}

\* The relationships a step makes only if the entity at one end happens to be there: members
\* and holders of roles that the step does not wait for.
ChanceEdges ==
         {Edge(m[1], m[2], "azure_group_member") :
              m \in {n \in GroupMembers : n[2] \in Devices \cup ServicePrincipals}}
    \cup {Edge(a[1], a[2], "azure_ad_role_definition") :
              a \in {b \in RoleAssignments : b[1] \in Groups \cup Devices}}

\* The steps whose listings decide what step s finds.
LooksUp(s) ==
    CASE s = "ACCOUNT_HAS_DOMAIN" -> {"DOMAINS", "ACCOUNT"}
      [] s = "DEVICES"            -> {"USERS"}
      [] s = "GROUP_MEMBERS"      -> {"GROUPS", "USERS"}
      [] s = "ROLE_ASSIGNMENTS"   -> {"ROLE_DEFINITIONS", "USERS", "SERVICE_PRINCIPALS"}
      [] s = "SERVICE_PRINCIPAL_ACCESS" -> {"GROUPS", "USERS", "SERVICE_PRINCIPALS"}
      [] OTHER                    -> {}

Unharmed(s) == ({s} \cup LooksUp(s)) \cap incomplete = {}

\* Whatever the order of the steps and whatever the others lose, a step ends with every entity
\* and every relationship that it declares, unless it or a step it looks up entities of lost
\* something: none is missing because the entity at one of its ends was ingested too late.
\* And nothing else is related, but by chance.
EveryDeclaredEdge ==
    AllSettled =>
        /\ \A s \in Steps :
              Unharmed(s) => EntitiesOf(s) \subseteq entities /\ RelationshipsOf(s) \subseteq relationships
        /\ relationships \subseteq ChanceEdges \cup UNION {RelationshipsOf(s) : s \in Steps}

\* No user is created without the registration details that were obtained: they
\* are there before the first user is, in every order of the steps.
RegistrationNotLost ==
    \A u \in Users : hasKey(u) /\ u \in registrationData => u \in detailsRead

\* "The entity type used for members of groups which are not one of the ingested
\* directory objects": no ingested object is called azure_group_member.
GroupMemberTypeIsForOthers ==
    \A r \in relationships : r.toType = "azure_group_member" => r.to \notin Objects

\* Every run ends, whatever its steps lose.
RunEnds == <>AllSettled
=============================================================================
