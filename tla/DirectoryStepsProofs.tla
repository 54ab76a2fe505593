------------------------ MODULE DirectoryStepsProofs ------------------------
(***************************************************************************)
(* What the steps of the directory may rely on, for every tenant, every    *)
(* schedule and every number of listings that lose items or throw.         *)
(*                                                                         *)
(* The proofs follow the values that cross from one step to another.  A    *)
(* value is there because the step that leaves it has settled (Inputs), a  *)
(* step has items to handle only if it found what it needs (Supplied), and *)
(* the edge it adds for an item then has both its ends (NoDanglingEdge).   *)
(***************************************************************************)
EXTENDS DirectorySteps, StepSchedulerProofs

\* status and todo are functions on the steps.
Shape == StatusOK /\ DOMAIN todo = Steps

\* What the settled steps have left.
Inputs ==
    /\ status["ACCOUNT"] \in Settled => accountData
    /\ accountData => hasKey("account")

\* A step with items to handle has found the entities its edges start from.
Supplied ==
    /\ \A s \in {"USERS", "GROUPS", "ACCOUNT_HAS_DOMAIN"} :
          todo[s] # {} => hasKey("account")
    /\ \A m \in todo["GROUP_MEMBERS"] : hasKey(m[1])
    /\ \A a \in todo["SERVICE_PRINCIPAL_ACCESS"] : hasKey(a[1])

\* The users are created from registration details that no longer change.
Details ==
    /\ status["USERS"] = "pending" => detailsRead = {} /\ Users \cap entities = {}
    /\ status["USERS"] # "pending" =>
          status["USER_REGISTRATION_DETAILS"] \in Settled /\ detailsRead = registrationData

Sound == Shape /\ Inputs /\ Supplied /\ NoDanglingEdge

Typed ==
    /\ TypeOK /\ Shape /\ Details
    /\ todo["ACCOUNT"] = {} /\ todo["USER_REGISTRATION_DETAILS"] = {}

\* The steps this module speaks of, and those their inputs come from.
LEMMA StepNames ==
    /\ {"ACCOUNT", "USER_REGISTRATION_DETAILS", "USERS", "GROUPS", "ACCOUNT_HAS_DOMAIN",
        "GROUP_MEMBERS", "SERVICE_PRINCIPAL_ACCESS", "DOMAINS", "DEVICES", "ROLE_DEFINITIONS",
        "ROLE_ASSIGNMENTS", "SERVICE_PRINCIPALS"} = Steps
    /\ "ACCOUNT" \in DependsOn["USERS"]
    /\ "USER_REGISTRATION_DETAILS" \in DependsOn["USERS"]
    /\ "ACCOUNT" \in DependsOn["GROUPS"]
  <1>1. DOMAIN TenantDependencies = {"ACCOUNT", "DOMAINS", "ACCOUNT_HAS_DOMAIN"}
    BY DEF TenantDependencies
  <1>2. /\ DOMAIN ObjectDependencies = {"USER_REGISTRATION_DETAILS", "USERS", "DEVICES",
                                        "GROUPS", "SERVICE_PRINCIPALS", "ROLE_DEFINITIONS"}
        /\ "ACCOUNT" \in ObjectDependencies["USERS"]
        /\ "USER_REGISTRATION_DETAILS" \in ObjectDependencies["USERS"]
        /\ "ACCOUNT" \in ObjectDependencies["GROUPS"]
    BY DEF ObjectDependencies
  <1>3. DOMAIN MemberDependencies = {"GROUP_MEMBERS", "ROLE_ASSIGNMENTS",
                                     "SERVICE_PRINCIPAL_ACCESS"}
    BY DEF MemberDependencies
  <1> QED  BY <1>1, <1>2, <1>3, StepsAssumption DEF DirectoryStepIds, DirectoryDependsOn

\* The kinds of keys, two by two.
LEMMA KeysDiffer ==
    /\ "account" \notin Users \cup Groups \cup Devices \cup ServicePrincipals \cup Roles \cup Domains
    /\ Users \cap (Groups \cup Devices \cup ServicePrincipals \cup Roles \cup Domains) = {}
    /\ Groups \cap (Devices \cup ServicePrincipals \cup Roles \cup Domains) = {}
    /\ Devices \cap (ServicePrincipals \cup Roles \cup Domains) = {}
    /\ ServicePrincipals \cap (Roles \cup Domains) = {}
    /\ Roles \cap Domains = {}
    /\ VerifiedDomains \cap Keys \subseteq Domains
    /\ Others \cap Keys = {}
  <1> DEFINE kinds == [account |-> {"account"}, user |-> Users, group |-> Groups,
                       device |-> Devices, app |-> ServicePrincipals, role |-> Roles,
                       domain |-> Domains \cup VerifiedDomains, other |-> Others]
  <1>1. \A k, l \in {"account", "user", "group", "device", "app", "role", "domain", "other"} :
           k # l => kinds[k] \cap kinds[l] = {}
    BY KeysAssumption
  <1>2. /\ kinds["account"] \cap kinds["user"] = {} /\ kinds["account"] \cap kinds["group"] = {}
        /\ kinds["account"] \cap kinds["device"] = {} /\ kinds["account"] \cap kinds["app"] = {}
        /\ kinds["account"] \cap kinds["role"] = {} /\ kinds["account"] \cap kinds["domain"] = {}
    BY <1>1
  <1>3. /\ kinds["user"] \cap kinds["group"] = {} /\ kinds["user"] \cap kinds["device"] = {}
        /\ kinds["user"] \cap kinds["app"] = {} /\ kinds["user"] \cap kinds["role"] = {}
        /\ kinds["user"] \cap kinds["domain"] = {}
    BY <1>1
  <1>4. /\ kinds["group"] \cap kinds["device"] = {} /\ kinds["group"] \cap kinds["app"] = {}
        /\ kinds["group"] \cap kinds["role"] = {} /\ kinds["group"] \cap kinds["domain"] = {}
    BY <1>1
  <1>5. /\ kinds["device"] \cap kinds["app"] = {} /\ kinds["device"] \cap kinds["role"] = {}
        /\ kinds["device"] \cap kinds["domain"] = {} /\ kinds["app"] \cap kinds["role"] = {}
        /\ kinds["app"] \cap kinds["domain"] = {} /\ kinds["role"] \cap kinds["domain"] = {}
    BY <1>1
  <1>6. /\ kinds["account"] \cap kinds["other"] = {} /\ kinds["user"] \cap kinds["other"] = {}
        /\ kinds["group"] \cap kinds["other"] = {} /\ kinds["device"] \cap kinds["other"] = {}
        /\ kinds["app"] \cap kinds["other"] = {} /\ kinds["role"] \cap kinds["other"] = {}
        /\ kinds["domain"] \cap kinds["other"] = {}
    BY <1>1
  <1> QED  BY <1>2, <1>3, <1>4, <1>5, <1>6 DEF Keys, Objects

-----------------------------------------------------------------------------
(* NoDanglingEdge and AccountAvailable.                                    *)

\* A callback that only adds edges with both ends keeps the state sound.
LEMMA CallbackKeepsSound ==
    ASSUME Sound, NEW s \in Steps, NEW x, NEW keys, NEW edges,
           Take(s, x), Add(keys, edges),
           \A e \in edges : e.from \in entities \cup keys /\ e.to \in entities \cup keys
    PROVE  Sound'
  <1>1. Shape' /\ Inputs'
    BY DEF Sound, Shape, Inputs, Take, Add, StatusOK, hasKey, data
  <1>2. \A t \in Steps : todo'[t] \subseteq todo[t]
    BY DEF Sound, Shape, Take
  <1>3. Supplied'
    BY <1>2, StepNames DEF Sound, Supplied, Add, hasKey
  <1>4. NoDanglingEdge'
    BY DEF Sound, NoDanglingEdge, Add, hasKey
  <1> QED  BY <1>1, <1>3, <1>4 DEF Sound

\* Every callback does.
LEMMA HandleKeepsSound ==
    ASSUME Sound, Handle
    PROVE  Sound'
  <1> USE CallbackKeepsSound, StepNames
  <1>1. CASE \E d \in Domains : AddDomain(d)
    BY <1>1 DEF AddDomain
  <1>2. ASSUME NEW d \in VerifiedDomains, RelateDomain(d)  PROVE Sound'
    <2>1. hasKey("account")
      BY <1>2 DEF Sound, Supplied, RelateDomain, Take
    <2> QED  BY <1>2, <2>1 DEF RelateDomain, Edge, hasKey
  <1>3. ASSUME NEW u \in Users, AddUser(u)  PROVE Sound'
    <2>1. hasKey("account")
      BY <1>3 DEF Sound, Supplied, AddUser, Take
    <2> QED  BY <1>3, <2>1 DEF AddUser, Edge, hasKey
  <1>4. ASSUME NEW d \in Devices, AddDevice(d)  PROVE Sound'
    <2> DEFINE edges == {Edge(u, d, "azure_device") : u \in {v \in Users :
                                             <<d, v>> \in RegisteredUsers /\ hasKey(v)}}
    <2>1. \A e \in edges : e.from \in entities \cup {d} /\ e.to \in entities \cup {d}
      <3> SUFFICES ASSUME NEW u \in Users, hasKey(u)
                   PROVE  LET e == Edge(u, d, "azure_device")
                          IN  e.from \in entities \cup {d} /\ e.to \in entities \cup {d}
        OBVIOUS
      <3> QED  BY DEF Edge, hasKey
    <2>2. Take("DEVICES", d) /\ Add({d}, edges)
      BY <1>4 DEF AddDevice
    <2> HIDE DEF edges
    <2> QED  BY <2>1, <2>2
  <1>5. ASSUME NEW g \in Groups, AddGroup(g)  PROVE Sound'
    <2>1. hasKey("account")
      BY <1>5 DEF Sound, Supplied, AddGroup, Take
    <2> QED  BY <1>5, <2>1 DEF AddGroup, Edge, hasKey
  <1>6. ASSUME NEW m \in GroupMembers, RelateGroupMember(m)  PROVE Sound'
    <2>1. hasKey(m[1])
      BY <1>6 DEF Sound, Supplied, RelateGroupMember, Take
    <2> QED  BY <1>6, <2>1 DEF RelateGroupMember, Edge, hasKey
  <1>7. CASE \E p \in ServicePrincipals : AddServicePrincipal(p)
    BY <1>7 DEF AddServicePrincipal
  <1>8. CASE \E r \in Roles : AddRoleDefinition(r)
    BY <1>8 DEF AddRoleDefinition
  <1>9. ASSUME NEW a \in RoleAssignments, RelateRole(a)  PROVE Sound'
    BY <1>9 DEF RelateRole, Edge, hasKey
  <1>10. ASSUME NEW a \in AppRoleAssignments, RelatePrincipal(a)  PROVE Sound'
    <2>1. hasKey(a[1])
      BY <1>10 DEF Sound, Supplied, RelatePrincipal, Take
    <2> QED  BY <1>10, <2>1 DEF RelatePrincipal, PrincipalEdge, Edge, hasKey
  <1> QED
    BY <1>1, <1>2, <1>3, <1>4, <1>5, <1>6, <1>7, <1>8, <1>9, <1>10 DEF Handle

\* A step that begins finds the account if it needs it.
LEMMA BeginFindsAccount ==
    ASSUME Sound, NEW s \in Steps, Ready(s)
    PROVE  FindsAccount(s)
  BY StepNames DEF Sound, Inputs, Ready, FindsAccount

\* A step that begins takes up items whose edges start from what is there.
LEMMA BeginKeepsSound ==
    ASSUME Sound, NEW s \in Steps, Begin(s)
    PROVE  Sound'
  <1>1. Shape' /\ Inputs'
    BY StepNames DEF Sound, Shape, Inputs, Begin, Start, StatusOK, Statuses, Settled, hasKey, store
  <1>2. FindsAccount(s) /\ todo'[s] = Items(s)
    BY BeginFindsAccount DEF Begin, Start, Sound, Shape
  <1>3. \A t \in Steps : t # s => todo'[t] = todo[t]
    BY DEF Begin, Sound, Shape
  <1>4. UNCHANGED <<entities, relationships>>
    BY DEF Begin, store
  <1>5. Supplied'
    <2>1. s \in {"USERS", "GROUPS"} => hasKey("account")
      BY <1>2 DEF FindsAccount, Sound, Inputs
    <2>2. s = "ACCOUNT_HAS_DOMAIN" /\ Items(s) # {} => hasKey("account")
      BY DEF Items
    <2>3. s = "GROUP_MEMBERS" => \A m \in Items(s) : hasKey(m[1])
      BY DEF Items
    <2>4. s = "SERVICE_PRINCIPAL_ACCESS" => \A a \in Items(s) : hasKey(a[1])
      BY DEF Items
    <2> QED
      BY <1>2, <1>3, <1>4, <2>1, <2>2, <2>3, <2>4, StepNames DEF Sound, Supplied, hasKey
  <1> QED  BY <1>1, <1>4, <1>5 DEF Sound, NoDanglingEdge, hasKey

\* Sound is inductive.
LEMMA StepKeepsSound ==
    ASSUME Sound, [Next]_vars
    PROVE  Sound'
  <1>1. CASE FetchAccount
    <2>1. Shape' /\ Inputs' /\ todo' = todo
      BY <1>1, StepNames DEF FetchAccount, Settle, Add, Sound, Shape, Inputs, StatusOK, Statuses,
         Settled, hasKey
    <2>2. entities \subseteq entities' /\ relationships' = relationships
      BY <1>1 DEF FetchAccount, Add
    <2> QED  BY <2>1, <2>2 DEF Sound, Supplied, NoDanglingEdge, hasKey
  <1>2. CASE FetchUserRegistrationDetails
    BY <1>2, StepNames DEF FetchUserRegistrationDetails, Settle, Sound, Shape, Inputs, Supplied,
       NoDanglingEdge, StatusOK, Statuses, Settled, hasKey, store
  <1>3. CASE Handle
    BY <1>3, HandleKeepsSound
  <1>4. ASSUME NEW s \in Steps, Begin(s)  PROVE Sound'
    BY <1>4, BeginKeepsSound
  <1>5. ASSUME NEW s \in Steps, LoseItems(s)  PROVE Sound'
    <2>1. Shape' /\ \A t \in Steps : todo'[t] \subseteq todo[t]
      BY <1>5 DEF LoseItems, Sound, Shape, StatusOK
    <2>2. UNCHANGED <<status, entities, relationships, accountData>>
      BY <1>5 DEF LoseItems, store, data
    <2> QED
      BY <2>1, <2>2, StepNames DEF Sound, Inputs, Supplied, NoDanglingEdge, hasKey
  <1>6. ASSUME NEW s \in Steps, Throw(s) \/ Finish(s)  PROVE Sound'
    <2>1. Shape' /\ \A t \in Steps : todo'[t] \subseteq todo[t]
      BY <1>6 DEF Throw, Finish, Settle, Sound, Shape, StatusOK, Statuses, Settled
    <2>2. UNCHANGED <<entities, relationships, accountData>> /\ status'["ACCOUNT"] = status["ACCOUNT"]
      BY <1>6, StepNames DEF Throw, Finish, Settle, Listing, Sound, Shape, StatusOK, store, data
    <2> QED
      BY <2>1, <2>2, StepNames DEF Sound, Inputs, Supplied, NoDanglingEdge, hasKey
  <1>7. CASE UNCHANGED vars
    BY <1>7 DEF vars, store, data, Sound, Shape, Inputs, Supplied, NoDanglingEdge, StatusOK, hasKey
  <1> QED
    BY <1>1, <1>2, <1>3, <1>4, <1>5, <1>6, <1>7 DEF Next, Progress, Failure, RunOver

\* A run starts sound.
LEMMA InitSound == Init => Sound
  BY StepNames DEF Init, SchedulerInit, Sound, Shape, StatusOK, Statuses, Settled, Inputs, Supplied,
     NoDanglingEdge

\* In every state of every run the edges have both their ends and the inputs are there.
LEMMA AlwaysSound == Spec => []Sound
  BY InitSound, StepKeepsSound, PTL DEF Spec

\* No step adds a relationship whose ends are not both in the job state.
THEOREM EdgesHaveBothEnds == Spec => []NoDanglingEdge
  BY AlwaysSound, PTL DEF Sound

\* No order of the steps, and no failure to read the organization, leaves fetchUsers or
\* fetchGroups without the account entity.
THEOREM AccountIsFound == Spec => []AccountAvailable
  <1>1. Init => AccountAvailable
    BY DEF Init, AccountAvailable
  <1>2. Sound /\ AccountAvailable /\ [Next]_vars => AccountAvailable'
    <2> SUFFICES ASSUME Sound, AccountAvailable, [Next]_vars  PROVE AccountAvailable'
      OBVIOUS
    <2>1. ASSUME NEW s \in Steps, Begin(s)  PROVE AccountAvailable'
      BY <2>1, BeginFindsAccount DEF Begin, Start, AccountAvailable
    <2>2. CASE Handle
      BY <2>2 DEF Handle, AddDomain, RelateDomain, AddUser, AddDevice, AddGroup, RelateGroupMember,
         AddServicePrincipal, AddRoleDefinition, RelateRole, RelatePrincipal, Take, AccountAvailable
    <2> QED
      BY <2>1, <2>2 DEF Next, Progress, Failure, RunOver, FetchAccount, FetchUserRegistrationDetails,
         LoseItems, Throw, Finish, vars, AccountAvailable
  <1> QED  BY <1>1, <1>2, AlwaysSound, PTL DEF Spec
-----------------------------------------------------------------------------
(* The steps are steps of the scheduler.                                   *)

\* Every action starts a step, settles one, or leaves status alone.
LEMMA StepIsScheduled ==
    ASSUME [Next]_vars
    PROVE  [SchedulerNext]_status
  <1>1. CASE Handle
    BY <1>1 DEF Handle, AddDomain, RelateDomain, AddUser, AddDevice, AddGroup, RelateGroupMember,
       AddServicePrincipal, AddRoleDefinition, RelateRole, RelatePrincipal, Take
  <1>2. CASE FetchAccount \/ FetchUserRegistrationDetails
    BY <1>2, StepNames DEF FetchAccount, FetchUserRegistrationDetails, SchedulerNext, Settled
  <1>3. ASSUME NEW s \in Steps, Begin(s) \/ LoseItems(s) \/ Throw(s) \/ Finish(s)
        PROVE  [SchedulerNext]_status
    BY <1>3 DEF Begin, LoseItems, Throw, Finish, SchedulerNext, Settled
  <1>4. CASE UNCHANGED vars
    BY <1>4 DEF vars
  <1> QED  BY <1>1, <1>2, <1>3, <1>4 DEF Next, Progress, Failure, RunOver

\* The directory steps implement the scheduler: what is proved of it holds of them.
THEOREM DirectoryIsScheduled == Spec => SchedulerSpec
  <1>1. Init => SchedulerInit
    BY DEF Init
  <1> QED  BY <1>1, StepIsScheduled, PTL DEF Spec, SchedulerSpec

\* A directory step that has started finds settled every step it builds on.
LEMMA DirectoryInputsSettled == Spec => []InputsSettled
  BY DirectoryIsScheduled, StartedAfterAncestors, PTL

\* What each directory step waits for, as its handler declares it.
LEMMA DirectoryWaits ==
    /\ \A s \in {"ACCOUNT", "DOMAINS", "USER_REGISTRATION_DETAILS"} : DependsOn[s] = {}
    /\ \A s \in {"GROUPS", "SERVICE_PRINCIPALS", "ROLE_DEFINITIONS"} :
          DependsOn[s] = {"ACCOUNT"}
    /\ DependsOn["ACCOUNT_HAS_DOMAIN"] = {"DOMAINS", "ACCOUNT"}
    /\ DependsOn["USERS"] = {"ACCOUNT", "USER_REGISTRATION_DETAILS"}
    /\ DependsOn["DEVICES"] = {"USERS"}
    /\ DependsOn["GROUP_MEMBERS"] = {"GROUPS", "USERS"}
    /\ DependsOn["ROLE_ASSIGNMENTS"] = {"ROLE_DEFINITIONS", "USERS", "SERVICE_PRINCIPALS"}
    /\ DependsOn["SERVICE_PRINCIPAL_ACCESS"] = {"GROUPS", "USERS", "SERVICE_PRINCIPALS"}
  <1>1. DOMAIN TenantDependencies = {"ACCOUNT", "DOMAINS", "ACCOUNT_HAS_DOMAIN"}
    BY DEF TenantDependencies
  <1>2. DOMAIN ObjectDependencies = {"USER_REGISTRATION_DETAILS", "USERS", "DEVICES",
                                     "GROUPS", "SERVICE_PRINCIPALS", "ROLE_DEFINITIONS"}
    BY DEF ObjectDependencies
  <1>3. DOMAIN MemberDependencies = {"GROUP_MEMBERS", "ROLE_ASSIGNMENTS",
                                     "SERVICE_PRINCIPAL_ACCESS"}
    BY DEF MemberDependencies
  <1>4. /\ \A s \in DOMAIN TenantDependencies : DependsOn[s] = TenantDependencies[s]
        /\ \A s \in DOMAIN ObjectDependencies : DependsOn[s] = ObjectDependencies[s]
        /\ \A s \in DOMAIN MemberDependencies : DependsOn[s] = MemberDependencies[s]
    BY <1>1, <1>2, <1>3, StepsAssumption DEF DirectoryStepIds, DirectoryDependsOn
  <1>5. /\ DependsOn["ACCOUNT"] = {} /\ DependsOn["DOMAINS"] = {}
        /\ DependsOn["ACCOUNT_HAS_DOMAIN"] = {"DOMAINS", "ACCOUNT"}
    BY <1>1, <1>4 DEF TenantDependencies
  <1>6. /\ DependsOn["USER_REGISTRATION_DETAILS"] = {}
        /\ DependsOn["GROUPS"] = {"ACCOUNT"}
        /\ DependsOn["SERVICE_PRINCIPALS"] = {"ACCOUNT"}
        /\ DependsOn["ROLE_DEFINITIONS"] = {"ACCOUNT"}
        /\ DependsOn["USERS"] = {"ACCOUNT", "USER_REGISTRATION_DETAILS"}
        /\ DependsOn["DEVICES"] = {"USERS"}
    BY <1>2, <1>4 DEF ObjectDependencies
  <1>7. /\ DependsOn["GROUP_MEMBERS"] = {"GROUPS", "USERS"}
        /\ DependsOn["ROLE_ASSIGNMENTS"] = {"ROLE_DEFINITIONS", "USERS", "SERVICE_PRINCIPALS"}
        /\ DependsOn["SERVICE_PRINCIPAL_ACCESS"] = {"GROUPS", "USERS", "SERVICE_PRINCIPALS"}
    BY <1>3, <1>4 DEF MemberDependencies
  <1> QED  BY <1>5, <1>6, <1>7

\* No directory step waits for itself, however indirectly.
LEMMA DirectoryHasNoCycle ==
    IsFiniteSet(Steps) /\ \A s \in Steps : s \notin Ancestors[s]
  <1>1. IsFiniteSet(Steps)
    <2> DEFINE tenant == {} \cup {"ACCOUNT"} \cup {"DOMAINS"} \cup {"ACCOUNT_HAS_DOMAIN"}
               people == {} \cup {"USER_REGISTRATION_DETAILS"} \cup {"USERS"} \cup {"DEVICES"}
               things == {} \cup {"GROUPS"} \cup {"SERVICE_PRINCIPALS"} \cup {"ROLE_DEFINITIONS"}
               links  == {} \cup {"GROUP_MEMBERS"} \cup {"ROLE_ASSIGNMENTS"}
                            \cup {"SERVICE_PRINCIPAL_ACCESS"}
    <2>1. IsFiniteSet(tenant) /\ IsFiniteSet(people) /\ IsFiniteSet(things) /\ IsFiniteSet(links)
      BY FS_EmptySet, FS_AddElement, Zenon
    <2>2. Steps = (tenant \cup people) \cup (things \cup links)
      BY StepNames
    <2> HIDE DEF tenant, people, things, links
    <2> QED  BY <2>1, <2>2, FS_Union
  <1>2. \A s \in {"ACCOUNT", "DOMAINS", "USER_REGISTRATION_DETAILS"} : Ancestors[s] = {}
    <2>1. \A s \in Steps : DependsOn[s] = {} => Ancestors[s] = {}
      BY AncestorsAssumption
    <2> QED  BY <2>1, DirectoryWaits, StepNames
  <1>3. /\ \A s \in {"GROUPS", "SERVICE_PRINCIPALS", "ROLE_DEFINITIONS"} :
              Ancestors[s] = {"ACCOUNT"}
        /\ Ancestors["USERS"] = {"ACCOUNT", "USER_REGISTRATION_DETAILS"}
    BY <1>2, DirectoryWaits, StepNames, AncestorsAssumption
  <1>4. /\ Ancestors["ACCOUNT_HAS_DOMAIN"] = {"DOMAINS", "ACCOUNT"}
        /\ Ancestors["DEVICES"] = {"USERS"} \cup Ancestors["USERS"]
        /\ Ancestors["GROUP_MEMBERS"] = {"GROUPS", "USERS"} \cup Ancestors["USERS"]
        /\ Ancestors["ROLE_ASSIGNMENTS"] =
              {"ROLE_DEFINITIONS", "USERS", "SERVICE_PRINCIPALS"} \cup Ancestors["USERS"]
        /\ Ancestors["SERVICE_PRINCIPAL_ACCESS"] =
              {"GROUPS", "USERS", "SERVICE_PRINCIPALS"} \cup Ancestors["USERS"]
    BY <1>3, DirectoryWaits, StepNames, AncestorsAssumption
  <1> QED  BY <1>1, <1>2, <1>3, <1>4, StepNames

\* As long as a directory step has not settled, one is running or can start.
THEOREM DirectoryNeverStuck ==
    Spec => [](AllSettled \/ \E s \in Steps : status[s] = "running" \/ Ready(s))
  BY DirectoryIsScheduled, DirectoryHasNoCycle, NeverStuck, PTL
-----------------------------------------------------------------------------
(* TypeOK and RegistrationNotLost.                                         *)

\* A callback that adds known keys, and users only while fetchUsers runs, keeps the types.
LEMMA CallbackKeepsTyped ==
    ASSUME Typed, NEW s \in Steps, NEW x, NEW keys, NEW edges,
           Take(s, x), Add(keys, edges),
           keys \subseteq Keys,
           keys \cap Users # {} => s = "USERS"
    PROVE  Typed'
  <1>1. \A t \in Steps : todo'[t] \subseteq todo[t]
    BY DEF Typed, Shape, Take
  <1>2. Shape' /\ UNCHANGED <<status, data, incomplete, withoutAccount>>
    BY DEF Typed, Shape, Take, StatusOK
  <1>3. TypeOK'
    BY <1>1, <1>2 DEF Typed, TypeOK, Add, StatusOK, data
  <1>4. Details'
    BY <1>2 DEF Typed, Details, Take, Add, data
  <1> QED  BY <1>1, <1>2, <1>3, <1>4, StepNames DEF Typed

\* Every callback does.
LEMMA HandleKeepsTyped ==
    ASSUME Typed, Handle
    PROVE  Typed'
  <1> USE CallbackKeepsTyped, StepNames, KeysDiffer DEF Keys, Objects
  <1>1. CASE \E d \in Domains : AddDomain(d)
    BY <1>1 DEF AddDomain
  <1>2. CASE \E d \in VerifiedDomains : RelateDomain(d)
    BY <1>2 DEF RelateDomain
  <1>3. CASE \E u \in Users : AddUser(u)
    BY <1>3 DEF AddUser
  <1>4. CASE \E d \in Devices : AddDevice(d)
    BY <1>4 DEF AddDevice
  <1>5. CASE \E g \in Groups : AddGroup(g)
    BY <1>5 DEF AddGroup
  <1>6. CASE \E m \in GroupMembers : RelateGroupMember(m)
    BY <1>6 DEF RelateGroupMember
  <1>7. CASE \E p \in ServicePrincipals : AddServicePrincipal(p)
    BY <1>7 DEF AddServicePrincipal
  <1>8. CASE \E r \in Roles : AddRoleDefinition(r)
    BY <1>8 DEF AddRoleDefinition
  <1>9. CASE \E a \in RoleAssignments : RelateRole(a)
    BY <1>9 DEF RelateRole
  <1>10. CASE \E a \in AppRoleAssignments : RelatePrincipal(a)
    BY <1>10 DEF RelatePrincipal
  <1> QED
    BY <1>1, <1>2, <1>3, <1>4, <1>5, <1>6, <1>7, <1>8, <1>9, <1>10 DEF Handle

\* Typed is inductive.
LEMMA StepKeepsTyped ==
    ASSUME Typed, [Next]_vars
    PROVE  Typed'
  <1>1. CASE FetchAccount
    <2>1. Shape' /\ UNCHANGED <<todo, registrationData, detailsRead, withoutAccount>>
      BY <1>1 DEF FetchAccount, Settle, Typed, Shape, StatusOK, Statuses, Settled
    <2>2. \A t \in Steps \ {"ACCOUNT"} : status'[t] = status[t]
      BY <1>1 DEF FetchAccount, Settle, Typed, Shape, StatusOK
    <2>3. Details'
      BY <1>1, <2>1, <2>2, StepNames, KeysDiffer DEF FetchAccount, Add, Typed, Details
    <2>4. TypeOK'
      BY <1>1, <2>1, <2>2, StepNames DEF FetchAccount, Add, Typed, TypeOK, Shape, Keys
    <2> QED  BY <2>1, <2>3, <2>4 DEF Typed
  <1>2. CASE FetchUserRegistrationDetails
    <2>1. Shape' /\ UNCHANGED <<todo, entities, accountData, accountDomains, detailsRead, withoutAccount>>
      BY <1>2 DEF FetchUserRegistrationDetails, Settle, Typed, Shape, StatusOK, Statuses, Settled, store
    <2>2. \A t \in Steps \ {"USER_REGISTRATION_DETAILS"} : status'[t] = status[t]
      BY <1>2 DEF FetchUserRegistrationDetails, Settle, Typed, Shape, StatusOK
    <2>3. status["USERS"] = "pending" /\ detailsRead = {}
      BY <1>2 DEF FetchUserRegistrationDetails, Settle, Typed, Details, Settled
    <2>4. Details'
      BY <2>1, <2>2, <2>3, StepNames DEF Typed, Details
    <2>5. TypeOK'
      BY <1>2, <2>1, <2>2, <2>3, StepNames DEF FetchUserRegistrationDetails, Typed, TypeOK, Shape
    <2> QED  BY <2>1, <2>4, <2>5 DEF Typed
  <1>3. CASE Handle
    BY <1>3, HandleKeepsTyped
  <1>4. ASSUME NEW s \in Steps, Begin(s)  PROVE Typed'
    <2>1. Shape' /\ UNCHANGED <<entities, accountData, accountDomains, registrationData, incomplete>>
      BY <1>4 DEF Begin, Start, Typed, Shape, StatusOK, Statuses, Settled, store
    <2>2. /\ status[s] = "pending" /\ status'[s] = "running"
          /\ \A t \in Steps \ {s} : status'[t] = status[t] /\ todo'[t] = todo[t]
      BY <1>4 DEF Begin, Start, Ready, Typed, Shape, StatusOK
    <2>3. s \in {"ACCOUNT", "USER_REGISTRATION_DETAILS"} => todo'[s] = {}
      BY <1>4 DEF Begin, Items, Typed, Shape
    <2>4. s = "USERS" => /\ status["USER_REGISTRATION_DETAILS"] \in Settled
                         /\ detailsRead' = registrationData
      BY <1>4, StepNames DEF Begin, Start, Ready
    <2>5. s # "USERS" => detailsRead' = detailsRead
      BY <1>4 DEF Begin
    <2>6. Details'
      BY <2>1, <2>2, <2>4, <2>5, StepNames DEF Typed, Details, Settled
    <2>7. TypeOK'
      BY <1>4, <2>1, <2>2, <2>4, <2>5 DEF Begin, Typed, TypeOK, Shape
    <2> QED  BY <2>1, <2>2, <2>3, <2>6, <2>7, StepNames DEF Typed
  <1>5. ASSUME NEW s \in Steps, LoseItems(s)  PROVE Typed'
    <2>1. Shape' /\ \A t \in Steps : todo'[t] \subseteq todo[t]
      BY <1>5 DEF LoseItems, Typed, Shape, StatusOK
    <2>2. UNCHANGED <<status, entities, data, withoutAccount>> /\ incomplete' \subseteq Steps
      BY <1>5 DEF LoseItems, store, Typed, TypeOK
    <2> QED
      BY <2>1, <2>2, StepNames DEF Typed, TypeOK, Details, data, Shape
  <1>6. ASSUME NEW s \in Steps, Throw(s) \/ Finish(s)  PROVE Typed'
    <2>1. /\ Shape' /\ \A t \in Steps : todo'[t] \subseteq todo[t]
          /\ todo'[s] = {}
      BY <1>6 DEF Throw, Finish, Settle, Typed, Shape, StatusOK, Statuses, Settled
    <2>2. UNCHANGED <<entities, data, withoutAccount>> /\ incomplete' \subseteq Steps
      BY <1>6 DEF Throw, Finish, store, Typed, TypeOK
    <2>3. /\ status[s] = "running" /\ status'[s] \in Settled
          /\ \A t \in Steps \ {s} : status'[t] = status[t]
      BY <1>6 DEF Throw, Finish, Settle, Typed, Shape, StatusOK, Settled
    <2>4. Details'
      BY <2>2, <2>3, StepNames DEF Typed, Details, data, Settled
    <2>5. TypeOK'
      BY <2>1, <2>2, <2>3 DEF Typed, TypeOK, Shape, data
    <2> QED  BY <2>1, <2>4, <2>5, StepNames DEF Typed
  <1>7. CASE UNCHANGED vars
    BY <1>7 DEF vars, store, data, Typed, TypeOK, Shape, Details, StatusOK
  <1> QED
    BY <1>1, <1>2, <1>3, <1>4, <1>5, <1>6, <1>7 DEF Next, Progress, Failure, RunOver

\* Typed holds in every state.
LEMMA AlwaysTyped == Spec => []Typed
  <1>1. Init => Typed
    BY StepNames DEF Init, SchedulerInit, Typed, TypeOK, Shape, Details, StatusOK, Statuses, Settled
  <1> QED  BY <1>1, StepKeepsTyped, PTL DEF Spec

\* Every variable keeps its type, and only running steps have items to handle.
THEOREM DirectoryTypes == Spec => []TypeOK
  BY AlwaysTyped, PTL DEF Typed

\* The users are created with the registration details that were obtained.
THEOREM RegistrationReachesUsers == Spec => []RegistrationNotLost
  <1>1. Typed => RegistrationNotLost
    BY DEF Typed, Details, RegistrationNotLost, hasKey
  <1> QED  BY <1>1, AlwaysTyped, PTL
=============================================================================
