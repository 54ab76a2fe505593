----------------------- MODULE DirectoryDeliveryProofs -----------------------
(***************************************************************************)
(* What the steps of the directory deliver: nothing twice but a role that  *)
(* is assigned at two scopes, nothing else, and all of it that no loss     *)
(* touches, for every tenant, every schedule and every order of the items. *)
(*                                                                         *)
(* Both follow the items.  Until a step takes an item, what it will add    *)
(* for it is not there (Fresh); once it has, what it adds is (Handled).    *)
(***************************************************************************)
EXTENDS DirectoryStepsProofs

\* An item x that step s may come to handle.
Work ==
         ({"DOMAINS"} \X Domains)
    \cup ({"ACCOUNT_HAS_DOMAIN"} \X VerifiedDomains)
    \cup ({"USERS"} \X Users)
    \cup ({"DEVICES"} \X Devices)
    \cup ({"GROUPS"} \X Groups)
    \cup ({"GROUP_MEMBERS"} \X GroupMembers)
    \cup ({"SERVICE_PRINCIPALS"} \X ServicePrincipals)
    \cup ({"ROLE_DEFINITIONS"} \X Roles)
    \cup ({"ROLE_ASSIGNMENTS"} \X RoleAssignments)
    \cup ({"SERVICE_PRINCIPAL_ACCESS"} \X AppRoleAssignments)

\* The steps that add an entity for each of their items.
Adders == {"DOMAINS", "USERS", "DEVICES", "GROUPS", "SERVICE_PRINCIPALS", "ROLE_DEFINITIONS"}

\* Step s adds the relationship e for its item x.
Makes(s, x, e) ==
    \/ s = "ACCOUNT_HAS_DOMAIN" /\ e = Edge("account", x, "azure_domain")
    \/ s = "USERS" /\ e = Edge("account", x, "azure_user")
    \/ s = "DEVICES" /\ \E u \in Users : e = Edge(u, x, "azure_device")
    \/ s = "GROUPS" /\ e = Edge("account", x, "azure_user_group")
    \/ s = "GROUP_MEMBERS" /\ e = Edge(x[1], x[2], MemberType(x[2]))
    \/ s = "ROLE_ASSIGNMENTS" /\ e = Edge(x[1], x[2], "azure_ad_role_definition")
    \/ s = "SERVICE_PRINCIPAL_ACCESS" /\ e = PrincipalEdge(x)

\* Step s has still to handle x: it has not begun, or has not come to it.
Awaits(s, x) == status[s] = "pending" \/ x \in todo[s]

\* What is still to be added is not there.  RelatePrincipal looks before it adds.
Fresh ==
    /\ status["ACCOUNT"] \notin Settled => ~hasKey("account")
    /\ \A w \in Work : Awaits(w[1], w[2]) =>
          /\ w[1] \in Adders => ~hasKey(w[2])
          /\ w[1] # "SERVICE_PRINCIPAL_ACCESS" =>
                \A e \in relationships \ RolesAtTwoScopes : ~Makes(w[1], w[2], e)

\* What step s adds for x, once everything it builds on is there.
IsIn(s, x) ==
    /\ s \in Adders => hasKey(x)
    /\ s = "ACCOUNT_HAS_DOMAIN" /\ x \in Domains =>
          Edge("account", x, "azure_domain") \in relationships
    /\ s = "USERS" => Edge("account", x, "azure_user") \in relationships
    /\ s = "DEVICES" => \A u \in Users : <<x, u>> \in RegisteredUsers =>
                           Edge(u, x, "azure_device") \in relationships
    /\ s = "GROUPS" => Edge("account", x, "azure_user_group") \in relationships
    /\ s = "GROUP_MEMBERS" /\ x[2] \in Users \cup Groups =>
          Edge(x[1], x[2], MemberType(x[2])) \in relationships
    /\ s = "ROLE_ASSIGNMENTS" /\ x[1] \in Users \cup ServicePrincipals =>
          Edge(x[1], x[2], "azure_ad_role_definition") \in relationships
    /\ s = "SERVICE_PRINCIPAL_ACCESS" => PrincipalEdge(x) \in relationships

\* What a step has handled that is not harmed by a loss is in the job state.
Handled ==
    /\ "ACCOUNT" \notin incomplete /\ status["ACCOUNT"] \in Settled =>
          accountDomains = VerifiedDomains
    /\ \A w \in Work : Unharmed(w[1]) => Awaits(w[1], w[2]) \/ IsIn(w[1], w[2])
-----------------------------------------------------------------------------
(* The keys and relationships of different items are different.            *)

\* No two items bring the same entity, and none brings the account.
LEMMA OneAdder ==
    ASSUME NEW w \in Work, w[1] \in Adders
    PROVE  /\ w[2] # "account"
           /\ \A v \in Work : v[1] \in Adders /\ v[2] = w[2] => v = w
  BY KeysDiffer DEF Work, Adders

\* The parts of a relationship are those it was made of.
LEMMA EdgeParts ==
    ASSUME NEW from, NEW to, NEW type
    PROVE  LET e == Edge(from, to, type) IN e.from = from /\ e.to = to /\ e.toType = type
  BY DEF Edge

\* No two items bring the same relationship, but for the app roles of one principal and a
\* role at two scopes.
LEMMA OneMaker ==
    ASSUME NEW w \in Work, NEW v \in Work, NEW e, Makes(w[1], w[2], e), Makes(v[1], v[2], e),
           v[1] # "SERVICE_PRINCIPAL_ACCESS", e \notin RolesAtTwoScopes
    PROVE  w = v
  <1>1. /\ w[1] \in {"ACCOUNT_HAS_DOMAIN", "USERS", "DEVICES", "GROUPS", "GROUP_MEMBERS",
                     "ROLE_ASSIGNMENTS", "SERVICE_PRINCIPAL_ACCESS"}
        /\ v[1] \in {"ACCOUNT_HAS_DOMAIN", "USERS", "DEVICES", "GROUPS", "GROUP_MEMBERS",
                     "ROLE_ASSIGNMENTS"}
    BY DEF Makes
  <1>2. \A x \in {w, v} :
          /\ x[1] = "ACCOUNT_HAS_DOMAIN" => e.from = "account" /\ e.to = x[2] /\ e.toType = "azure_domain"
          /\ x[1] = "USERS" => e.from = "account" /\ e.to = x[2] /\ e.toType = "azure_user"
          /\ x[1] = "DEVICES" => e.from \in Users /\ e.to = x[2] /\ e.toType = "azure_device"
          /\ x[1] = "GROUPS" => e.from = "account" /\ e.to = x[2] /\ e.toType = "azure_user_group"
          /\ x[1] = "GROUP_MEMBERS" => /\ e.from = x[2][1] /\ e.to = x[2][2]
                                       /\ e.toType = MemberType(x[2][2])
          /\ x[1] = "ROLE_ASSIGNMENTS" => /\ e.from = x[2][1] /\ e.to = x[2][2]
                                          /\ e.toType = "azure_ad_role_definition"
          /\ x[1] = "SERVICE_PRINCIPAL_ACCESS" => /\ e.from = x[2][1] /\ e.to = x[2][2]
                                                  /\ e.toType = PrincipalType(x[2][2])
    BY EdgeParts DEF Makes, PrincipalEdge
  <1>3. \A x \in {w, v} :
          /\ x[1] = "GROUP_MEMBERS" => x[2] = <<x[2][1], x[2][2]>> /\ x[2][1] \in Groups
          /\ x[1] = "ROLE_ASSIGNMENTS" => x[2] \in RoleAssignments
          /\ x[1] = "SERVICE_PRINCIPAL_ACCESS" => x[2][1] \in ServicePrincipals
          /\ x = <<x[1], x[2]>>
    BY DirectoryAssumption DEF Work
  <1>4. \A m : /\ MemberType(m) # "azure_ad_role_definition"
               /\ PrincipalType(m) # "azure_ad_role_definition"
               /\ PrincipalType(m) # "azure_domain" /\ PrincipalType(m) # "azure_device"
               /\ MemberType(m) # "azure_domain" /\ MemberType(m) # "azure_device"
    BY DEF MemberType, PrincipalType
  <1>5. w[1] = v[1]
    BY <1>1, <1>2, <1>3, <1>4, KeysDiffer
  <1>6. w[2] = v[2]
    <2>1. CASE w[1] = "ROLE_ASSIGNMENTS"
      <3>1. w[2] \in RoleAssignments /\ v[2] \in RoleAssignments
        BY <1>3, <1>5, <2>1
      <3>2. w[2][1] = v[2][1] /\ w[2][2] = v[2][2]
        BY <1>2, <1>5, <2>1
      <3>3. e = Edge(w[2][1], w[2][2], "azure_ad_role_definition")
        BY <2>1 DEF Makes
      <3> QED  BY <3>1, <3>2, <3>3 DEF RolesAtTwoScopes
    <2>2. CASE w[1] # "ROLE_ASSIGNMENTS"
      BY <1>1, <1>2, <1>3, <1>5, <2>2
    <2> QED  BY <2>1, <2>2
  <1> QED  BY <1>3, <1>5, <1>6
-----------------------------------------------------------------------------
(* NothingAddedTwice.                                                      *)

Once == Typed /\ Fresh /\ NothingAddedTwice

\* A callback adds what belongs to its item only, and RelatePrincipal what is not there.
Owns(w, keys, edges) ==
    /\ keys \subseteq (IF w[1] \in Adders THEN {w[2]} ELSE {})
    /\ \A e \in edges : Makes(w[1], w[2], e)
    /\ w[1] = "SERVICE_PRINCIPAL_ACCESS" => edges \cap relationships = {}

\* Every callback does.
LEMMA HandleOwns ==
    ASSUME Handle
    PROVE  \E w \in Work : \E keys, edges :
              Take(w[1], w[2]) /\ Add(keys, edges) /\ Owns(w, keys, edges)
  <1> SUFFICES ASSUME \A w \in Work : \A keys, edges :
                         ~(Take(w[1], w[2]) /\ Add(keys, edges) /\ Owns(w, keys, edges))
               PROVE  FALSE
    OBVIOUS
  <1> USE DEF Work, Owns, Makes, Adders
  <1>1. ASSUME NEW d \in Domains, AddDomain(d)  PROVE FALSE
    BY <1>1, <<"DOMAINS", d>> \in Work DEF AddDomain
  <1>2. ASSUME NEW d \in VerifiedDomains, RelateDomain(d)  PROVE FALSE
    BY <1>2, <<"ACCOUNT_HAS_DOMAIN", d>> \in Work DEF RelateDomain
  <1>3. ASSUME NEW u \in Users, AddUser(u)  PROVE FALSE
    BY <1>3, <<"USERS", u>> \in Work DEF AddUser
  <1>4. ASSUME NEW d \in Devices, AddDevice(d)  PROVE FALSE
    <2> DEFINE edges == {Edge(u, d, "azure_device") : u \in {v \in Users :
                                             <<d, v>> \in RegisteredUsers /\ hasKey(v)}}
    <2>1. \A e \in edges : Makes("DEVICES", d, e)
      OBVIOUS
    <2>2. Take("DEVICES", d) /\ Add({d}, edges)
      BY <1>4 DEF AddDevice
    <2> HIDE DEF edges
    <2> QED  BY <2>1, <2>2, <<"DEVICES", d>> \in Work
  <1>5. ASSUME NEW g \in Groups, AddGroup(g)  PROVE FALSE
    BY <1>5, <<"GROUPS", g>> \in Work DEF AddGroup
  <1>6. ASSUME NEW m \in GroupMembers, RelateGroupMember(m)  PROVE FALSE
    BY <1>6, <<"GROUP_MEMBERS", m>> \in Work DEF RelateGroupMember
  <1>7. ASSUME NEW p \in ServicePrincipals, AddServicePrincipal(p)  PROVE FALSE
    BY <1>7, <<"SERVICE_PRINCIPALS", p>> \in Work DEF AddServicePrincipal
  <1>8. ASSUME NEW r \in Roles, AddRoleDefinition(r)  PROVE FALSE
    BY <1>8, <<"ROLE_DEFINITIONS", r>> \in Work DEF AddRoleDefinition
  <1>9. ASSUME NEW a \in RoleAssignments, RelateRole(a)  PROVE FALSE
    BY <1>9, <<"ROLE_ASSIGNMENTS", a>> \in Work DEF RelateRole
  <1>10. ASSUME NEW a \in AppRoleAssignments, RelatePrincipal(a)  PROVE FALSE
    BY <1>10, <<"SERVICE_PRINCIPAL_ACCESS", a>> \in Work DEF RelatePrincipal
  <1> QED
    BY <1>1, <1>2, <1>3, <1>4, <1>5, <1>6, <1>7, <1>8, <1>9, <1>10 DEF Handle

\* A callback adds nothing twice, and leaves what the other items bring to them.
LEMMA CallbackKeepsFresh ==
    ASSUME Once, NEW w \in Work, Take(w[1], w[2]),
           NEW keys, NEW edges, Add(keys, edges), Owns(w, keys, edges)
    PROVE  Fresh' /\ NothingAddedTwice'
  <1>1. /\ w[1] \in Steps /\ w[2] \in todo[w[1]]
        /\ UNCHANGED status
        /\ w[2] \notin todo'[w[1]] /\ status[w[1]] = "running"
        /\ \A s \in Steps : todo'[s] \subseteq todo[s]
    BY StepNames DEF Once, Typed, Shape, Take, Work
  <1>2. Awaits(w[1], w[2])
    BY <1>1 DEF Awaits
  <1>3. NothingAddedTwice'
    <2>1. keys \cap entities = {}
      BY <1>2 DEF Once, Fresh, Owns, hasKey
    <2>2. edges \cap relationships \subseteq RolesAtTwoScopes
      BY <1>2 DEF Once, Fresh, Owns
    <2> QED  BY <2>1, <2>2 DEF Add, Once, NothingAddedTwice
  <1>4. status["ACCOUNT"] \notin Settled => "account" \notin entities'
    BY OneAdder DEF Once, Fresh, Owns, Add, hasKey
  <1>5. ASSUME NEW v \in Work, Awaits(v[1], v[2])'
        PROVE  /\ Awaits(v[1], v[2]) /\ v # w
    BY <1>1, <1>5, StepNames DEF Awaits, Work
  <1>6. ASSUME NEW v \in Work, Awaits(v[1], v[2])', v[1] \in Adders
        PROVE  v[2] \notin entities'
    BY <1>5, <1>6, OneAdder DEF Once, Fresh, Owns, Add, hasKey
  <1>7. ASSUME NEW v \in Work, Awaits(v[1], v[2])', v[1] # "SERVICE_PRINCIPAL_ACCESS",
               NEW e \in relationships' \ RolesAtTwoScopes
        PROVE  ~Makes(v[1], v[2], e)
    <2>1. CASE e \in relationships
      BY <1>5, <1>7, <2>1 DEF Once, Fresh
    <2>2. CASE e \in edges
      BY <1>5, <1>7, <2>2, OneMaker DEF Owns
    <2> QED  BY <2>1, <2>2 DEF Add
  <1> QED  BY <1>1, <1>3, <1>4, <1>6, <1>7 DEF Fresh, hasKey

\* Nothing new is awaited, and nothing is added, in the other steps.
LEMMA OthersKeepFresh ==
    ASSUME Once, [Next]_vars, ~Handle, ~FetchAccount
    PROVE  Fresh' /\ NothingAddedTwice'
  <1>1. UNCHANGED store
    BY DEF Next, Progress, Failure, RunOver, FetchUserRegistrationDetails, Begin, Finish,
       LoseItems, Throw, vars
  <1>2. ASSUME NEW w \in Work, Awaits(w[1], w[2])'
        PROVE  Awaits(w[1], w[2])
    <2>1. w[1] \in Steps
      BY StepNames DEF Work
    <2>2. ASSUME NEW s \in Steps, Begin(s)
          PROVE  Awaits(w[1], w[2])
      BY <1>2, <2>1, <2>2 DEF Begin, Start, Ready, Awaits, Once, Typed, Shape, StatusOK
    <2>3. ASSUME NEW s \in Steps, Finish(s) \/ LoseItems(s) \/ Throw(s)
          PROVE  Awaits(w[1], w[2])
      BY <1>2, <2>1, <2>3 DEF Finish, LoseItems, Throw, Settle, Settled, Awaits, Once, Typed, Shape,
         StatusOK
    <2>4. CASE FetchUserRegistrationDetails
      BY <1>2, <2>1, <2>4, StepNames
      DEF FetchUserRegistrationDetails, Settle, Awaits, Once, Typed, Shape, StatusOK
    <2>5. CASE UNCHANGED vars
      BY <1>2, <2>5 DEF vars, Awaits
    <2> QED  BY <2>2, <2>3, <2>4, <2>5 DEF Next, Progress, Failure, RunOver
  <1>3. status'["ACCOUNT"] \notin Settled => status["ACCOUNT"] \notin Settled
    BY StepIsScheduled, SettledStays, StepNames DEF Once, Typed, Shape
  <1> QED  BY <1>1, <1>2, <1>3 DEF Once, Fresh, NothingAddedTwice, store, hasKey

\* The account is added once, when its step ends.
LEMMA FetchAccountKeepsFresh ==
    ASSUME Once, FetchAccount
    PROVE  Fresh' /\ NothingAddedTwice'
  <1>1. /\ status["ACCOUNT"] = "running" /\ status'["ACCOUNT"] \in Settled
        /\ todo' = todo
        /\ \A s \in Steps \ {"ACCOUNT"} : status'[s] = status[s]
    BY StepNames DEF FetchAccount, Settle, Settled, Once, Typed, Shape, StatusOK
  <1>2. /\ entities' = entities \cup {"account"} /\ relationships' = relationships
        /\ addedTwice' = addedTwice \cup ({"account"} \cap entities)
    BY DEF FetchAccount, Add
  <1>3. NothingAddedTwice'
    BY <1>1, <1>2 DEF Once, Fresh, NothingAddedTwice, Settled, hasKey
  <1>4. \A w \in Work : Awaits(w[1], w[2])' => Awaits(w[1], w[2])
    BY <1>1, StepNames DEF Awaits, Work
  <1> QED  BY <1>1, <1>2, <1>3, <1>4, OneAdder DEF Once, Fresh, hasKey

\* But for a role at two scopes, no step adds an entity or a relationship that is there already,
\* whatever its listing hands over and in which order, and whichever steps run beside it.
THEOREM EverythingIsAddedOnce == Spec => []NothingAddedTwice
  <1>1. Init => Fresh /\ NothingAddedTwice
    BY DEF Init, Fresh, NothingAddedTwice, hasKey
  <1>2. Once /\ [Next]_vars => Fresh' /\ NothingAddedTwice'
    <2> SUFFICES ASSUME Once, [Next]_vars  PROVE Fresh' /\ NothingAddedTwice'
      OBVIOUS
    <2>1. CASE Handle
      BY <2>1, HandleOwns, CallbackKeepsFresh
    <2> QED  BY <2>1, FetchAccountKeepsFresh, OthersKeepFresh
  <1> QED  BY <1>1, <1>2, AlwaysTyped, PTL DEF Spec, Once
-----------------------------------------------------------------------------
(* NothingInvented.                                                        *)

\* The job state relates what the directory relates, and nothing else.
NothingInvented == relationships \subseteq ChanceEdges \cup UNION {RelationshipsOf(s) : s \in Steps}

\* A relationship that a step declares is no invention.
LEMMA DeclaredIsNotInvented ==
    ASSUME NothingInvented, NEW s \in Steps,
           relationships' \subseteq relationships \cup RelationshipsOf(s)
    PROVE  NothingInvented'
  <1> DEFINE declared == UNION {RelationshipsOf(x) : x \in Steps}
  <1>1. relationships' \subseteq ChanceEdges \cup declared
    BY DEF NothingInvented
  <1> HIDE DEF declared
  <1>2. (ChanceEdges \cup declared)' = ChanceEdges \cup declared
    BY DEF ChanceEdges, declared, RelationshipsOf, Edge, MemberType, PrincipalEdge, PrincipalType
  <1> QED  BY <1>1, <1>2 DEF NothingInvented, declared

\* Nor is one that is made by chance.
LEMMA MadeByChance ==
    ASSUME NothingInvented, relationships' \subseteq relationships \cup ChanceEdges
    PROVE  NothingInvented'
  BY DEF NothingInvented

\* A relationship is made between entities of the directory only for what it says of them.
LEMMA HandleInventsNothing ==
    ASSUME Typed, NothingInvented, Handle
    PROVE  NothingInvented'
  <1> USE StepNames DEF Add
  <1>k. entities \subseteq Keys
    BY DEF Typed, TypeOK
  <1>1. ASSUME NEW d \in VerifiedDomains, RelateDomain(d)  PROVE NothingInvented'
    <2>1. hasKey(d) => d \in Domains
      BY <1>k, KeysDiffer DEF hasKey
    <2>2. relationships' \subseteq relationships \cup RelationshipsOf("ACCOUNT_HAS_DOMAIN")
      BY <1>1, <2>1 DEF RelateDomain, RelationshipsOf
    <2> QED  BY <2>2, DeclaredIsNotInvented
  <1>2. ASSUME NEW u \in Users, AddUser(u)  PROVE NothingInvented'
    <2>1. relationships' \subseteq relationships \cup RelationshipsOf("USERS")
      BY <1>2 DEF AddUser, RelationshipsOf
    <2> QED  BY <2>1, DeclaredIsNotInvented
  <1>3. ASSUME NEW d \in Devices, AddDevice(d)  PROVE NothingInvented'
    <2> DEFINE edges == {Edge(u, d, "azure_device") : u \in {v \in Users :
                                             <<d, v>> \in RegisteredUsers /\ hasKey(v)}}
    <2>1. edges \subseteq {Edge(x[2], x[1], "azure_device") : x \in RegisteredUsers}
      <3> SUFFICES ASSUME NEW u \in Users, <<d, u>> \in RegisteredUsers
                   PROVE  \E x \in RegisteredUsers :
                             Edge(u, d, "azure_device") = Edge(x[2], x[1], "azure_device")
        OBVIOUS
      <3> WITNESS <<d, u>> \in RegisteredUsers
      <3> QED  OBVIOUS
    <2>2. relationships' = relationships \cup edges
      BY <1>3 DEF AddDevice
    <2> HIDE DEF edges
    <2>3. relationships' \subseteq relationships \cup RelationshipsOf("DEVICES")
      BY <2>1, <2>2 DEF RelationshipsOf
    <2> QED  BY <2>3, DeclaredIsNotInvented
  <1>4. ASSUME NEW g \in Groups, AddGroup(g)  PROVE NothingInvented'
    <2>1. relationships' \subseteq relationships \cup RelationshipsOf("GROUPS")
      BY <1>4 DEF AddGroup, RelationshipsOf
    <2> QED  BY <2>1, DeclaredIsNotInvented
  <1>5. ASSUME NEW m \in GroupMembers, RelateGroupMember(m)  PROVE NothingInvented'
    <2>1. relationships' = relationships \cup
             (IF hasKey(m[2]) THEN {Edge(m[1], m[2], MemberType(m[2]))} ELSE {})
      BY <1>5 DEF RelateGroupMember
    <2>2. CASE m[2] \in Users \cup Groups
      <3>1. relationships' \subseteq relationships \cup RelationshipsOf("GROUP_MEMBERS")
        BY <2>1, <2>2 DEF RelationshipsOf
      <3> QED  BY <3>1, DeclaredIsNotInvented
    <2>3. CASE m[2] \in Devices \cup ServicePrincipals
      <3>1. MemberType(m[2]) = "azure_group_member"
        BY <2>3, KeysDiffer DEF MemberType
      <3>2. Edge(m[1], m[2], MemberType(m[2])) \in ChanceEdges
        BY <2>3, <3>1 DEF ChanceEdges
      <3> QED  BY <2>1, <3>2, MadeByChance
    <2>4. CASE m[2] \in Others
      <3>1. relationships' = relationships
        BY <1>k, <2>1, <2>4, KeysDiffer DEF hasKey
      <3> QED  BY <3>1, MadeByChance
    <2> QED  BY <2>2, <2>3, <2>4, DirectoryAssumption DEF Objects
  <1>6. ASSUME NEW a \in RoleAssignments, RelateRole(a)  PROVE NothingInvented'
    <2>1. relationships' \subseteq relationships \cup {Edge(a[1], a[2], "azure_ad_role_definition")}
      BY <1>6 DEF RelateRole
    <2>2. CASE a[1] \in Users \cup ServicePrincipals
      <3>1. relationships' \subseteq relationships \cup RelationshipsOf("ROLE_ASSIGNMENTS")
        BY <2>1, <2>2 DEF RelationshipsOf
      <3> QED  BY <3>1, DeclaredIsNotInvented
    <2>3. CASE a[1] \in Groups \cup Devices
      BY <2>1, <2>3, MadeByChance DEF ChanceEdges
    <2> QED  BY <2>2, <2>3, DirectoryAssumption DEF Objects
  <1>7. ASSUME NEW a \in AppRoleAssignments, RelatePrincipal(a)  PROVE NothingInvented'
    <2>1. relationships' \subseteq relationships \cup RelationshipsOf("SERVICE_PRINCIPAL_ACCESS")
      BY <1>7 DEF RelatePrincipal, RelationshipsOf
    <2> QED  BY <2>1, DeclaredIsNotInvented
  <1>8. ASSUME NEW x, AddDomain(x) \/ AddServicePrincipal(x) \/ AddRoleDefinition(x)
        PROVE  NothingInvented'
    BY <1>8, MadeByChance DEF AddDomain, AddServicePrincipal, AddRoleDefinition
  <1> QED  BY <1>1, <1>2, <1>3, <1>4, <1>5, <1>6, <1>7, <1>8 DEF Handle

\* Whatever the steps lose, and in every order of them, the job state relates nothing that the
\* directory does not: each relationship is one that a step declares, or one of the few that
\* are made when the step which adds an end happened to be faster.
THEOREM NothingIsInvented == Spec => []NothingInvented
  <1>1. Init => NothingInvented
    BY DEF Init, NothingInvented
  <1>2. Typed /\ NothingInvented /\ [Next]_vars => NothingInvented'
    <2> SUFFICES ASSUME Typed, NothingInvented, [Next]_vars, ~Handle
                 PROVE  NothingInvented'
      BY HandleInventsNothing
    <2>1. UNCHANGED relationships
      BY DEF Next, Progress, Failure, RunOver, FetchAccount, Add, FetchUserRegistrationDetails,
         Begin, Finish, LoseItems, Throw, vars, store
    <2> QED  BY <2>1, MadeByChance
  <1> QED  BY <1>1, <1>2, AlwaysTyped, PTL DEF Spec
-----------------------------------------------------------------------------
(* EveryDeclaredEdge.                                                      *)

Delivers == Typed /\ Sound /\ InputsSettled /\ Handled

\* What a step looks up was added by steps that it depends on, and these look up nothing.
LEMMA LookedUp ==
    /\ \A s \in Steps : LooksUp(s) \subseteq DependsOn[s] /\ \A d \in LooksUp(s) : LooksUp(d) = {}
    /\ LooksUp("ACCOUNT_HAS_DOMAIN") = {"DOMAINS", "ACCOUNT"}
    /\ LooksUp("DEVICES") = {"USERS"}
    /\ LooksUp("GROUP_MEMBERS") = {"GROUPS", "USERS"}
    /\ LooksUp("ROLE_ASSIGNMENTS") = {"ROLE_DEFINITIONS", "USERS", "SERVICE_PRINCIPALS"}
    /\ LooksUp("SERVICE_PRINCIPAL_ACCESS") = {"GROUPS", "USERS", "SERVICE_PRINCIPALS"}
  <1>1. /\ DOMAIN TenantDependencies = {"ACCOUNT", "DOMAINS", "ACCOUNT_HAS_DOMAIN"}
        /\ TenantDependencies["ACCOUNT_HAS_DOMAIN"] = {"DOMAINS", "ACCOUNT"}
    BY DEF TenantDependencies
  <1>2. /\ DOMAIN ObjectDependencies = {"USER_REGISTRATION_DETAILS", "USERS", "DEVICES",
                                        "GROUPS", "SERVICE_PRINCIPALS", "ROLE_DEFINITIONS"}
        /\ ObjectDependencies["DEVICES"] = {"USERS"}
    BY DEF ObjectDependencies
  <1>3. /\ DOMAIN MemberDependencies = {"GROUP_MEMBERS", "ROLE_ASSIGNMENTS",
                                        "SERVICE_PRINCIPAL_ACCESS"}
        /\ MemberDependencies["GROUP_MEMBERS"] = {"GROUPS", "USERS"}
        /\ MemberDependencies["ROLE_ASSIGNMENTS"]
              = {"ROLE_DEFINITIONS", "USERS", "SERVICE_PRINCIPALS"}
        /\ MemberDependencies["SERVICE_PRINCIPAL_ACCESS"]
              = {"GROUPS", "USERS", "SERVICE_PRINCIPALS"}
    BY DEF MemberDependencies
  <1>4. /\ {"DOMAINS", "ACCOUNT"} \subseteq DependsOn["ACCOUNT_HAS_DOMAIN"]
        /\ "USERS" \in DependsOn["DEVICES"]
        /\ {"GROUPS", "USERS"} \subseteq DependsOn["GROUP_MEMBERS"]
        /\ {"ROLE_DEFINITIONS", "USERS", "SERVICE_PRINCIPALS"} \subseteq DependsOn["ROLE_ASSIGNMENTS"]
        /\ {"GROUPS", "USERS", "SERVICE_PRINCIPALS"} \subseteq DependsOn["SERVICE_PRINCIPAL_ACCESS"]
    BY <1>1, <1>2, <1>3, StepsAssumption DEF DirectoryStepIds, DirectoryDependsOn
  <1> QED  BY <1>4 DEF LooksUp

\* A step that has settled unharmed has handled all its items.
LEMMA SettledHandled ==
    ASSUME Delivers, NEW w \in Work, Unharmed(w[1]), status[w[1]] \in Settled
    PROVE  IsIn(w[1], w[2])
  <1>1. w[1] \in Steps /\ status[w[1]] # "running" /\ status[w[1]] # "pending"
    BY StepNames DEF Work, Settled
  <1>2. ~Awaits(w[1], w[2])
    BY <1>1 DEF Awaits, Delivers, Typed, TypeOK
  <1> QED  BY <1>2 DEF Delivers, Handled

\* What a step that is not harmed looks up is there when it runs or can start.
LEMMA SuppliesAreThere ==
    ASSUME Delivers, NEW s \in Steps, Unharmed(s), status[s] # "pending" \/ Ready(s)
    PROVE  /\ \A d \in LooksUp(s) : status[d] \in Settled
           /\ "DOMAINS" \in LooksUp(s) => Domains \subseteq entities
           /\ "USERS" \in LooksUp(s) => Users \subseteq entities
           /\ "GROUPS" \in LooksUp(s) => Groups \subseteq entities
           /\ "SERVICE_PRINCIPALS" \in LooksUp(s) => ServicePrincipals \subseteq entities
           /\ "ROLE_DEFINITIONS" \in LooksUp(s) => Roles \subseteq entities
  <1>1. \A d \in LooksUp(s) : status[d] \in Settled
    <2> SUFFICES ASSUME NEW d \in LooksUp(s)  PROVE status[d] \in Settled
      OBVIOUS
    <2>1. d \in DependsOn[s] /\ d \in Ancestors[s]
      BY AncestorsAssumption, LookedUp
    <2> QED  BY <2>1 DEF Delivers, InputsSettled, Ready
  <1>2. \A d \in LooksUp(s) : Unharmed(d)
    BY LookedUp DEF Unharmed
  <1>3. ASSUME NEW d \in Adders \cap LooksUp(s), NEW x, <<d, x>> \in Work
        PROVE  x \in entities
    BY <1>1, <1>2, <1>3, SettledHandled DEF IsIn, hasKey
  <1> QED  BY <1>1, <1>3 DEF Work, Adders

\* What is in the job state stays there.
LEMMA StaysIn ==
    ASSUME entities \subseteq entities', relationships \subseteq relationships',
           NEW w \in Work, IsIn(w[1], w[2])
    PROVE  IsIn(w[1], w[2])'
  BY DEF IsIn, hasKey

\* A callback of a step that is not harmed adds all that its item brings, as nothing is missing
\* that it looks up.
LEMMA HandleDelivers ==
    ASSUME Delivers, Handle
    PROVE  \E w \in Work : /\ Take(w[1], w[2])
                           /\ entities \subseteq entities' /\ relationships \subseteq relationships'
                           /\ Unharmed(w[1]) => IsIn(w[1], w[2])'
  <1> SUFFICES ASSUME \A w \in Work :
                         ~(/\ Take(w[1], w[2])
                           /\ entities \subseteq entities' /\ relationships \subseteq relationships'
                           /\ Unharmed(w[1]) => IsIn(w[1], w[2])')
               PROVE  FALSE
    OBVIOUS
  <1> USE StepNames DEF Take, Add, IsIn, Adders, hasKey
  <1>1. ASSUME NEW d \in Domains, AddDomain(d)  PROVE FALSE
    BY <1>1, <<"DOMAINS", d>> \in Work DEF AddDomain, Work
  <1>2. ASSUME NEW d \in VerifiedDomains, RelateDomain(d)  PROVE FALSE
    <2>1. /\ Take("ACCOUNT_HAS_DOMAIN", d)
          /\ Add({}, IF hasKey(d) THEN {Edge("account", d, "azure_domain")} ELSE {})
      BY <1>2 DEF RelateDomain
    <2>2. Unharmed("ACCOUNT_HAS_DOMAIN") /\ d \in Domains => hasKey(d)
      BY <2>1, LookedUp, SuppliesAreThere
    <2>3. Unharmed("ACCOUNT_HAS_DOMAIN") => IsIn("ACCOUNT_HAS_DOMAIN", d)'
      BY <2>1, <2>2
    <2>4. entities \subseteq entities' /\ relationships \subseteq relationships'
      BY <2>1
    <2> QED  BY <2>1, <2>3, <2>4, <<"ACCOUNT_HAS_DOMAIN", d>> \in Work DEF Work
  <1>3. ASSUME NEW u \in Users, AddUser(u)  PROVE FALSE
    BY <1>3, <<"USERS", u>> \in Work DEF AddUser, Work
  <1>4. ASSUME NEW d \in Devices, AddDevice(d)  PROVE FALSE
    BY <1>4, LookedUp, SuppliesAreThere,
       <<"DEVICES", d>> \in Work DEF AddDevice, Work
  <1>5. ASSUME NEW g \in Groups, AddGroup(g)  PROVE FALSE
    BY <1>5, <<"GROUPS", g>> \in Work DEF AddGroup, Work
  <1>6. ASSUME NEW m \in GroupMembers, RelateGroupMember(m)  PROVE FALSE
    BY <1>6, LookedUp, SuppliesAreThere,
       <<"GROUP_MEMBERS", m>> \in Work DEF RelateGroupMember, Work
  <1>7. ASSUME NEW p \in ServicePrincipals, AddServicePrincipal(p)  PROVE FALSE
    BY <1>7, <<"SERVICE_PRINCIPALS", p>> \in Work DEF AddServicePrincipal, Work
  <1>8. ASSUME NEW r \in Roles, AddRoleDefinition(r)  PROVE FALSE
    BY <1>8, <<"ROLE_DEFINITIONS", r>> \in Work DEF AddRoleDefinition, Work
  <1>9. ASSUME NEW a \in RoleAssignments, RelateRole(a)  PROVE FALSE
    BY <1>9, LookedUp, SuppliesAreThere, DirectoryAssumption,
       <<"ROLE_ASSIGNMENTS", a>> \in Work DEF RelateRole, Work
  <1>10. ASSUME NEW a \in AppRoleAssignments, RelatePrincipal(a)  PROVE FALSE
    <2>1. /\ Take("SERVICE_PRINCIPAL_ACCESS", a)
          /\ Add({}, IF hasKey(a[2]) THEN {PrincipalEdge(a)} \ relationships ELSE {})
      BY <1>10 DEF RelatePrincipal
    <2>2. a[2] \in Users \cup Groups \cup ServicePrincipals
      BY DirectoryAssumption DEF Objects
    <2>3. Unharmed("SERVICE_PRINCIPAL_ACCESS") => hasKey(a[2])
      BY <2>1, <2>2, LookedUp, SuppliesAreThere
    <2>4. Unharmed("SERVICE_PRINCIPAL_ACCESS") => PrincipalEdge(a) \in relationships'
      BY <2>1, <2>3
    <2> QED  BY <2>1, <2>4, <<"SERVICE_PRINCIPAL_ACCESS", a>> \in Work DEF Work
  <1> QED
    BY <1>1, <1>2, <1>3, <1>4, <1>5, <1>6, <1>7, <1>8, <1>9, <1>10 DEF Handle

\* A callback leaves no item unhandled.
LEMMA CallbackKeepsHandled ==
    ASSUME Delivers, Handle
    PROVE  Handled'
  <1>1. \E x, y : Take(x, y)
    BY DEF Handle, AddDomain, RelateDomain, AddUser, AddDevice, AddGroup, RelateGroupMember,
       AddServicePrincipal, AddRoleDefinition, RelateRole, RelatePrincipal
  <1>2. UNCHANGED <<status, accountDomains, incomplete>>
    BY <1>1 DEF Take, data
  <1>3. PICK w \in Work : /\ Take(w[1], w[2])
                          /\ entities \subseteq entities' /\ relationships \subseteq relationships'
                          /\ Unharmed(w[1]) => IsIn(w[1], w[2])'
    BY HandleDelivers
  <1>4. ASSUME NEW v \in Work, v # w, Awaits(v[1], v[2])
        PROVE  Awaits(v[1], v[2])'
    <2>1. v[1] # w[1] \/ v[2] # w[2]
      BY <1>4 DEF Work
    <2> QED  BY <1>2, <1>3, <1>4, <2>1, StepNames
             DEF Take, Awaits, Work, Delivers, Typed, Shape
  <1>5. \A s : Unharmed(s)' <=> Unharmed(s)
    BY <1>2 DEF Unharmed, LooksUp
  <1> QED  BY <1>2, <1>3, <1>4, <1>5, StaysIn DEF Delivers, Handled

\* A step that begins takes up all its items.
LEMMA BeginKeepsHandled ==
    ASSUME Delivers, NEW s \in Steps, Begin(s)
    PROVE  Handled'
  <1>1. /\ Ready(s) /\ status'[s] = "running"
        /\ UNCHANGED <<entities, relationships, accountDomains, incomplete>>
        /\ \A t \in Steps \ {s} : status'[t] = status[t] /\ todo'[t] = todo[t]
    BY DEF Begin, Start, store, Delivers, Typed, Shape, StatusOK
  <1>2. todo'[s] = Items(s)
    BY <1>1, BeginFindsAccount DEF Begin, Delivers, Sound, Shape
  <1>3. "ACCOUNT" \notin incomplete' /\ status'["ACCOUNT"] \in Settled
           => accountDomains' = VerifiedDomains
    BY <1>1, StepNames DEF Delivers, Handled, Settled
  <1>4. ASSUME NEW v \in Work, v[1] = s, Unharmed(s)
        PROVE  v[2] \in Items(s)
    <2>1. s = "ACCOUNT_HAS_DOMAIN" => hasKey("account") /\ accountDomains = VerifiedDomains
      BY <1>1, <1>4, SuppliesAreThere, LookedUp DEF Delivers, Sound, Inputs, Handled, Unharmed
    <2>2. s = "GROUP_MEMBERS" => Groups \subseteq entities
      BY <1>1, <1>4, SuppliesAreThere, LookedUp
    <2>3. s = "SERVICE_PRINCIPAL_ACCESS" => ServicePrincipals \subseteq entities
      BY <1>1, <1>4, SuppliesAreThere, LookedUp
    <2> QED  BY <1>4, <2>1, <2>2, <2>3, DirectoryAssumption DEF Work, Items, hasKey
  <1>5. ASSUME NEW v \in Work, v[1] # s, Unharmed(v[1])
        PROVE  Awaits(v[1], v[2])' \/ IsIn(v[1], v[2])'
    <2>1. Awaits(v[1], v[2])' <=> Awaits(v[1], v[2])
      BY <1>1, <1>5, StepNames DEF Awaits, Work
    <2> QED  BY <1>1, <1>5, <2>1, StaysIn DEF Delivers, Handled
  <1>6. \A t : Unharmed(t)' <=> Unharmed(t)
    BY <1>1 DEF Unharmed, LooksUp
  <1> QED  BY <1>2, <1>3, <1>4, <1>5, <1>6 DEF Awaits, Handled

\* A step that loses something harms itself and those that look up what it adds, no other.
LEMMA LossKeepsHandled ==
    ASSUME Delivers, NEW s \in Steps, LoseItems(s) \/ Throw(s)
    PROVE  Handled'
  <1>1. /\ incomplete' = incomplete \cup {s}
        /\ UNCHANGED <<entities, relationships, accountDomains>>
        /\ \A t \in Steps \ {s} : status'[t] = status[t] /\ todo'[t] = todo[t]
    BY DEF LoseItems, Throw, Settle, store, data, Delivers, Typed, Shape, StatusOK
  <1>2. \A t : Unharmed(t)' => Unharmed(t) /\ t # s
    BY <1>1 DEF Unharmed, LooksUp
  <1>3. ASSUME NEW v \in Work, Unharmed(v[1])'
        PROVE  Awaits(v[1], v[2])' \/ IsIn(v[1], v[2])'
    <2>1. Awaits(v[1], v[2])' <=> Awaits(v[1], v[2])
      BY <1>1, <1>2, <1>3, StepNames DEF Awaits, Work
    <2> QED  BY <1>1, <1>2, <1>3, <2>1, StaysIn DEF Delivers, Handled
  <1>4. "ACCOUNT" \notin incomplete' /\ status'["ACCOUNT"] \in Settled
           => accountDomains' = VerifiedDomains
    BY <1>1, StepNames DEF Delivers, Handled
  <1> QED  BY <1>3, <1>4 DEF Handled

\* Handled is inductive.
LEMMA StepKeepsHandled ==
    ASSUME Delivers, [Next]_vars
    PROVE  Handled'
  <1>1. ASSUME entities \subseteq entities', relationships \subseteq relationships', todo' = todo,
               incomplete \subseteq incomplete',
               "ACCOUNT" \notin incomplete' /\ status'["ACCOUNT"] \in Settled
                  => accountDomains' = VerifiedDomains,
               \A t \in Steps : status[t] = "pending" => status'[t] = "pending"
        PROVE  Handled'
    <2>1. ASSUME NEW w \in Work, Awaits(w[1], w[2])
          PROVE  Awaits(w[1], w[2])'
      BY <1>1, <2>1, StepNames DEF Work, Awaits
    <2>2. \A t : Unharmed(t)' => Unharmed(t)
      BY <1>1 DEF Unharmed, LooksUp
    <2> QED  BY <1>1, <2>1, <2>2, StaysIn DEF Delivers, Handled
  <1>2. CASE FetchAccount
    <2>1. /\ todo' = todo /\ \A t \in Steps : status[t] = "pending" => status'[t] = "pending"
          /\ entities \subseteq entities' /\ relationships \subseteq relationships'
      BY <1>2, StepNames DEF FetchAccount, Settle, Add, Delivers, Typed, Shape, StatusOK
    <2>2. incomplete \subseteq incomplete' /\ ("ACCOUNT" \notin incomplete' => accountDomains' = VerifiedDomains)
      BY <1>2 DEF FetchAccount
    <2> QED  BY <1>1, <2>1, <2>2
  <1>3. CASE FetchUserRegistrationDetails
    <2>1. /\ UNCHANGED <<entities, relationships, todo, accountDomains>>
          /\ incomplete \subseteq incomplete' /\ status'["ACCOUNT"] = status["ACCOUNT"]
          /\ \A t \in Steps : status[t] = "pending" => status'[t] = "pending"
      BY <1>3, StepNames
      DEF FetchUserRegistrationDetails, Settle, store, Delivers, Typed, Shape, StatusOK
    <2> QED  BY <1>1, <2>1 DEF Delivers, Handled
  <1>4. CASE Handle
    BY <1>4, CallbackKeepsHandled
  <1>5. ASSUME NEW s \in Steps, Begin(s)  PROVE Handled'
    BY <1>5, BeginKeepsHandled
  <1>6. ASSUME NEW s \in Steps, Finish(s)  PROVE Handled'
    <2>1. /\ UNCHANGED <<entities, relationships, todo, accountDomains, incomplete>>
          /\ status'["ACCOUNT"] = status["ACCOUNT"]
          /\ \A t \in Steps : status[t] = "pending" => status'[t] = "pending"
      BY <1>6, StepNames DEF Finish, Listing, Settle, store, data, Delivers, Typed, Shape, StatusOK
    <2> QED  BY <1>1, <2>1 DEF Delivers, Handled
  <1>7. ASSUME NEW s \in Steps, LoseItems(s) \/ Throw(s)  PROVE Handled'
    BY <1>7, LossKeepsHandled
  <1>8. CASE UNCHANGED vars
    BY <1>1, <1>8 DEF vars, store, data, Delivers, Handled
  <1> QED
    BY <1>2, <1>3, <1>4, <1>5, <1>6, <1>7, <1>8 DEF Next, Progress, Failure, RunOver

\* Every relationship that a step declares belongs to an item of the step that brings it.
LEMMA DeclaredAreBrought ==
    ASSUME NEW s \in Steps, \A w \in Work : w[1] = s => IsIn(w[1], w[2])
    PROVE  RelationshipsOf(s) \subseteq relationships
  <1> USE DEF IsIn
  <1>1. ASSUME s = "ACCOUNT_HAS_DOMAIN", NEW d \in VerifiedDomains \cap Domains
        PROVE  Edge("account", d, "azure_domain") \in relationships
    BY <1>1, <<"ACCOUNT_HAS_DOMAIN", d>> \in Work DEF Work
  <1>2. ASSUME s = "USERS", NEW u \in Users
        PROVE  Edge("account", u, "azure_user") \in relationships
    BY <1>2, <<"USERS", u>> \in Work DEF Work
  <1>3. ASSUME s = "GROUPS", NEW g \in Groups
        PROVE  Edge("account", g, "azure_user_group") \in relationships
    BY <1>3, <<"GROUPS", g>> \in Work DEF Work
  <1>4. ASSUME s = "DEVICES", NEW x \in RegisteredUsers
        PROVE  Edge(x[2], x[1], "azure_device") \in relationships
    <2>1. x = <<x[1], x[2]>> /\ x[1] \in Devices /\ x[2] \in Users
      BY DirectoryAssumption
    <2> QED  BY <1>4, <2>1, <<"DEVICES", x[1]>> \in Work DEF Work
  <1>5. ASSUME s = "GROUP_MEMBERS", NEW m \in GroupMembers, m[2] \in Users \cup Groups
        PROVE  Edge(m[1], m[2], MemberType(m[2])) \in relationships
    BY <1>5, <<"GROUP_MEMBERS", m>> \in Work DEF Work
  <1>6. ASSUME s = "ROLE_ASSIGNMENTS", NEW a \in RoleAssignments,
               a[1] \in Users \cup ServicePrincipals
        PROVE  Edge(a[1], a[2], "azure_ad_role_definition") \in relationships
    BY <1>6, <<"ROLE_ASSIGNMENTS", a>> \in Work DEF Work
  <1>7. ASSUME s = "SERVICE_PRINCIPAL_ACCESS", NEW a \in AppRoleAssignments
        PROVE  PrincipalEdge(a) \in relationships
    BY <1>7, <<"SERVICE_PRINCIPAL_ACCESS", a>> \in Work DEF Work
  <1> QED  BY <1>1, <1>2, <1>3, <1>4, <1>5, <1>6, <1>7 DEF RelationshipsOf

\* So does every entity, but for the account.
LEMMA EntitiesAreBrought ==
    ASSUME NEW s \in Steps \ {"ACCOUNT"}, \A w \in Work : w[1] = s => IsIn(w[1], w[2])
    PROVE  EntitiesOf(s) \subseteq entities
  <1>1. ASSUME NEW x \in EntitiesOf(s)
        PROVE  s \in Adders /\ <<s, x>> \in Work
    BY <1>1, StepNames DEF EntitiesOf, Work, Adders
  <1> QED  BY <1>1 DEF IsIn, hasKey

\* Whatever the order of the steps and whatever others lose, a step that is not harmed ends with
\* every entity and every relationship it declares: what a callback looks up was added by a step
\* that had settled.
THEOREM EveryEdgeIsDelivered == Spec => []EveryDeclaredEdge
  <1>1. Init => Handled
    BY StepNames DEF Init, SchedulerInit, Handled, Awaits, Work, Settled
  <1>2. Typed /\ Sound /\ InputsSettled /\ Handled /\ [Next]_vars => Handled'
    BY StepKeepsHandled DEF Delivers
  <1>3. Typed /\ Sound /\ InputsSettled /\ Handled /\ NothingInvented => EveryDeclaredEdge
    <2> SUFFICES ASSUME Delivers, AllSettled, NEW s \in Steps, Unharmed(s)
                 PROVE  EntitiesOf(s) \subseteq entities /\ RelationshipsOf(s) \subseteq relationships
      BY DEF Delivers, EveryDeclaredEdge, NothingInvented
    <2>1. \A w \in Work : w[1] = s => IsIn(w[1], w[2])
      BY SettledHandled DEF AllSettled
    <2>2. CASE s = "ACCOUNT"
      BY <2>2, StepNames DEF AllSettled, Delivers, Sound, Inputs, hasKey, EntitiesOf, RelationshipsOf
    <2>3. CASE s # "ACCOUNT"
      BY <2>1, <2>3, DeclaredAreBrought, EntitiesAreBrought
    <2> QED  BY <2>2, <2>3
  <1> QED
    BY <1>1, <1>2, <1>3, NothingIsInvented, AlwaysTyped, AlwaysSound, DirectoryInputsSettled, PTL
    DEF Spec
==============================================================================
