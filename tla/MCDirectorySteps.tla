-------------------------- MODULE MCDirectorySteps --------------------------
(***************************************************************************)
(* A small tenant for TLC: one object of each kind, two groups one of which*)
(* is a member of the other, a group that every kind of object belongs to. *)
(***************************************************************************)
EXTENDS DirectorySteps

MCUsers == {"user"}
MCGroups == {"group", "nested"}
MCDevices == {"device"}
MCServicePrincipals == {"app"}
MCRoles == {"role"}
MCDomains == {"a.com"}
\* b.com is verified but not listed.
MCVerifiedDomains == {"a.com", "b.com"}
MCRegisteredUsers == {<<"device", "user">>}
MCOthers == {"contact"}
MCGroupMembers == {<<"group", m>> : m \in {"user", "nested", "device", "app", "contact"}}
\* The app has the role for the whole directory and for one unit of it.
MCRoleAssignments ==
    ({"user", "group", "app"} \X MCRoles \X {"/"}) \cup {<<"app", "role", "unit">>}
MCAppRoleAssignments == {<<"app", "user", 1>>, <<"app", "user", 2>>, <<"app", "group", 1>>}

\* A smaller one, for the runs in which a step loses items or throws.
MCNoNested == {"group"}
MCFewMembers == {<<"group", m>> : m \in {"user", "device"}}
MCFewRoleAssignments == {"group", "app"} \X MCRoles \X {"/"}
MCFewAppRoleAssignments == {<<"app", "user", 1>>}

MCAncestors[s \in DirectoryStepIds] ==
    UNION {{d} \cup MCAncestors[d] : d \in DirectoryDependsOn[s]}
=============================================================================
