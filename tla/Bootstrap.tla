------------------------------ MODULE Bootstrap ------------------------------
(***************************************************************************)
(* What a process does with the database before it listens: it creates the *)
(* database (config/db.ts), the role ADMIN, the administrator and the      *)
(* permissions of that role (utils/bootstrapAdmin.ts).  Every step looks   *)
(* first and inserts afterwards, without a transaction around the two, and *)
(* several replicas may start together.  A process that fails exits and is *)
(* started again (restart: always).                                        *)
(*                                                                         *)
(* The names of its specification begin with B: ServerProcessProofs        *)
(* extends this module beside ServerProcess, of which it details a step.   *)
(***************************************************************************)
EXTENDS Naturals, FiniteSets

CONSTANTS
    Replicas,      \* processes of the application on one database
    N,             \* length of permissionsToGrant
    MaxFailures    \* bound on failing queries and killed processes

ASSUME ConstantsAssumption == N \in Nat \ {0} /\ MaxFailures \in Nat

VARIABLES
    database,      \* whether the database exists
    adminRole,     \* whether the role ADMIN exists; roles.name is unique
    admin,         \* the user with the email of the administrator, a unique column
    permissions,   \* the table permissions: <<its place in permissionsToGrant, id>>
    grants,        \* the ids of the permissions that role_permissions gives to ADMIN
    pc,            \* the await a process is at
    next,          \* the place in permissionsToGrant it has got to
    row,           \* the id of the permission it looked up or created, or 0
    failures,
    broken         \* history: what a bootstrap has broken off in the middle of

tables == <<database, adminRole, admin, permissions, grants>>
bvars == <<tables, pc, next, row, failures, broken>>

Granting == {"findPermission", "savePermission", "findGrant", "saveGrant"}
Starting == {"createDatabase", "findRole", "createRole", "saveRole", "findUser",
             "createUser", "assign", "checkPermissions"} \cup Granting

BTypeOK ==
    /\ database \in BOOLEAN
    /\ adminRole \in BOOLEAN
    /\ admin \in {"none", "plain", "ADMIN"}
    /\ permissions \subseteq (1..N) \X (Nat \ {0})
    /\ grants \subseteq {p[2] : p \in permissions}
    /\ pc \in [Replicas -> {"down", "listening"} \cup Starting]
    /\ next \in [Replicas -> 1..N]
    /\ row \in [Replicas -> Nat]
    /\ failures \in 0..MaxFailures
    /\ broken \subseteq {"administrator", "permissions"}

BInit ==
    /\ database \in BOOLEAN
    /\ adminRole = FALSE
    /\ admin = "none"
    /\ permissions = {}
    /\ grants = {}
    /\ pc = [r \in Replicas |-> "down"]
    /\ next = [r \in Replicas |-> 1]
    /\ row = [r \in Replicas |-> 0]
    /\ failures = 0
    /\ broken = {}

Goto(r, at) == pc' = [pc EXCEPT ![r] = at]
Idle(r) == UNCHANGED <<next, row, failures, broken>>

\* process.exit(1), and the process is gone with all its variables.
GiveUp(r) ==
    /\ pc' = [pc EXCEPT ![r] = "down"]
    /\ next' = [next EXCEPT ![r] = 1]
    /\ row' = [row EXCEPT ![r] = 0]
    /\ broken' = broken \cup (IF pc[r] = "assign" THEN {"administrator"} ELSE {})
                        \cup (IF pc[r] \in Granting THEN {"permissions"} ELSE {})

\* The statement of r is refused because of what another process has inserted.
Refused(r) == GiveUp(r) /\ UNCHANGED <<tables, failures>>

-----------------------------------------------------------------------------
(* initializeDatabase                                                      *)

Begin(r) ==
    /\ pc[r] = "down"
    /\ Goto(r, IF database THEN "findRole" ELSE "createDatabase")
    /\ UNCHANGED tables /\ Idle(r)

CreateDatabase(r) ==
    /\ pc[r] = "createDatabase"
    /\ IF database
       THEN Refused(r)
       ELSE /\ database' = TRUE
            /\ Goto(r, "findRole")
            /\ UNCHANGED <<adminRole, admin, permissions, grants>> /\ Idle(r)

-----------------------------------------------------------------------------
(* bootstrapAdminUser: the role and the user                               *)

FindRole(r) ==
    /\ pc[r] = "findRole"
    /\ Goto(r, IF adminRole THEN "findUser" ELSE "createRole")
    /\ UNCHANGED tables /\ Idle(r)

\* createRole looks again, and refuses a role that is there.
CreateRole(r) ==
    /\ pc[r] = "createRole"
    /\ IF adminRole
       THEN Refused(r)
       ELSE Goto(r, "saveRole") /\ UNCHANGED tables /\ Idle(r)

SaveRole(r) ==
    /\ pc[r] = "saveRole"
    /\ IF adminRole
       THEN Refused(r)
       ELSE /\ adminRole' = TRUE
            /\ Goto(r, "findUser")
            /\ UNCHANGED <<database, admin, permissions, grants>> /\ Idle(r)

\* Mutant of FindUser: it finds nobody.
FindNobody(r) ==
    /\ pc[r] = "findUser"
    /\ Goto(r, "createUser")
    /\ UNCHANGED tables /\ Idle(r)

\* checkAdminUserByEmail asks for the email, not for the role.
FindUser(r) ==
    /\ pc[r] = "findUser"
    /\ Goto(r, IF admin = "none" THEN "createUser" ELSE "checkPermissions")
    /\ UNCHANGED tables /\ Idle(r)

\* Mutant of CreateUser: the role is not assigned.
CreateUserOnly(r) ==
    /\ pc[r] = "createUser"
    /\ IF admin # "none"
       THEN Refused(r)
       ELSE /\ admin' = "plain"
            /\ Goto(r, "checkPermissions")
            /\ UNCHANGED <<database, adminRole, permissions, grants>> /\ Idle(r)

CreateUser(r) ==
    /\ pc[r] = "createUser"
    /\ IF admin # "none"
       THEN Refused(r)
       ELSE /\ admin' = "plain"
            /\ Goto(r, "assign")
            /\ UNCHANGED <<database, adminRole, permissions, grants>> /\ Idle(r)

\* What is verified afterwards is only logged.
AssignRole(r) ==
    /\ pc[r] = "assign"
    /\ admin' = "ADMIN"
    /\ Goto(r, "checkPermissions")
    /\ UNCHANGED <<database, adminRole, permissions, grants>> /\ Idle(r)
-----------------------------------------------------------------------------
(* bootstrapAdminUser: the permissions                                     *)

\* Mutant of CheckPermissions: getRolePermissions has found the role.
CheckRoleOnly(r) ==
    /\ pc[r] = "checkPermissions"
    /\ Goto(r, IF adminRole THEN "listening" ELSE "findPermission")
    /\ UNCHANGED tables /\ Idle(r)

\* Any permission will do.
CheckPermissions(r) ==
    /\ pc[r] = "checkPermissions"
    /\ Goto(r, IF grants # {} THEN "listening" ELSE "findPermission")
    /\ UNCHANGED tables /\ Idle(r)

\* findOrCreatePermissionInternal; one of several rows may be found.
FindPermission(r) ==
    /\ pc[r] = "findPermission"
    /\ LET found == {p \in permissions : p[1] = next[r]}
       IN  IF found = {}
           THEN Goto(r, "savePermission") /\ UNCHANGED row
           ELSE /\ \E p \in found : row' = [row EXCEPT ![r] = p[2]]
                /\ Goto(r, "findGrant")
    /\ UNCHANGED <<tables, next, failures, broken>>

\* Nothing keeps two processes from inserting the same permission.  No row is ever
\* deleted, so the ids are 1, 2, ...
SavePermission(r) ==
    /\ pc[r] = "savePermission"
    /\ LET id == Cardinality(permissions) + 1
       IN  /\ permissions' = permissions \cup {<<next[r], id>>}
           /\ row' = [row EXCEPT ![r] = id]
    /\ Goto(r, "findGrant")
    /\ UNCHANGED <<database, adminRole, admin, grants, next, failures, broken>>

\* Mutant of Advance: the loop takes one turn too many.
AdvanceTooFar(r) ==
    /\ Goto(r, IF next[r] <= N THEN "findPermission" ELSE "listening")
    /\ next' = [next EXCEPT ![r] = IF next[r] <= N THEN @ + 1 ELSE 1]
    /\ row' = [row EXCEPT ![r] = 0]

\* The next turn of the loop, or the end of the bootstrap and app.listen.
Advance(r) ==
    /\ Goto(r, IF next[r] < N THEN "findPermission" ELSE "listening")
    /\ next' = [next EXCEPT ![r] = IF next[r] < N THEN @ + 1 ELSE 1]
    /\ row' = [row EXCEPT ![r] = 0]

\* grantPermissionToRole
FindGrant(r) ==
    /\ pc[r] = "findGrant"
    /\ IF row[r] \in grants
       THEN Advance(r)
       ELSE Goto(r, "saveGrant") /\ UNCHANGED <<next, row>>
    /\ UNCHANGED <<tables, failures, broken>>

\* A second row for the same permission makes no difference here.
SaveGrant(r) ==
    /\ pc[r] = "saveGrant"
    /\ grants' = grants \cup {row[r]}
    /\ Advance(r)
    /\ UNCHANGED <<database, adminRole, admin, permissions, failures, broken>>

-----------------------------------------------------------------------------
\* Mutant of QueryFails: bootstrapAdminUser does not throw the error again.
QueryFailsQuietly(r) ==
    /\ pc[r] \in Starting
    /\ failures < MaxFailures /\ failures' = failures + 1
    /\ CASE pc[r] = "createDatabase" -> GiveUp(r)
         [] pc[r] \in Granting -> Advance(r) /\ broken' = broken \cup {"permissions"}
         [] OTHER -> Goto(r, "listening") /\ UNCHANGED <<next, row, broken>>
    /\ UNCHANGED tables

\* A query fails.  The two checks answer "no", a permission is passed over, and
\* everything else makes the process exit.
QueryFails(r) ==
    /\ pc[r] \in Starting
    /\ failures < MaxFailures /\ failures' = failures + 1
    /\ CASE pc[r] = "findUser" -> Goto(r, "createUser") /\ UNCHANGED <<next, row, broken>>
         [] pc[r] = "checkPermissions" ->
                Goto(r, "findPermission") /\ UNCHANGED <<next, row, broken>>
         [] pc[r] \in Granting -> Advance(r) /\ broken' = broken \cup {"permissions"}
         [] OTHER -> GiveUp(r)
    /\ UNCHANGED tables

\* The process is killed or shut down, at any time.
Stops(r) ==
    /\ pc[r] # "down"
    /\ failures < MaxFailures /\ failures' = failures + 1
    /\ GiveUp(r)
    /\ UNCHANGED tables

Step(r) ==
    \/ Begin(r) \/ CreateDatabase(r)
    \/ FindRole(r) \/ CreateRole(r) \/ SaveRole(r)
    \/ FindUser(r) \/ CreateUser(r) \/ AssignRole(r)
    \/ CheckPermissions(r) \/ FindPermission(r) \/ SavePermission(r)
    \/ FindGrant(r) \/ SaveGrant(r)

BNext == \E r \in Replicas : Step(r) \/ QueryFails(r) \/ Stops(r)

BSpec == BInit /\ [][BNext]_bvars

\* Queries are answered, and a process that exits is started again.
BFairSpec == BSpec /\ \A r \in Replicas : WF_bvars(Step(r))
-----------------------------------------------------------------------------
(* Properties                                                              *)

\* No process serves requests without the role ADMIN and the administrator's
\* row, whatever the processes that started with it did or failed to do.
ListensWithAdmin ==
    (\E r \in Replicas : pc[r] = "listening") => adminRole /\ admin # "none"

\* The administrator gets the role ADMIN, and the role every permission of the list,
\* unless a bootstrap broke off between creating the user and assigning the role, or
\* while granting: no later one makes up for that.
AdminIsSetUp ==
    <>(/\ admin = "ADMIN" \/ "administrator" \in broken
       /\ \/ \A i \in 1..N : \E p \in permissions : p[1] = i /\ p[2] \in grants
          \/ "permissions" \in broken)

\* Processes that start together make each other fail, but not for ever: each
\* of them listens in the end.
EveryReplicaListens == \A r \in Replicas : <>[](pc[r] = "listening")
=============================================================================
