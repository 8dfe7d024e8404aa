----------------------------- MODULE UserRecords -----------------------------
(***************************************************************************)
(* The rows of users and user_roles under concurrent requests: UserService *)
(* (updateProfile, changePassword, deactivateUser), resetPassword of       *)
(* AuthService, and UserRoleService (assignRole, removeRole).              *)
(*                                                                         *)
(* Each handler loads an entity, works on it over several awaits and hands *)
(* it to TypeORM's save.  save reads the row again, works out which of its *)
(* columns and rows differ from the entity, and then writes those, all in  *)
(* one transaction: so it writes back whatever is stale in the entity.     *)
(* With the relation userRoles loaded, it inserts the user_roles rows that *)
(* only the entity has (cascade) and clears user_id in those that only the *)
(* table has, which the NOT NULL column refuses.                           *)
(***************************************************************************)
EXTENDS Naturals, FiniteSets

CONSTANTS
    Users,       \* rows of users: no code deletes one
    RoleNames,   \* rows of roles, by their unique name: none is ever deleted
    Admin,       \* the role ADMIN
    Passwords,   \* whose hashes the password column may hold
    Profiles,    \* values of firstName and lastName together
    Slots,       \* requests that may be in flight together
    MaxIds,      \* bound on the ids drawn from the sequence of user_roles
    NoUser       \* a request about no user

ASSUME ConstantsAssumption ==
    /\ Admin \in RoleNames
    /\ MaxIds \in Nat
    /\ NoUser \notin Users

Row == [active : BOOLEAN, password : Passwords, profile : Profiles]
Columns == {"active", "password", "profile"}
Grant == [id : 1..MaxIds, user : Users, role : RoleNames]

VARIABLES
    users,     \* the table users
    grants,    \* the table user_roles
    nextId,    \* the sequence its ids come from
    pc,        \* the await a request is at, or its answer
    op,        \* the operation it runs
    who,       \* its user
    entity,    \* the user entity it loaded, with its own changes
    held,      \* the user_roles loaded with it, or the one removeRole found
    wanted,    \* what it was asked to write: passwords, a role
    dirty,     \* save: the columns to write
    added,     \* save: the user_roles to insert
    orphaned   \* save: the user_roles whose user_id to clear

tables == <<users, grants, nextId>>
reqVars == <<pc, op, who, entity, held, wanted, dirty, added, orphaned>>
vars == <<tables, reqVars>>

Ops == {"none", "updateProfile", "changePassword", "deactivateUser", "resetPassword",
        "assignRole", "removeRole"}
Points == {"idle", "compare", "hash", "findAdmin", "save", "write", "insert", "remove",
           "done", "refused", "failed"}

NoRow == [active |-> FALSE, password |-> "none", profile |-> "none"]

TypeOK ==
    /\ users \in [Users -> Row]
    /\ grants \subseteq Grant
    /\ nextId \in 1..(MaxIds + 1)
    /\ pc \in [Slots -> Points]
    /\ op \in [Slots -> Ops]
    /\ who \in [Slots -> Users \cup {NoUser}]
    /\ entity \in [Slots -> Row \cup {NoRow}]
    /\ held \in [Slots -> SUBSET Grant]
    /\ wanted \in [Slots -> Passwords \cup RoleNames \cup {"none"}]
    /\ dirty \in [Slots -> SUBSET Columns]
    /\ added \in [Slots -> SUBSET Grant]
    /\ orphaned \in [Slots -> SUBSET Grant]

Init ==
    /\ users \in [Users -> [active : {TRUE}, password : Passwords, profile : Profiles]]
    /\ grants = {}
    /\ nextId = 1
    /\ pc = [s \in Slots |-> "idle"]
    /\ op = [s \in Slots |-> "none"]
    /\ who = [s \in Slots |-> NoUser]
    /\ entity = [s \in Slots |-> NoRow]
    /\ held = [s \in Slots |-> {}]
    /\ wanted = [s \in Slots |-> "none"]
    /\ dirty = [s \in Slots |-> {}]
    /\ added = [s \in Slots |-> {}]
    /\ orphaned = [s \in Slots |-> {}]

GrantsOf(u) == {g \in grants : g.user = u}
HasRole(rows, name) == \E g \in rows : g.role = name

-----------------------------------------------------------------------------
(* A request arrives, and reads the tables for the first time.             *)

Arrive(s, name, u, row, rows, value, at) ==
    /\ pc[s] = "idle"
    /\ pc' = [pc EXCEPT ![s] = at]
    /\ op' = [op EXCEPT ![s] = name]
    /\ who' = [who EXCEPT ![s] = u]
    /\ entity' = [entity EXCEPT ![s] = row]
    /\ held' = [held EXCEPT ![s] = rows]
    /\ wanted' = [wanted EXCEPT ![s] = value]
    /\ UNCHANGED <<tables, dirty, added, orphaned>>

\* A request goes on to its next await or to its answer.
Goto(s, at) ==
    /\ pc' = [pc EXCEPT ![s] = at]
    /\ UNCHANGED <<op, who, held, wanted>>

\* The new values are put into the entity as soon as it is loaded.
UpdateProfile(s, u, profile) ==
    Arrive(s, "updateProfile", u, [users[u] EXCEPT !.profile = profile], GrantsOf(u),
           "none", "save")

ChangePassword(s, u, password) ==
    Arrive(s, "changePassword", u, users[u], GrantsOf(u), password, "compare")

DeactivateUser(s, u) ==
    Arrive(s, "deactivateUser", u, users[u], GrantsOf(u), "none",
           IF users[u].active THEN "findAdmin" ELSE "refused")

\* The reset token was found valid; the user is loaded without its roles.
ResetPassword(s, u, password) ==
    Arrive(s, "resetPassword", u, users[u], {}, password, "hash")

\* Mutant of AssignRole: the new row is created without its role.
AssignRoleNoRole(s, u, name) ==
    Arrive(s, "assignRole", u, NoRow, {}, "none",
           IF HasRole(GrantsOf(u), name) THEN "done" ELSE "insert")

\* The user, the role and an existing assignment are looked up.
AssignRole(s, u, name) ==
    Arrive(s, "assignRole", u, NoRow, {}, name,
           IF HasRole(GrantsOf(u), name) THEN "done" ELSE "insert")

RemoveRole(s, u, name) ==
    LET found == {g \in GrantsOf(u) : g.role = name} IN
    Arrive(s, "removeRole", u, NoRow, found, name,
           IF found = {} THEN "refused" ELSE "remove")

-----------------------------------------------------------------------------
(* What the handlers do between loading the entity and saving it           *)

\* bcrypt compares the current password given with the entity's.
Compare(s) ==
    /\ pc[s] = "compare"
    /\ \E right \in BOOLEAN : Goto(s, IF right THEN "hash" ELSE "refused")
    /\ UNCHANGED <<tables, entity, dirty, added, orphaned>>

Hash(s) ==
    /\ pc[s] = "hash"
    /\ entity' = [entity EXCEPT ![s].password = wanted[s]]
    /\ Goto(s, "save")
    /\ UNCHANGED <<tables, dirty, added, orphaned>>

FindAdmin(s) ==
    /\ pc[s] = "findAdmin"
    /\ IF HasRole(held[s], Admin)
       THEN Goto(s, "refused") /\ UNCHANGED entity
       ELSE /\ entity' = [entity EXCEPT ![s].active = FALSE]
            /\ Goto(s, "save")
    /\ UNCHANGED <<tables, dirty, added, orphaned>>

-----------------------------------------------------------------------------
(* userRepo.save(user)                                                     *)

\* Was the entity loaded with the relation userRoles?
RelationLoaded(s) == op[s] # "resetPassword"

\* save reads the row and its relations again and compares.
Reload(s) ==
    /\ pc[s] = "save"
    /\ LET row == users[who[s]] IN
        dirty' = [dirty EXCEPT ![s] = {c \in Columns : entity[s][c] # row[c]}]
    /\ added' = [added EXCEPT ![s] =
           IF RelationLoaded(s) THEN held[s] \ GrantsOf(who[s]) ELSE {}]
    /\ orphaned' = [orphaned EXCEPT ![s] =
           IF RelationLoaded(s) THEN GrantsOf(who[s]) \ held[s] ELSE {}]
    /\ Goto(s, "write")
    /\ UNCHANGED <<tables, entity>>

\* Mutant of CanInsert: there is no unique index on user and role.
CanInsertNoIndex(rows) == \A g \in rows, h \in grants : g.id # h.id

\* May these rows be inserted?  The primary key and the unique index on user
\* and role decide.
CanInsert(rows) ==
    \A g \in rows, h \in grants : g.id # h.id /\ ~(g.user = h.user /\ g.role = h.role)

\* The transaction commits all of it, or fails and changes nothing.
Write(s) ==
    /\ pc[s] = "write"
    /\ IF orphaned[s] \cap grants = {} /\ CanInsert(added[s])
       THEN /\ users' = [users EXCEPT ![who[s]] =
                   [c \in Columns |-> IF c \in dirty[s] THEN entity[s][c] ELSE @[c]]]
            /\ grants' = grants \cup added[s]
            /\ Goto(s, "done")
       ELSE /\ Goto(s, "failed")
            /\ UNCHANGED <<users, grants>>
    /\ UNCHANGED <<nextId, entity, dirty, added, orphaned>>

-----------------------------------------------------------------------------
(* user_roles                                                              *)

\* The sequence moves on even if the index refuses the row.
InsertGrant(s) ==
    /\ pc[s] = "insert"
    /\ nextId <= MaxIds
    /\ LET new == {[id |-> nextId, user |-> who[s], role |-> wanted[s]]} IN
        IF CanInsert(new)
        THEN grants' = grants \cup new /\ Goto(s, "done")
        ELSE Goto(s, "failed") /\ UNCHANGED grants
    /\ nextId' = nextId + 1
    /\ UNCHANGED <<users, entity, dirty, added, orphaned>>

\* Mutant of RemoveGrant: the DELETE names the role, but not the user.
RemoveGrantOfAll(s) ==
    /\ pc[s] = "remove"
    /\ grants' = {g \in grants : g.role # wanted[s]}
    /\ Goto(s, "done")
    /\ UNCHANGED <<users, nextId, entity, dirty, added, orphaned>>

\* DELETE by id; a row that is gone already is no error.
RemoveGrant(s) ==
    /\ pc[s] = "remove"
    /\ grants' = grants \ held[s]
    /\ Goto(s, "done")
    /\ UNCHANGED <<users, nextId, entity, dirty, added, orphaned>>

-----------------------------------------------------------------------------
\* The answer is sent, or the process stops and its requests are gone.
Forget(slots) ==
    /\ pc' = [s \in Slots |-> IF s \in slots THEN "idle" ELSE pc[s]]
    /\ op' = [s \in Slots |-> IF s \in slots THEN "none" ELSE op[s]]
    /\ who' = [s \in Slots |-> IF s \in slots THEN NoUser ELSE who[s]]
    /\ entity' = [s \in Slots |-> IF s \in slots THEN NoRow ELSE entity[s]]
    /\ held' = [s \in Slots |-> IF s \in slots THEN {} ELSE held[s]]
    /\ wanted' = [s \in Slots |-> IF s \in slots THEN "none" ELSE wanted[s]]
    /\ dirty' = [s \in Slots |-> IF s \in slots THEN {} ELSE dirty[s]]
    /\ added' = [s \in Slots |-> IF s \in slots THEN {} ELSE added[s]]
    /\ orphaned' = [s \in Slots |-> IF s \in slots THEN {} ELSE orphaned[s]]
    /\ UNCHANGED tables

Respond(s) == pc[s] \in {"done", "refused", "failed"} /\ Forget({s})
Crash == (\E s \in Slots : pc[s] # "idle") /\ Forget(Slots)

Request(s, u) ==
    \/ \E profile \in Profiles : UpdateProfile(s, u, profile)
    \/ \E password \in Passwords : ChangePassword(s, u, password) \/ ResetPassword(s, u, password)
    \/ DeactivateUser(s, u)
    \/ \E name \in RoleNames : AssignRole(s, u, name) \/ RemoveRole(s, u, name)

Step(s) ==
    \/ Compare(s) \/ Hash(s) \/ FindAdmin(s)
    \/ Reload(s) \/ Write(s)
    \/ InsertGrant(s) \/ RemoveGrant(s)
    \/ Respond(s)

Next ==
    \/ \E s \in Slots : Step(s) \/ \E u \in Users : Request(s, u)
    \/ Crash

Spec == Init /\ [][Next]_vars
-----------------------------------------------------------------------------
(* Properties                                                              *)

\* The rows of user_roles keep their two keys: no role is assigned twice to a
\* user, and no id is used twice, although assignRole looks before it inserts and
\* save puts removed rows back under their old ids.
GrantsAreKeyed ==
    \A g, h \in grants : g.id = h.id \/ (g.user = h.user /\ g.role = h.role) => g = h

\* A role assigned to a user leaves it only by removeRole.  In particular no save
\* of an entity loaded before the assignment takes it away again.
RolesLeaveByRemoveRole ==
    [][\A g \in grants :
          g \notin grants' => \E s \in Slots : pc[s] = "remove" /\ g \in held[s]]_vars

\* Every commit changes one account the way module Accounts says; AuthSessions
\* relies on that.
AccountOf(u) == [active |-> users[u].active, roles |-> {g.role : g \in GrantsOf(u)}]
Sessions == INSTANCE Accounts WITH account <- [u \in Users |-> AccountOf(u)]
ImplementsAccounts == Sessions!AccountsSpec

\* "Update allowed fields only" (UserService.updateProfile): updating a profile
\* changes neither the password nor whether the account is active.
ProfileUpdateKeepsTheRest ==
    [][\A s \in Slots :
          pc[s] = "write" /\ op[s] = "updateProfile" /\ pc'[s] = "done" =>
              /\ users'[who[s]].active = users[who[s]].active
              /\ users'[who[s]].password = users[who[s]].password]_vars
=============================================================================
