------------------------------ MODULE Accounts ------------------------------
(***************************************************************************)
(* The user accounts as the sessions see them: of each user, whether it is *)
(* active and the names of its roles.  These are the changes that one      *)
(* committed transaction of the user services can make.  UserRecords shows *)
(* that the services make no others; AuthSessions lets every one of them   *)
(* happen at any moment.                                                   *)
(*                                                                         *)
(* Users are never deleted.  Roles are neither renamed nor deleted:        *)
(* updateRole and deleteRole start with findById, which asks for a         *)
(* relation that Role does not have, and throws.                           *)
(***************************************************************************)
CONSTANTS
    Users,        \* rows of users
    RoleNames     \* values of roles.name, a unique column

VARIABLE
    account       \* users and user_roles

\* Two columns of interest of a users row with its user_roles rows.
Account == [active : BOOLEAN, roles : SUBSET RoleNames]

\* assignRole and removeRole commit one row of user_roles.
WithRole(row, name) == [row EXCEPT !.roles = @ \cup {name}]
WithoutRole(row, name) == [row EXCEPT !.roles = @ \ {name}]

\* userRepo.save(user) writes what is stale in the loaded entity as well: it may
\* clear or set isActive, and bring back roles that were removed meanwhile.
Saved(row, active, names) == [active |-> active, roles |-> row.roles \cup names]

Changes(row) ==
    {WithRole(row, name) : name \in RoleNames}
    \cup {WithoutRole(row, name) : name \in RoleNames}
    \cup {Saved(row, active, names) : active \in BOOLEAN, names \in SUBSET RoleNames}

AccountsInit == account \in [Users -> [active : {TRUE}, roles : SUBSET RoleNames]]

ChangeAccount(u, row) == account' = [account EXCEPT ![u] = row]

AccountsNext == \E u \in Users : \E row \in Changes(account[u]) : ChangeAccount(u, row)

AccountsSpec == AccountsInit /\ [][AccountsNext]_account
=============================================================================
