--------------------------- MODULE RolePermissions ---------------------------
(***************************************************************************)
(* The table role_permissions under concurrent requests:                   *)
(* assignPermissionsToRole, which adds permissions to a role or replaces   *)
(* those it has, and removeAssignment.  (removePermissionsFromRole sends a *)
(* DELETE that Postgres refuses, and changes nothing.)                     *)
(*                                                                         *)
(* Postgres runs the transactions read committed: a statement sees what    *)
(* was committed when it began, and what its own transaction wrote.        *)
(***************************************************************************)
EXTENDS Naturals, FiniteSets, FiniteSetsExt

CONSTANTS
    Slots,       \* requests that may be in flight together
    Roles,       \* rows of roles: none is ever deleted
    NamedRoles,  \* ids of roles a request may name
    Permissions, \* ids of the rows of permissions: none is ever deleted
    Listed,      \* ids a request may list
    MaxGrants    \* bound on the ids drawn for role_permissions

ASSUME ConstantsAssumption ==
    /\ Roles \subseteq NamedRoles
    /\ Permissions \subseteq Listed
    /\ Listed \subseteq Nat
    /\ MaxGrants \in Nat

Grant == [id : 1..MaxGrants, role : Roles, permission : Permissions]

VARIABLES
    grants,  \* the table, as committed
    nextId,  \* the sequence its ids come from
    req      \* the requests in flight, with all they hold

vars == <<grants, nextId, req>>

Idle == [pc |-> "idle"]
Refused == [pc |-> "refused"]

\* The transaction of an assignment: the rows its DELETE found, those it has
\* deleted and inserted, and the permissions its loop has still to go through.
\* What others take from the role meanwhile is history.
Assignment ==
    [pc : {"delete", "locks", "exists", "insert", "assigned"},
     role : Roles, wanted : SUBSET Listed, replace : BOOLEAN,
     found : SUBSET Grant, gone : SUBSET Grant, own : SUBSET Grant,
     left : SUBSET Listed, taken : SUBSET Permissions]

TypeOK ==
    /\ grants \subseteq Grant
    /\ nextId \in 1..(MaxGrants + 1)
    /\ req \in [Slots -> {Idle, Refused} \cup Assignment]

Init ==
    /\ grants = {}
    /\ nextId = 1
    /\ req = [s \in Slots |-> Idle]

Becomes(s, r) == req' = [req EXCEPT ![s] = r]
At(s, pc) == req[s].pc = pc
IsAssignment(s) == req[s] \notin {Idle, Refused}

Has(rows, role, p) == \E g \in rows : g.role = role /\ g.permission = p

\* The rows transaction s has deleted and holds locks on until it commits.
LockedBy(s) == IF IsAssignment(s) THEN req[s].gone ELSE {}

\* `rows` become the table's, and slot s becomes r: the others note what
\* their role has lost.
Commit(s, rows, r) ==
    LET lost(role) == {p \in Permissions : Has(grants, role, p) /\ ~Has(rows, role, p)} IN
    /\ grants' = rows
    /\ req' = [t \in Slots |->
           IF t = s THEN r
           ELSE IF IsAssignment(t)
           THEN [req[t] EXCEPT !.taken = @ \cup lost(req[t].role)]
           ELSE req[t]]

\* An assignment whose role and permissions have been found.
Begun(role, wanted, replace) ==
    [pc |-> IF replace THEN "delete" ELSE "exists",
     role |-> role, wanted |-> wanted, replace |-> replace,
     found |-> {}, gone |-> {}, own |-> {}, left |-> wanted, taken |-> {}]

\* Mutant of AssignPermissions: it is not checked that all permissions exist.
AssignPermissionsUnchecked(s, role, wanted, repeated, replace) ==
    /\ At(s, "idle")
    /\ Becomes(s, IF role \in Roles THEN Begun(role, wanted, replace) ELSE Refused)
    /\ UNCHANGED <<grants, nextId>>

\* assignPermissionsToRole looks the role and the permissions up, and refuses
\* the request unless it finds the role and as many permissions as the request
\* lists ids: a list that repeats one never passes.  (A look-up that fails is
\* answered like one that finds nothing.)
AssignPermissions(s, role, wanted, repeated, replace) ==
    /\ At(s, "idle")
    /\ Becomes(s, IF role \in Roles /\ wanted \subseteq Permissions /\ ~repeated
                  THEN Begun(role, wanted, replace)
                  ELSE Refused)
    /\ UNCHANGED <<grants, nextId>>

\* DELETE finds the committed rows of the role.
StartDelete(s) ==
    /\ At(s, "delete")
    /\ Becomes(s, [req[s] EXCEPT !.pc = "locks",
                                 !.found = {g \in grants : g.role = req[s].role}])
    /\ UNCHANGED <<grants, nextId>>

\* Mutant of FinishDelete: the rows are deleted outside of the transaction.
FinishDeleteOutside(s) ==
    /\ At(s, "locks")
    /\ Commit(s, grants \ req[s].found, [req[s] EXCEPT !.pc = "exists"])
    /\ UNCHANGED nextId

\* It waits for those another transaction has deleted, and skips them if that
\* one has committed.
FinishDelete(s) ==
    /\ At(s, "locks")
    /\ \A t \in Slots \ {s} : req[s].found \cap LockedBy(t) = {}
    /\ Becomes(s, [req[s] EXCEPT !.pc = "exists", !.found = {},
                                 !.gone = req[s].found \cap grants])
    /\ UNCHANGED <<grants, nextId>>

\* What transaction s sees.
Visible(s) == (grants \ req[s].gone) \cup req[s].own

\* Mutant of LookUp: the loop ends at the first permission the role has.
LookUpOnce(s) ==
    /\ At(s, "exists")
    /\ req[s].left # {}
    /\ Becomes(s, IF Has(Visible(s), req[s].role, Min(req[s].left))
                  THEN [req[s] EXCEPT !.left = {}]
                  ELSE [req[s] EXCEPT !.pc = "insert"])
    /\ UNCHANGED <<grants, nextId>>

\* The loop over the permissions, in the order of the table: is there a row?
LookUp(s) ==
    /\ At(s, "exists")
    /\ req[s].left # {}
    /\ LET p == Min(req[s].left) IN
        Becomes(s, IF Has(Visible(s), req[s].role, p)
                   THEN [req[s] EXCEPT !.left = @ \ {p}]
                   ELSE [req[s] EXCEPT !.pc = "insert"])
    /\ UNCHANGED <<grants, nextId>>

\* There is none: one is inserted, and no index refuses it.
InsertGrant(s) ==
    /\ At(s, "insert")
    /\ nextId <= MaxGrants
    /\ LET p == Min(req[s].left) IN
        Becomes(s, [req[s] EXCEPT
            !.pc = "exists",
            !.left = @ \ {p},
            !.own = @ \cup {[id |-> nextId, role |-> req[s].role, permission |-> p]}])
    /\ nextId' = nextId + 1
    /\ UNCHANGED grants

CommitAssignment(s) ==
    /\ At(s, "exists")
    /\ req[s].left = {}
    /\ Commit(s, Visible(s),
              [req[s] EXCEPT !.pc = "assigned", !.gone = {}, !.own = {}])
    /\ UNCHANGED nextId

\* removeAssignment: one DELETE by id, which waits for a lock on the row.
RemoveAssignment(g) ==
    /\ \A s \in Slots : g \notin LockedBy(s)
    /\ grants' = grants \ {g}
    /\ req' = [s \in Slots |->
           IF IsAssignment(s) /\ g.role = req[s].role
           THEN [req[s] EXCEPT !.taken = @ \cup {g.permission}]
           ELSE req[s]]
    /\ UNCHANGED nextId

\* A query fails, and Postgres rolls the transaction back.
RollBack(s) ==
    /\ req[s].pc \in {"delete", "locks", "exists", "insert"}
    /\ Becomes(s, Refused)
    /\ UNCHANGED <<grants, nextId>>

-----------------------------------------------------------------------------
Respond(s) ==
    /\ req[s].pc \in {"assigned", "refused"}
    /\ Becomes(s, Idle)
    /\ UNCHANGED <<grants, nextId>>

\* The process stops: Postgres rolls its open transactions back.
Crash ==
    /\ \E s \in Slots : ~At(s, "idle")
    /\ req' = [s \in Slots |-> Idle]
    /\ UNCHANGED <<grants, nextId>>

Request(s) ==
    \E role \in NamedRoles, wanted \in SUBSET Listed \ {{}},
       repeated, replace \in BOOLEAN :
        AssignPermissions(s, role, wanted, repeated, replace)

Step(s) ==
    \/ StartDelete(s) \/ FinishDelete(s)
    \/ LookUp(s) \/ InsertGrant(s) \/ CommitAssignment(s)
    \/ RollBack(s) \/ Respond(s)

Next ==
    \/ \E s \in Slots : Request(s) \/ Step(s)
    \/ \E g \in grants : RemoveAssignment(g)
    \/ Crash

Spec == Init /\ [][Next]_vars
-----------------------------------------------------------------------------
(* Properties                                                              *)

\* A role loses a permission only by removeAssignment or when a replacement
\* commits that does not list it: while permissions are replaced, no reader
\* finds the role without one that it had and keeps, also when two
\* replacements overlap.  (One that is listed may go if removeAssignment takes a
\* second row of it after the replacement has found that row.)
ReplaceKeepsShared ==
    [][\A role \in Roles, p \in Permissions :
          Has(grants, role, p) /\ ~Has(grants', role, p) =>
              \/ \E s \in Slots :
                     /\ At(s, "exists") /\ req'[s].pc = "assigned"
                     /\ req[s].replace /\ (p \in req[s].wanted => p \in req[s].taken)
              \/ \A s \in Slots : req'[s].pc = req[s].pc]_vars

\* When assignPermissionsToRole reports success, the role has every permission
\* asked for, but for those that others took from it since the request arrived.
AssignedMeansHeld ==
    \A s \in Slots : At(s, "assigned") =>
        \A p \in req[s].wanted : Has(grants, req[s].role, p) \/ p \in req[s].taken
=============================================================================
