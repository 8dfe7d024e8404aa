-------------------------- MODULE RoutePermissions --------------------------
(***************************************************************************)
(* Who may call what: the middleware authorize works out the action that a *)
(* request stands for, from the table permissions through a cache, and     *)
(* asks whether one of the caller's roles holds a permission for it, while *)
(* createPermission adds rows.  What the roles hold changes as             *)
(* RolePermissions says; here it is any set, at any time.                  *)
(*                                                                         *)
(* One HTTP method is modelled: permissions of different methods never     *)
(* meet, since every query and every cache key begins with the method.     *)
(* Paths are sequences of segments, without the prefix /api/v1.            *)
(***************************************************************************)
EXTENDS Naturals, Sequences, FiniteSets, FiniteSetsExt

CONSTANTS
    Slots,          \* requests that may be in flight together
    Roles,          \* rows of roles: none is ever deleted
    Endpoints,      \* what is called: the path, and the route of its router
    Routes,         \* routes a permission may be stored for
    Actions,        \* their actions, <<module, operation>>
    Dyn,            \* a segment that begins with a colon
    NoAction,       \* the cached answer that no permission is known ('')
    Absent,         \* no cached answer
    MaxPermissions  \* bound on the rows of permissions

Permission == [route : Routes, action : Actions]

Segments == STRING \cup {Dyn}

ASSUME ConstantsAssumption ==
    /\ MaxPermissions \in Nat \ {0}
    /\ Endpoints \subseteq [path : Seq(Segments) \ {<<>>}, route : Seq(Segments)]
    /\ Routes \subseteq Seq(Segments)
    /\ {NoAction, Absent} \cap Actions = {} /\ NoAction # Absent

VARIABLES
    permissions, \* the table permissions, in the order of its ids
    held,        \* the ids of the permissions each role holds
    cache,       \* the Map of the middleware's PermissionService
    boot,        \* history: how many permissions there were at the start
    req          \* the requests in flight, with all they hold

tables == <<permissions, held>>
vars == <<tables, cache, boot, req>>

-----------------------------------------------------------------------------
(* Routes and actions                                                      *)

\* Mutant of Matches: the number of segments is not compared.
MatchesPrefix(route, pattern) ==
    \A i \in 1..(IF Len(route) < Len(pattern) THEN Len(route) ELSE Len(pattern)) :
        pattern[i] = Dyn \/ pattern[i] = route[i]

\* matchesRoutePattern
Matches(route, pattern) ==
    /\ Len(route) = Len(pattern)
    /\ \A i \in 1..Len(pattern) : pattern[i] = Dyn \/ pattern[i] = route[i]

Key(slash, route) == [slash |-> slash, route |-> route]

\* getPossibleRoutes: the full path, the path and the route within its router,
\* and the full path without its first slash.
Candidates(e) ==
    LET inRouter == Tail(e.path) IN
    <<Key(TRUE, e.path), Key(TRUE, inRouter)>>
    \o (IF e.route # inRouter THEN <<Key(TRUE, e.route)>> ELSE <<>>)
    \o <<Key(FALSE, e.path)>>

Keys == UNION {{Candidates(e)[i] : i \in 1..Len(Candidates(e))} : e \in Endpoints}

\* inferActionFromConvention, for GET
Convention(e) ==
    <<Head(e.path),
      IF Len(e.path) = 1 THEN "list"
      ELSE IF e.path[2] \in {"profile", "roles"} THEN e.path[2] ELSE "detail">>

\* Rows a query returns for a key: stored for this very route, or by pattern.
Exact(key) ==
    {i \in 1..Len(permissions) : key.slash /\ permissions[i].route = key.route}
ByPattern(key) ==
    {i \in 1..Len(permissions) : Matches(key.route, permissions[i].route)}

-----------------------------------------------------------------------------
(* Requests                                                                *)

Idle == [pc |-> "idle"]
Refused == [pc |-> "refused"]

Authorization ==
    [pc : {"exact", "pattern", "check", "accepted"},
     endpoint : Endpoints, roles : SUBSET Roles, at : 1..4,
     action : Actions \cup {Convention(e) : e \in Endpoints} \cup {NoAction}]

Creation == [pc : {"save", "created"}, new : Permission]

TypeOK ==
    /\ permissions \in UNION {[1..n -> Permission] : n \in 0..MaxPermissions}
    /\ held \in [Roles -> SUBSET (1..Len(permissions))]
    /\ cache \in [Keys -> Actions \cup {NoAction, Absent}]
    /\ boot \in 0..Len(permissions)
    /\ req \in [Slots -> {Idle, Refused} \cup Authorization \cup Creation]

Init ==
    /\ permissions \in {<<>>} \cup {<<p>> : p \in Permission}
    /\ held = [role \in Roles |-> {}]
    /\ cache = [k \in Keys |-> Absent]
    /\ boot = Len(permissions)
    /\ req = [s \in Slots |-> Idle]

Becomes(s, r) == req' = [req EXCEPT ![s] = r]
At(s, pc) == req[s].pc = pc

-----------------------------------------------------------------------------
(* authorize: inferAction goes through the candidates.  A cached answer is *)
(* used without a query; what is not cached takes one query or two.        *)

\* The request goes on with candidate i: to the first query it needs, or to
\* its action.
Resolve(r, i, known) ==
    LET c == Candidates(r.endpoint)
        open == {j \in i..Len(c) : known[c[j]] # NoAction}
        first == Min(open)
    IN
    IF open = {} THEN [r EXCEPT !.pc = "check", !.action = Convention(r.endpoint)]
    ELSE IF known[c[first]] = Absent THEN [r EXCEPT !.pc = "exact", !.at = first]
    ELSE [r EXCEPT !.pc = "check", !.action = known[c[first]]]

KeyOf(r) == Candidates(r.endpoint)[r.at]

Authorize(s, e, roles) ==
    /\ At(s, "idle")
    /\ Becomes(s, Resolve([pc |-> "exact", endpoint |-> e, roles |-> roles, at |-> 1,
                           action |-> NoAction], 1, cache))
    /\ UNCHANGED <<tables, cache, boot>>

\* Mutant of Use: the cache keeps the route instead of the action.
UseRoute(s, i) ==
    /\ cache' = [cache EXCEPT ![KeyOf(req[s])] = permissions[i].route]
    /\ Becomes(s, [req[s] EXCEPT !.pc = "check", !.action = permissions[i].action])
    /\ UNCHANGED <<tables, boot>>

\* A query has found row i: its action is cached and used.
Use(s, i) ==
    /\ cache' = [cache EXCEPT ![KeyOf(req[s])] = permissions[i].action]
    /\ Becomes(s, [req[s] EXCEPT !.pc = "check", !.action = permissions[i].action])
    /\ UNCHANGED <<tables, boot>>

\* Mutant of FindExact: what the first query does not find is not looked for.
FindExactOnly(s) ==
    /\ At(s, "exact")
    /\ \/ \E i \in Exact(KeyOf(req[s])) : Use(s, i)
       \/ /\ Exact(KeyOf(req[s])) = {}
          /\ cache' = [cache EXCEPT ![KeyOf(req[s])] = NoAction]
          /\ Becomes(s, Resolve(req[s], req[s].at + 1, cache'))
          /\ UNCHANGED <<tables, boot>>

FindExact(s) ==
    /\ At(s, "exact")
    /\ \/ \E i \in Exact(KeyOf(req[s])) : Use(s, i)
       \/ /\ Exact(KeyOf(req[s])) = {}
          /\ Becomes(s, [req[s] EXCEPT !.pc = "pattern"])
          /\ UNCHANGED <<tables, cache, boot>>

FindByPattern(s) ==
    /\ At(s, "pattern")
    /\ \/ \E i \in ByPattern(KeyOf(req[s])) : Use(s, i)
       \/ /\ ByPattern(KeyOf(req[s])) = {}
          /\ cache' = [cache EXCEPT ![KeyOf(req[s])] = NoAction]
          /\ Becomes(s, Resolve(req[s], req[s].at + 1, cache'))
          /\ UNCHANGED <<tables, boot>>

\* Does one of the roles hold a permission for the action?
Granted(roles, action) ==
    \E role \in roles : \E i \in held[role] : permissions[i].action = action

\* isAuthorized looks for a permission of a role whose name is in req.user.roles.
\* `roles` are the claims that equal a name.  (authenticate leaves Role objects
\* there, which equal none: then `roles` is empty, and every request refused.)
IsAuthorized(s) ==
    /\ At(s, "check")
    /\ Becomes(s, IF Granted(req[s].roles, req[s].action)
                  THEN [req[s] EXCEPT !.pc = "accepted"] ELSE Refused)
    /\ UNCHANGED <<tables, cache, boot>>

-----------------------------------------------------------------------------
(* createPermission                                                        *)

\* What the body may ask for: NoAction stands for every action without exactly one colon.
Wish == [route : Routes, action : Actions \cup {NoAction}]

\* Refused if there is such a row, if the action is not module:operation, or if the
\* query fails.
CreatePermission(s, new) ==
    /\ At(s, "idle")
    /\ \/ /\ \A i \in 1..Len(permissions) : permissions[i] # new
          /\ new.action # NoAction
          /\ Becomes(s, [pc |-> "save", new |-> new])
       \/ Becomes(s, Refused)
    /\ UNCHANGED <<tables, cache, boot>>

\* No index refuses a second row.  The cache entry that is then deleted is one
\* of the controller's own PermissionService, which is not the middleware's.
InsertPermission(s) ==
    /\ At(s, "save")
    /\ Len(permissions) < MaxPermissions
    /\ permissions' = Append(permissions, req[s].new)
    /\ Becomes(s, [req[s] EXCEPT !.pc = "created"])
    /\ UNCHANGED <<held, cache, boot>>

-----------------------------------------------------------------------------
\* A query of authorize or of createPermission fails: the error is the answer, and
\* nothing is cached.
QueryFails(s) ==
    /\ req[s].pc \in {"exact", "pattern", "check", "save"}
    /\ Becomes(s, Refused)
    /\ UNCHANGED <<tables, cache, boot>>

\* RolePermissions commits a change of what a role holds.
ChangeRole(role, ids) ==
    /\ held' = [held EXCEPT ![role] = ids]
    /\ UNCHANGED <<permissions, cache, boot, req>>

Respond(s) ==
    /\ req[s].pc \in {"accepted", "refused", "created"}
    /\ Becomes(s, Idle)
    /\ UNCHANGED <<tables, cache, boot>>

\* The process is replaced by a new one.
Restart ==
    /\ req' = [s \in Slots |-> Idle]
    /\ cache' = [k \in Keys |-> Absent]
    /\ boot' = Len(permissions)
    /\ UNCHANGED tables

Request(s) ==
    \/ \E e \in Endpoints, roles \in SUBSET Roles : Authorize(s, e, roles)
    \/ \E new \in Wish : CreatePermission(s, new)

Step(s) ==
    \/ FindExact(s) \/ FindByPattern(s) \/ IsAuthorized(s)
    \/ InsertPermission(s) \/ QueryFails(s)
    \/ Respond(s)

Next ==
    \/ \E s \in Slots : Request(s) \/ Step(s)
    \/ \E role \in Roles, ids \in SUBSET (1..Len(permissions)) : ChangeRole(role, ids)
    \/ Restart

Spec == Init /\ [][Next]_vars
-----------------------------------------------------------------------------
(* Properties                                                              *)

\* A route fits a pattern if it becomes the pattern when some of its segments are
\* made parameters.
Fits(route, pattern) ==
    \E some \in SUBSET DOMAIN route :
        pattern = [i \in DOMAIN route |-> IF i \in some THEN Dyn ELSE route[i]]

\* The action a request is judged by, cached or not, is that of a row that one of
\* the routes tried for it fits.  The convention is used only if they fit no row
\* that was there when the process started.  (A row created since may be hidden by
\* the cache for as long as the process runs.)
ActionsComeFromRows ==
    \A s \in Slots : req[s].pc \in {"check", "accepted"} =>
        LET c == Candidates(req[s].endpoint)
            matching == {i \in 1..Len(permissions) :
                \E j \in 1..Len(c) : Fits(c[j].route, permissions[i].route)}
        IN
        \/ \E i \in matching : permissions[i].action = req[s].action
        \/ /\ req[s].action = Convention(req[s].endpoint)
           /\ matching \cap 1..boot = {}
=============================================================================
