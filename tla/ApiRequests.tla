---------------------------- MODULE ApiRequests -----------------------------
(***************************************************************************)
(* The way of a request through the server: the middlewares of             *)
(* config/middlewares.ts, the health probes of config/health.ts, the       *)
(* routers of config/routes.ts with their limiters, the middlewares and    *)
(* the handler of the route that takes it, and errorHandler behind all.    *)
(*                                                                         *)
(* Every middleware is a step, since some wait for the database or for the *)
(* limiter's store, and the shutdown goes on between two steps.            *)
(***************************************************************************)
EXTENDS ApiRoutes

CONSTANTS
    Clients,             \* who sends requests, one at a time
    Requests,            \* what they may ask
    None,                \* no request
    Uuids,               \* the strings that a schema of UUIDs takes
    RateLimitEnabled,    \* RATE_LIMIT_ENABLED
    Max,                 \* of each limiter, max: the requests it lets pass in a window
    VersioningEnabled,   \* API_VERSIONING_ENABLED
    SupportedVersions    \* API_SUPPORTED_VERSIONS

Limiters == {"globalRateLimiter", "authRateLimiter", "apiRateLimiter"}

\* A request: its mount below /api/v1 (or another version), verb and path below it, its
\* token (bad: there is none, it has expired, ...), and how its body and query stand to
\* the schemas of the route that it fits.
Request ==
    [mount : Mounts \cup {"none"}, verb : {"GET", "POST", "PUT", "DELETE"},
     path : Seq(STRING), version : {"v1", "v2", None}, token : {"good", "bad"},
     body : {"fits", "misfit", "garbled"}, query : {"absent", "fits", "misfit"}]

\* No segment of a documented path is a UUID.
ASSUME ConstantsAssumption ==
    /\ Requests \subseteq Request /\ None \notin Requests
    /\ \A m \in Mounts : \A d \in Operations(m) :
           d # None /\ \A i \in DOMAIN d.document.path : d.document.path[i] \notin Uuids
    /\ Max \in [Limiters -> Nat \ {0}]
    /\ {RateLimitEnabled, VersioningEnabled} \subseteq BOOLEAN

\* How far ShutdownManager.performShutdown has come: isShuttingDown is set at "stopping",
\* QueueInitializer.isShuttingDown at "queuesStopped", AppDataSource closed at "dbClosed".
Stages == <<"up", "stopping", "queuesStopped", "dbClosed">>
StageNumber(s) == CHOOSE i \in DOMAIN Stages : Stages[i] = s

VARIABLES
    at,       \* Clients: the step that the request waits for
    req,      \* Clients: the request
    left,     \* Clients: the middlewares of its route that are still before it
    user,     \* Clients: has req.user been set?
    served,   \* Clients: has the route's handler been called?
    status,   \* Clients: the answer, or the error on its way to errorHandler; 0 before
    hits,     \* Limiters: the requests counted in the window, up to max
    stage,    \* the shutdown
    began     \* history, Clients: the stage when the request arrived

callVars == <<at, req, left, user, served, status>>
vars == <<callVars, hits, stage, began>>

Places == {"idle", "express.json", "globalRateLimiter", "apiVersion", "health", "query",
           "mountLimiter", "stack", "handler", "errorHandler", "answered"}
Middlewares == {"authenticate", "authorize", "body", "query", "numberQuery",
                "uuidParams", "integerParams"}
Codes == {200, 201, 202, 204, 400, 401, 403, 404, 409, 429, 500, 503}

TypeOK ==
    /\ at \in [Clients -> Places]
    /\ req \in [Clients -> Request \cup {None}]
    /\ left \in [Clients -> Seq(Middlewares)]
    /\ user \in [Clients -> BOOLEAN]
    /\ served \in [Clients -> BOOLEAN]
    /\ status \in [Clients -> {0} \cup Codes]
    /\ hits \in [Limiters -> Nat]
    /\ \A l \in Limiters : hits[l] <= Max[l]
    /\ stage \in {Stages[i] : i \in DOMAIN Stages}
    /\ began \in [Clients -> {Stages[i] : i \in DOMAIN Stages}]
    /\ \A c \in Clients :
        /\ at[c] = "idle" <=> req[c] = None
        /\ at[c] \in {"answered", "errorHandler"} <=> status[c] # 0
        /\ left[c] # <<>> => at[c] = "stack"

Init ==
    /\ at = [c \in Clients |-> "idle"]
    /\ req = [c \in Clients |-> None]
    /\ left = [c \in Clients |-> <<>>]
    /\ user = [c \in Clients |-> FALSE]
    /\ served = [c \in Clients |-> FALSE]
    /\ status = [c \in Clients |-> 0]
    /\ hits = [l \in Limiters |-> 0]
    /\ stage = "up"
    /\ began = [c \in Clients |-> "up"]

\* next()
Goto(c, place) ==
    /\ at' = [at EXCEPT ![c] = place]
    /\ UNCHANGED <<req, user, served, status>>

\* next() within the route's middlewares, where the last is followed by the handler.
PassOn(c) ==
    /\ left' = [left EXCEPT ![c] = Tail(@)]
    /\ UNCHANGED <<at, req, served, status>>

\* res.status(s).json(...), and next(error) with an error of status s.
End(c, place, s) ==
    /\ at' = [at EXCEPT ![c] = place]
    /\ status' = [status EXCEPT ![c] = s]
    /\ left' = [left EXCEPT ![c] = <<>>]
    /\ UNCHANGED <<req, user, served>>
Reply(c, s) == End(c, "answered", s)
Fail(c, s) == End(c, "errorHandler", s)

-----------------------------------------------------------------------------
(* setupMiddlewares                                                        *)

Arrive(c) ==
    /\ at[c] = "idle"
    /\ \E r \in Requests : req' = [req EXCEPT ![c] = r]
    /\ at' = [at EXCEPT ![c] = "express.json"]
    /\ began' = [began EXCEPT ![c] = stage]
    /\ UNCHANGED <<left, user, served, status, hits, stage>>

\* A body that does not parse is an error of body-parser, which is no HttpException.
ParseBody(c) ==
    /\ at[c] = "express.json"
    /\ IF req[c].body = "garbled"
       THEN Fail(c, 500)
       ELSE Goto(c, "globalRateLimiter") /\ UNCHANGED left
    /\ UNCHANGED <<hits, stage, began>>

\* Mutant of Exceeds: the request that reaches max is still let pass.
ExceedsLate(limiter) == RateLimitEnabled /\ hits[limiter] > Max[limiter]

\* createRateLimiter: beyond max, customRateLimitHandler refuses.
Exceeds(limiter) == RateLimitEnabled /\ hits[limiter] = Max[limiter]

Counted(limiter) == IF RateLimitEnabled THEN [hits EXCEPT ![limiter] = @ + 1] ELSE hits

GlobalRateLimiter(c) ==
    /\ at[c] = "globalRateLimiter"
    /\ IF Exceeds("globalRateLimiter")
       THEN Reply(c, 429) /\ UNCHANGED hits
       ELSE Goto(c, "apiVersion") /\ hits' = Counted("globalRateLimiter") /\ UNCHANGED left
    /\ UNCHANGED <<stage, began>>

\* A path without a version has the default one.
ApiVersionMiddleware(c) ==
    /\ at[c] = "apiVersion"
    /\ IF VersioningEnabled /\ req[c].version \notin SupportedVersions \cup {None}
       THEN Fail(c, 400)
       ELSE Goto(c, "health") /\ UNCHANGED left
    /\ UNCHANGED <<hits, stage, began>>

-----------------------------------------------------------------------------
(* setupHealthChecks and health.middleware.ts                              *)

Probes == {"health", "ready", "live"}
Probe(r) == r.mount = "none" /\ r.verb = "GET" /\ r.path \in {<<p>> : p \in Probes}

\* A request that is no probe goes on to the routers.
PastProbes(c) ==
    /\ at[c] = "health" /\ ~Probe(req[c])
    /\ IF req[c].mount \in Mounts /\ req[c].version = "v1"
       THEN Goto(c, "mountLimiter") /\ UNCHANGED left
       ELSE Reply(c, 404)
    /\ UNCHANGED <<hits, stage, began>>

LivenessCheck(c) ==
    /\ at[c] = "health" /\ Probe(req[c]) /\ req[c].path = <<"live">>
    /\ Reply(c, IF stage = "up" THEN 200 ELSE 503)
    /\ UNCHANGED <<hits, stage, began>>

\* Mutant of StartCheck: the shutdown is not asked for.
StartCheckAnyway(c) ==
    /\ at[c] = "health" /\ Probe(req[c]) /\ req[c].path # <<"live">>
    /\ Goto(c, "query") /\ UNCHANGED left
    /\ UNCHANGED <<hits, stage, began>>

\* healthCheck and readinessCheck, up to the query of checkServices.
StartCheck(c) ==
    /\ at[c] = "health" /\ Probe(req[c]) /\ req[c].path # <<"live">>
    /\ IF stage # "up" THEN Reply(c, 503) ELSE Goto(c, "query") /\ UNCHANGED left
    /\ UNCHANGED <<hits, stage, began>>

\* determineOverallStatus, of which the cron jobs are always healthy: they stay in their
\* manager when they are stopped.
OverallStatus(database, queue) == IF database /\ queue THEN 200 ELSE 503

\* checkServices: what it may find of the database, since a query may fail in any stage,
\* and of the queues.  It does not wait after the query.
DatabaseHealth == IF stage = "dbClosed" THEN {FALSE} ELSE BOOLEAN
QueueHealthy == stage \in {"up", "stopping"}

FinishHealthCheck(c) ==
    /\ at[c] = "query" /\ req[c].path = <<"health">>
    /\ \E database \in DatabaseHealth : Reply(c, OverallStatus(database, QueueHealthy))
    /\ UNCHANGED <<hits, stage, began>>

\* Only the database is critical to readiness.
FinishReadinessCheck(c) ==
    /\ at[c] = "query" /\ req[c].path = <<"ready">>
    /\ \E database \in DatabaseHealth : Reply(c, IF database THEN 200 ELSE 503)
    /\ UNCHANGED <<hits, stage, began>>

-----------------------------------------------------------------------------
(* setupRoutes and the routers                                             *)

Chosen(r) == FirstFit(r.mount, r.verb, r.path)
Route(r) == Routers[r.mount][Chosen(r)]

\* The limiter of the mount lets the request into the router, where it meets what the
\* router uses and then the middlewares of the route that it fits, if any.
EnterRouter(c) ==
    /\ at[c] = "mountLimiter"
    /\ LET r == req[c]
           limiter == MountLimiter(r.mount)
       IN  IF Exceeds(limiter)
           THEN Reply(c, 429) /\ UNCHANGED hits
           ELSE /\ Goto(c, "stack")
                /\ left' = [left EXCEPT ![c] = RouterUse(r.mount) \o
                                (IF Chosen(r) = 0 THEN <<>> ELSE Route(r).stack)]
                /\ hits' = Counted(limiter)
    /\ UNCHANGED <<stage, began>>

Meets(c, middleware) ==
    at[c] = "stack" /\ left[c] # <<>> /\ Head(left[c]) = middleware

\* Mutant of Authenticate: an error is not handed to next().
AuthenticateSilently(c) ==
    /\ Meets(c, "authenticate")
    /\ \/ /\ req[c].token = "good"
          /\ user' = [user EXCEPT ![c] = TRUE]
          /\ PassOn(c)
       \/ UNCHANGED callVars
    /\ UNCHANGED <<hits, stage, began>>

\* authenticate: every error of validateToken, a failed query too, is a 401.
Authenticate(c) ==
    /\ Meets(c, "authenticate")
    /\ \/ /\ req[c].token = "good"
          /\ user' = [user EXCEPT ![c] = TRUE]
          /\ PassOn(c)
       \/ Fail(c, 401)
    /\ UNCHANGED <<hits, stage, began>>

\* authorize, whose verdict RoutePermissions has in detail.
Authorize(c) ==
    /\ Meets(c, "authorize")
    /\ \/ PassOn(c) /\ UNCHANGED user
       \/ \E s \in {403, 500} : Fail(c, s)
    /\ UNCHANGED <<hits, stage, began>>

\* The values of the path's parameters.
ParamValues(r) == {r.path[i] : i \in {j \in DOMAIN r.path : Route(r).path[j] \in Params}}

\* Mutant of Accepts: a schema of UUIDs takes every string.
AcceptsAnyString(validator, r) ==
    CASE validator = "body" -> r.body = "fits"
      [] validator = "query" -> r.query # "misfit"
      [] validator = "numberQuery" -> r.query = "absent"
      [] validator = "uuidParams" -> TRUE
      [] validator = "integerParams" -> FALSE

\* What a schema takes.  Values of a query and of a path are strings, so no z.number()
\* takes them; all fields of a query are optional.
Accepts(validator, r) ==
    CASE validator = "body" -> r.body = "fits"
      [] validator = "query" -> r.query # "misfit"
      [] validator = "numberQuery" -> r.query = "absent"
      [] validator = "uuidParams" -> ParamValues(r) \subseteq Uuids
      [] validator = "integerParams" -> FALSE

\* validateBody, validateQuery and validateParams answer themselves.
Validate(c) ==
    /\ \E validator \in Middlewares \ {"authenticate", "authorize"} :
        /\ Meets(c, validator)
        /\ IF Accepts(validator, req[c]) THEN PassOn(c) /\ UNCHANGED user ELSE Reply(c, 400)
    /\ UNCHANGED <<hits, stage, began>>

\* Behind the routers only errorHandler is left, which a request without error passes.
NoRoute(c) ==
    /\ at[c] = "stack" /\ left[c] = <<>> /\ Chosen(req[c]) = 0
    /\ Reply(c, 404)
    /\ UNCHANGED <<hits, stage, began>>

\* asyncHandler calls the controller's method,
CallHandler(c) ==
    /\ at[c] = "stack" /\ left[c] = <<>> /\ Chosen(req[c]) # 0
    /\ at' = [at EXCEPT ![c] = "handler"]
    /\ served' = [served EXCEPT ![c] = TRUE]
    /\ UNCHANGED <<req, left, user, status, hits, stage, began>>

\* which replies or whose error is passed to next().
HandlerSettles(c) ==
    /\ at[c] = "handler"
    /\ LET outcomes == Route(req[c]).handler[user[c]]
       IN  \/ \E s \in outcomes.replies : Reply(c, s)
           \/ \E s \in outcomes.errors : Fail(c, s)
    /\ UNCHANGED <<hits, stage, began>>

\* errorHandler answers the status of an HttpException and 500 for any other error.
ErrorHandler(c) ==
    /\ at[c] = "errorHandler"
    /\ Reply(c, status[c])
    /\ UNCHANGED <<hits, stage, began>>

Leave(c) ==
    /\ at[c] = "answered"
    /\ at' = [at EXCEPT ![c] = "idle"]
    /\ req' = [req EXCEPT ![c] = None]
    /\ user' = [user EXCEPT ![c] = FALSE]
    /\ served' = [served EXCEPT ![c] = FALSE]
    /\ status' = [status EXCEPT ![c] = 0]
    /\ began' = [began EXCEPT ![c] = "up"]
    /\ UNCHANGED <<left, hits, stage>>

-----------------------------------------------------------------------------

\* ShutdownManager.initiateShutdown goes from step to step.
ShutDown ==
    /\ stage # "dbClosed"
    /\ stage' = Stages[StageNumber(stage) + 1]
    /\ UNCHANGED <<callVars, hits, began>>

\* windowMs has passed since the window of a limiter began.
WindowEnds ==
    /\ \E l \in Limiters : hits[l] # 0 /\ hits' = [hits EXCEPT ![l] = 0]
    /\ UNCHANGED <<callVars, stage, began>>

Step(c) ==
    \/ ParseBody(c) \/ GlobalRateLimiter(c) \/ ApiVersionMiddleware(c)
    \/ PastProbes(c) \/ LivenessCheck(c) \/ StartCheck(c)
    \/ FinishHealthCheck(c) \/ FinishReadinessCheck(c)
    \/ EnterRouter(c) \/ Authenticate(c) \/ Authorize(c) \/ Validate(c) \/ NoRoute(c)
    \/ CallHandler(c) \/ HandlerSettles(c) \/ ErrorHandler(c)

Next == (\E c \in Clients : Arrive(c) \/ Step(c) \/ Leave(c)) \/ ShutDown \/ WindowEnds

Spec == Init /\ [][Next]_vars

\* Every query and every call that a handler awaits settles; nobody has to send requests,
\* no shutdown has to come and no window to end.
Fairness == \A c \in Clients : WF_vars(Step(c))

FairSpec == Spec /\ Fairness

-----------------------------------------------------------------------------
(* Properties                                                              *)

\* What a client sees of the state: the contract knows nothing of the probes.
IsApi(c) == req[c] # None /\ ~Probe(req[c])

Contract == INSTANCE ApiContract WITH
    Allowed <- MayRun,
    MaySucceed <- Entitled,
    asked <- [c \in Clients |-> IF IsApi(c) THEN req[c] ELSE None],
    operation <- [c \in Clients |-> IF IsApi(c) /\ served[c] THEN Route(req[c]) ELSE None],
    status <- [c \in Clients |-> IF IsApi(c) /\ at[c] = "answered" THEN status[c] ELSE 0]

\* What the server does is what its document allows: no handler runs but the one that
\* the document has at the request's path, no answer of success is undocumented, and
\* without a good token nothing succeeds but the five public operations and logout.
\* Without one nothing else runs either, but for the two of the invitations, which the
\* document calls secured and which have no authenticate: their service refuses, and they
\* answer 500.  This rests on the middlewares of the routes, what the schemas of the
\* parameters refuse above all, and on what each controller answers; not on the order of
\* the declarations, which only decides what is served at all.
ImplementsContract == Contract!Spec

\* A probe that came after the shutdown began does not report a server that can work, and
\* no probe reports one whose database is closed; the checks of checkServices run after
\* an await, and /health and /ready look for the shutdown before it.
ProbesAreHonest ==
    [][\A c \in Clients :
        (req[c] # None /\ Probe(req[c]) /\ status[c] = 0 /\ status'[c] = 200) =>
            /\ began[c] = "up"
            /\ stage # "dbClosed"
            /\ req[c].path = <<"health">> => stage \in {"up", "stopping"}]_vars

\* Every request is answered, whatever fails on its way: errors of middlewares and of
\* handlers reach errorHandler.
RequestsAnswered ==
    \A c \in Clients : at[c] = "express.json" ~> at[c] = "answered"
=============================================================================
