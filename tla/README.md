# Verification of ts-node-api-base

TLA+ models of the API server in `src/`, the TLC runs that check them, and TLAPS proofs about them.
Paths below are relative to `src/src/` unless they begin with `src/`.

The program is an Express 5 API over Postgres (TypeORM 0.3) and Redis (ioredis), wired with tsyringe. One Node 20 process
handles many requests at once and gives up control at every `await`; several replicas may run on one database. So the models
have one action per stretch of code between two awaits (usually one query), and everything else may happen between two actions.

## 1. The system

| component | state | operations | what is hard | what makes it correct |
|---|---|---|---|---|
| Sessions (`services/auth.service.ts`, `middlewares/auth.middleware.ts` authenticate) | `token_blacklist`; tokens in the hands of clients | login, validateToken, refresh, logout | five awaits between arrival and answer, with the user's rows changing meanwhile; expiry during a request; logout's two inserts without a transaction | no revoked, expired or wrong token gets through; the roles answered were the user's at some moment of the request; a logout that succeeds has revoked everything |
| User records (`services/user.service.ts`, `services/userRole.service.ts`) | `users`, `user_roles` | updateProfile, changePassword, deactivateUser, resetPassword's save, assignRole, removeRole | TypeORM's `save` writes whatever is stale in an entity loaded awaits ago, relations included | keys of `user_roles` hold; roles leave by removeRole only; each commit is one change of one account |
| Route authorization (`middlewares/auth.middleware.ts` authorize, `services/permission.service.ts`) | `permissions`; a Map from route to action, never refreshed | authorize, createPermission | a cache filled an await after the query; several candidate routes; patterns | the action judged comes from a row that covers the request |
| Role permissions (`services/rolePermission.service.ts`) | `role_permissions` | assignPermissionsToRole (with replace), removeAssignment | transactions at read committed, no unique index | a role never lacks a permission it keeps; success means held |
| Registration, invitations (`services/auth.service.ts`, `services/invitationToken.service.ts`) | `users`, `invitation_tokens` | registerUser in four modes (and in any other, which admits like `public`), createTokenForUser, validateToken, useToken, cleanup | steps without a transaction; token expiry; a cleanup job between load and save | the mode is kept; success spends the token |
| Password reset (`services/auth.service.ts`) | `password_reset_tokens`, `users` | forgotPassword, resetPassword | the same | a password changes only by a good token; forgotPassword says nothing about the account |
| Background queues (`infrastructure/queue/`) | a Redis list per queue; loops, retries and active jobs in memory | publish, the processing loop with retries, start/stop of consumers, shutdown | a popped message exists only in memory; the retry delay; shutdown racing with the loops | at most once, bounded attempts, nothing starts during shutdown |
| Start and shutdown (`app.ts`, `infrastructure/shutdown/`) | phase of the process, counted requests, timers | startServer, signals, uncaught exceptions, the five shutdown steps | signals at any await of the start; things that hang; a client that hangs up | exit 0 only when all is closed; nobody left behind before its own wait is over; the process ends |
| Cron (`infrastructure/cron/`) | scheduled jobs, running jobs | schedule, run, stopAll | a run begun while the shutdown waits | part of the above |
| HTTP interface (`config/middlewares.ts`, `config/routes.ts`, `routes/`, `controllers/`, `validations/`) | the request on its way | middlewares, routers in the order of their declarations, route stacks, controllers, errorHandler | routes that shadow each other; a middleware that is missing from one stack of sixty; errors that bypass `next` | nothing runs but what the published document says, nor without its token, three operations apart (section 6); every request is answered |
| Rate limiting (`middlewares/rateLimit.middleware.ts`), health (`middlewares/health.middleware.ts`) | counters per window; the stage of the shutdown | three limiters; `/health`, `/ready`, `/live` | a limit met by the first or the last request; a shutdown that goes on while a probe awaits the database | a probe does not report a dying server as well |
| Bootstrap (`config/db.ts`, `utils/bootstrapAdmin.ts`) | database, role ADMIN, administrator, its permissions | createDatabase, bootstrapAdminUser | look-then-insert by several replicas; failing in the middle | nobody listens without an administrator; every replica gets there |

Interactions. `authenticate` puts the token's claims on the request and `authorize` reads them. The user services change the
rows that the session services read. The shutdown stops cron, then the queues, then the database, then waits for requests and
closes the server. The cron job deletes invitation tokens. forgotPassword calls the e-mail service, and so does the consumer of the
queue "email". All of them share the one connection pool `AppDataSource`.
Every request comes in through the HTTP interface, whose controllers call the services; the probes look at the shutdown's flags and at the pool.

## 2. Modules

| module | stands for | composed with |
|---|---|---|
| `Accounts` | abstract: what a user's roles and active flag may become in one commit | extended by `AuthSessions` as its environment, implemented by `UserRecords` |
| `AuthSessions` | the session services | `Accounts` |
| `UserRecords` | the services that write `users` and `user_roles` | implements `Accounts` |
| `RoutePermissions` | authorize, its cache, createPermission | `RolePermissions`' effect, as any change of what a role holds |
| `RolePermissions` | assignPermissionsToRole, removeAssignment | |
| `Onboarding` | registration, invitations, password reset, the cleanup job | |
| `AtMostOnceQueue` | abstract: what a publisher may expect of a queue | implemented by `JobQueue` |
| `JobQueue` | RedisQueue, BaseQueue, QueueManager, consumers, QueueInitializer.shutdown | implements `AtMostOnceQueue` |
| `ServerProcess` | startServer, signals, shutdown, cron, requests | contains `JobQueue` by INSTANCE: each of its steps on the queues is one of `JobQueue`'s actions |
| `Bootstrap` | database creation and bootstrapAdminUser of several replicas, which is the inside of startServer's awaits | its specification is called `BSpec`, `BInit`, `BTypeOK`, ..., as `ServerProcessProofs` extends it beside `ServerProcess` |
| `ApiControllers` | per controller method, the statuses it may answer and the errors it passes on | used by `ApiRoutes` |
| `ApiRoutes` | per endpoint, what `router.get(...)` registers and what its `@swagger` block documents; which one Express picks; which one the document has for a request (`OperationFor`, `MayRun`) | extends `ApiControllers` |
| `ApiContract` | abstract: that a request is served by an operation it may run (`Allowed`) or refused, that success is the documented one and given only to those who may have it (`MaySucceed`) | implemented by `ApiRequests`, which gives it `MayRun` and `Entitled` |
| `ApiRequests` | a request's way through middlewares, limiters, probes, routers and errorHandler, while the server shuts down | extends `ApiRoutes`, implements `ApiContract` |
| `...Proofs` (of `AuthSessions`, `UserRecords`, `JobQueue`, `ServerProcess`, `Onboarding`, `RolePermissions`, `RoutePermissions`, `ApiRequests`) | theorems | extend their module; `ServerProcessProofs` extends `Bootstrap` too and uses `JobQueueProofs` by INSTANCE |
| `MC...` | constants and symmetry for TLC | extend their module |

Operators named `...` with a comment "Mutant of" are plausible wrong versions of the operator after them. No specification
uses them; substituting one must make its property fail, which shows that the property depends on the code.

### How state and actions correspond to the code

**A request** is a slot: `pc` names the await it is at, the other per-slot variables (or the record `req`) are the local variables
of the handler that are still needed. An action that begins a request runs up to and including its first query. `Respond` sends the answer and frees the slot.
`Crash`/`Restart` drop all slots and keep the tables; it also models a request of another replica being lost.

**AuthSessions.** `Login` and `PasswordRight/Wrong` are validateUser and the signing; `Present`, `IsTokenBlacklisted`, `JwtVerify`, then `CheckUser` (access) or
`RefreshPair` (refresh) are validateToken and its callers; `Logout`, `SaveAccess`, `SaveRefresh` are logout, which decodes its tokens and verifies neither their kind nor whether they belong together; `LogoutUndecodable` is its answer 400. `account` is what the
user's rows say, `blacklist` the table. A token is the record its signature covers, so two tokens signed in the same second with the same payload are
the same string, as they are for the unique index. `seen`, `began` and `revoked` are history for the properties. `PidFitsColumn` says whether the pid fits the column `token_blacklist.user_id`:
the real schema says it does not (run `auth_logout_schema`), every other run and the theorems do not depend on it or take the other case to go on past it.

**UserRecords.** The entity a handler loaded is `entity` (columns) and `held` (its `userRoles`). TypeORM's `save` is two actions taken
from how TypeORM 0.3 works, since it is a library: `Reload` (read the row and its loaded relations again, compute the differences) and `Write` (one transaction that writes the
differing columns, inserts relation rows only the entity has, and clears `user_id` in those only the table has, which the NOT NULL column refuses).

**RoutePermissions.** `Authorize`, `FindExact`, `FindByPattern`, `IsAuthorized` are inferAction with getAction and isAuthorized.
`Candidates` are the routes tried: the full path, the path and the route pattern within the router, and the full path without its slash.
The relative path may coincide with a path of another router (`/users/roles` is tried as `/roles`), and the instance has such a pair. `CreatePermission` refuses a row that is there and an action without exactly one colon (`NoAction`); `QueryFails` is any query of the two rejecting. A cached answer takes no step of its own, because no I/O happens.

**RolePermissions.** A transaction keeps `gone` and `own` until it commits; `StartDelete` takes the statement's snapshot and `FinishDelete` gets the row locks,
so a DELETE that waited does not see rows inserted since. `AssignPermissions` refuses a role that does not exist (a name outside `Roles`), an unknown permission and a list that repeats an id, as the code compares the number of rows found with that of the ids;
`RollBack` is a statement that fails. A COMMIT that succeeds but whose answer is lost is left out.

**Onboarding.** `mode` is what REGISTRATION_MODE says: one of the four, or "other" for a string that none of registerUser's conditions knows. One action per query of registerUser, useToken, createTokenForUser, forgotPassword, resetPassword; `CleanupExpiredTokens` is the
cron job's DELETE; `QueryFails` is any query rejecting, with what each catch block does with it.

**JobQueue.** `loop[q]` is where the processing loop of a queue is: in BRPOP, holding a message, in the handler, sleeping before a retry or after an error. `activeJobs` is the manager's set, `phase` and `closing`
the shutdown. `Publish` makes the checks and calls lpush; the message then is in `sent[q]` and lands by `PushLands`, perhaps when the shutdown has begun or the process is gone, or is lost by `PushFails`. `Limit(q)` is `maxRetries || 3`: a configured 0 counts as 3.
That ioredis may send an LPUSH a second time after a connection broke, so that the message is there twice, is left out. A queue's loop handles one message at a time, so a queue has at most one active job.

**ServerProcess.** `step` is the step of performShutdown, `elapsed` the time since the signal, `since` when the current wait began. `caught` says whether registerHandlers has registered anything: it skips the registration when others listen to the signals already. A request is "arriving" while express.json reads its body, and is counted from `BodyParsed` on, as connectionTracking comes after the body parsers. All five waits are constants in their real order
(cron 20 s, queue 25 s, close 5 s, requests timeout - 5 s, force exit 35 s) in coarser units.

**ApiRequests.** `at[c]` is the middleware that client c's request is at, `left[c]` what its route's stack has before the handler, `status[c]` the answer or the error on its way to errorHandler.
Each middleware is an action: `ParseBody` (express.json), `GlobalRateLimiter`, `ApiVersionMiddleware`, the probes (`LivenessCheck`; `StartCheck` and then, after the await of the database, `FinishHealthCheck` or
`FinishReadinessCheck`), `EnterRouter` (mount, its limiter, the first route that fits), `Authenticate`, `Authorize`, `Validate`, `CallHandler` and `HandlerSettles`, `ErrorHandler`.
The routes are data in `ApiRoutes` in the order of their declarations, so that `FirstFit` finds what Express finds; bodies and queries are only known by whether they fit the schema. What a handler does to the tables is in the modules of the services;
here it answers any of the statuses of its entry in `ApiControllers`. `hits` are the limiters' counters (`WindowEnds` resets one), `stage` what the probes can see of the shutdown. `ApiContract` knows the request, the operation that runs and the answer, and of the API only what `MayRun` takes from the document.

**Bootstrap.** `pc[r]` is the await of replica r. `broken` records that some start stopped in the middle of creating the administrator, or of granting.

## 3. Runs

All runs finish within five minutes with two workers; nearly all within two.

| run | module | what it asks | bounds, and why they suffice |
|---|---|---|---|
| `auth_roles` | AuthSessions | `TypeOK`, `ClaimsWereTrue`, `OneLogoutPerToken` | two requests, one user, one role: races are between two requests and a change of the user's rows; tokens of two users share nothing |
| `auth_failures` | AuthSessions | `OnlyLiveTokens`, `LogoutRevokes` with queries failing and the clock passing an expiry within a request | two requests, tokens live one second, two seconds of time |
| `auth_logout_schema` | AuthSessions | violation of `LogoutOfLiveTokenWorks` with the column as declared | |
| `users_races` | UserRecords | `TypeOK`, `GrantsAreKeyed`, `RolesLeaveByRemoveRole`, `ImplementsAccounts` | two requests, two users, one role, three ids: enough to assign, remove and assign again during one save |
| `users_profile` | UserRecords | violation of `ProfileUpdateKeepsTheRest` | two passwords |
| `routes` | RoutePermissions | `TypeOK`, `ActionsComeFromRows` | two requests, two endpoints that share a candidate route, three stored routes (one literal prefix, one pattern), two actions, two rows |
| `role_permissions` | RolePermissions | `TypeOK`, `AssignedMeansHeld`, `ReplaceKeepsShared` | two transactions, two roles and one that does not exist, two permissions and one unknown, three ids: overlapping replacements, duplicates, removals, requests that are refused, statements that fail |
| `onboarding` | Onboarding | `TypeOK`, `SuccessSpendsToken`, `PasswordNeedsToken`, `ExpiredInvitationsGo` | two requests, two emails of which one is whitelisted, one token of each kind, a clock of two values so that a token expires during a request |
| `queue` | JobQueue | `TypeOK`, `MessageInOnePlace`, `AttemptsBounded`, `ActiveJobsAreRunning`, `NoHandlerStartsInShutdown`, `ImplementsAtMostOnce`, `ShutdownEnds`, `QueueDrains` | both queues, two messages, so that one is handled while the other waits behind it, is in the other queue or is still on its way to Redis; "default" retries twice, "email" is configured with 0, which is 3 in the code, so that a message of the one with the attempts of the other would be noticed |
| `process` | ServerProcess | `TypeOK`, `CountIsExact`, `NobodyLeftBehind`, `CleanExit`, `ProcessStops` | two connections, one cron run, one queue with one message; the waits 1, 2, 1, 2 and 3 keep the order of the real ones and let the force-exit timer fire in every step |
| `bootstrap` | Bootstrap | `BTypeOK`, `ListensWithAdmin`, `AdminIsSetUp`, `EveryReplicaListens` | three replicas, two permissions, one failure |
| `api` | ApiRequests | `TypeOK`, `ImplementsContract`, `ProbesAreHonest`, `RequestsAnswered` | one client, as requests meet each other only in the limiters' counters, which `hits` keeps across requests; requests for all endpoints at their path and at the documented one, with UUIDs and numbers as parameters, good and bad tokens, bodies and queries, the probes, unknown paths and versions, unparsable bodies; limits of one request per window, so that each limiter is met at its limit; one UUID for all (`Uuids`), as a parameter's value is only looked at for its form |

Every bound is a constant: `Slots`, `MaxTime`, `MaxIds`, `MaxGrants`, `MaxPermissions`, `MaxFailures`, and the sets. When an id bound is used up, a request that needs another id stays
where it is; no liveness property is checked in the modules that have such a bound. Symmetry is over slots only, and only in runs without liveness properties. Deadlock is checked in
`process`, which always has something to do; and in `api`, where a client can always ask again; in the other modules the bounds (a clock that stops, ids used up) or a quiet system may leave nothing to do, so their cfgs switch it off.

### What the violations show

- `auth_logout_schema`: logout writes the pid, a UUID string, to `token_blacklist.user_id`, an integer column (`models/TokenBlacklist.ts:14`). Postgres refuses
  the row, so logout fails for every token. The unit test mocks the repository.
- `users_profile`: updateProfile says "Update allowed fields only" (`services/user.service.ts:77`) and saves the whole entity. A password changed between its load and its save is set back.

### Fairness

- `JobQueue`: the shutdown's steps and each loop's steps happen (weak fairness; they are continuations of timers and local code), and BRPOP on a
  non-empty list is answered again and again (strong fairness, because closing and the five second time-out disable and enable it). Publishers, consumers' start and stop, handlers that
  hang and crashes have none.
- `ServerProcess`: only the clock, the force-exit timer and the one-second timer after an uncaught exception are fair: those are Node timers. Requests, cron runs, queries, handlers and clients may hang for ever; the process still ends.
- `Onboarding`: only the daily cron job is fair.
- `ApiRequests`: each step of a client's request happens, that is, every query and every call a handler awaits settles. Clients, windows and the shutdown have no fairness.
  That things may hang for ever, and what the process does then, is in `ServerProcess`.
- `Bootstrap`: each replica goes on or is started again, which is `restart: always` in `src/docker-compose.prod.yml:55`.
- `AuthSessions`, `UserRecords`, `RoutePermissions`, `RolePermissions` state safety only and assume no fairness.

## 4. Proofs

**AuthSessionsProofs**, for every set of users, roles and slots, every lifetime and clock bound, with or without failing queries and whatever the column takes.
The inductive invariant is `IInv == TypeOK /\ RequestsInv /\ OneLogoutPerToken`. `RequestInv(s)` says for each await what the request has established so far: that a
token past the lookup was not revoked at its arrival (`TokenPassed`), that its roles and the entity loaded by login were the user's at some moment (`WasTrue`), that a logout past its first insert has its
token on the blacklist. The properties themselves are not inductive because they speak of requests that have their answer already. The proof goes: the invariant of a slot is
stable when another slot steps and when the clock or the accounts move (`RequestInvStable`, `CommitInv`), then one lemma per group of actions. It gives
`TypeCorrect`, `LiveTokensOnly`, `ClaimsHeld`, `LogoutComplete`, `LogoutOnce`. It assumes what `ConstantsAssumption` says, in particular that a user has finitely many roles: areArraysEqual compares lengths.

**UserRecordsProofs**, for every set of users, roles, passwords, profiles and slots. `IInv == TypeOK /\ GrantsAreKeyed /\ RequestsInv`, where `RequestsInv` says that what a request holds
is keyed and belongs to its user, so that what save puts back under its old id cannot clash. It gives `TypeCorrect`, `KeyedGrants`, `RolesLeave`, and `Implements`: every
behaviour of the user services changes the accounts as `Accounts` says, which is the environment under which the session theorems are proved. The two together therefore speak of the composed system.

**JobQueueProofs**, for any queues, messages and retry limits. `MessageInOnePlace` is not inductive: it does not say what a loop holds in its hand when. `Placed` says it of whole lists, `LoopsHold` that a loop
holds a message exactly when it is past BRPOP and that its retries are counted from zero, `AttemptsBounded` is part of the invariant itself: a message in a list or on its way was given to no handler, and one that a loop holds as often as the loop has counted, which is at most once more than the limit of that loop's own queue;
once it has left the loop's hand it is tried no more, as there is no requeueing. `JobsHold` says that the active jobs are running handlers even after closeAllQueues forgot some. It gives `TypeCorrect`, `OnePlace`, `BoundedAttempts`, `JobsAreHandlers`, `QuietShutdown`, and `Implements`: each step is one of `AtMostOnceQueue` or a stutter.

**ServerProcessProofs**, for any connections, cron runs, queues and lengths of the five waits. First the lemma `QueuesAsSpecified`: every step of the process is a step of `JobQueue` or leaves it alone. That holds by the way the module is composed and says nothing of the code; it is there so that the theorem of `JobQueueProofs`
can be used of the queues within the process (`QueueInvariant`, through `Proved == INSTANCE JobQueueProofs`) and is not proved a second time. Beside it the process's own invariant: `OwnTypeOK`, `CountIsExact` (the count is the cardinality of the set of
requests in flight) and `InOrder` (what is closed by which step, and that no cron job is scheduled any more). `NobodyLeftBehind` is an action property and follows from it step by step: `since` is the moment at which the wait at hand began, and each wait ends only when
what it waits for has ended or its own time since then is over. It gives `TypeCorrect`, `ExactCount`, `WaitedForAll`, `ExitsClean`.

There too, of the start by any number of replicas, with any permissions and failures (`Bootstrap`): `ListensWithAdmin` is not inductive: it says nothing of a replica on its way. `StageInv(r)` adds what replica r has established
by the await it is at (the role before it looks for the user, the user's row afterwards, a permission's row before it grants it). `ReplicaStep` shows that one step keeps it for r and deletes no row;
`StageInvStable` that it therefore stays true of every other replica. It gives `BootstrapTypes` and `AdminBeforeListening`.

**OnboardingProofs**, for any users, tokens, requests and clock. `SuccessSpendsToken` speaks of requests that have answered; `Registering`, `Issuing` and `Resetting` say for each await before it what the request has loaded, that the row it holds
still agrees with the table except for `used`, and that the token was good when it arrived. `Onward` is what any step does to the tables at most (tokens are never replaced by others, `used` is never taken back), so that another
request's clauses survive it (`SameHolds`). It gives `TypeCorrect`, `SpentBySuccess`, `TokenForPassword`, with queries failing and crashes anywhere.

**RolePermissionsProofs**, for any roles, permissions, requests and number of rows, under read committed. `AssignedMeansHeld` and `ReplaceKeepsShared` need to know what a commit takes away. `Progress`, `RowsOf` and `Kept` say how far a
transaction is, whose rows it has touched, and that what its loop has passed is visible to it. The heart is `Apart(s, t)`: of two transactions on one role, the DELETE that looked later has found all that is left of the rows of the other, and waits for them; so only one of the two
has rows deleted, and a commit never takes away rows another transaction counts on. It gives `TypeCorrect`, `SuccessMeansHeld`, `SharedKept`.

**RoutePermissionsProofs**, for routes of every length, any endpoints, roles and requests. `MatchesIsFits`: the comparison segment by segment accepts exactly the routes that come out of the pattern's by making some segments parameters. `CacheHolds` says that a cached action
belongs to a row and a cached absence to a key that no row of the start fits; `Resolved` that a request has found nothing for the candidates before the one it is at. A createPermission between a query and the write of the cache is why absence speaks of the rows of the start only.
It gives `TypeCorrect` and `JudgedByRows`.

**ApiRequestsProofs**, for all requests, with any path, verb, parameters and body, any limits, versions and number of clients; the endpoints are those of the code. The run takes requests that somebody wrote down; the theorem is about a path nobody thought of.
First the endpoints: one lemma per router, from which `EveryEndpoint`: each is declared at the path of its document (but for two, `Misplaced`), has a validator when its path has a parameter, is behind authenticate unless it is one of the five that `src/README.md:286-293` calls public (`Public`) or one of the three that lack it although the documents ask for a token (`Unauthenticated`), and its handler answers success only as documented. The handlers of the
two of these that are not logout never answer success (`InvitationsRefuse`).
`RoutedAsDocumented` then says that a request which the validators of its route let pass is served by the operation that the document has for it. OpenAPI prefers a concrete path to one with parameters; Express takes the first declared.
They agree without any use of that order: where the route has a parameter, a request that passes has a UUID there, and no documented path has such a segment, so any documented path that the request fits has a parameter there too. The order decides only who refuses. (TLC's mutant `AcceptsAnyString` shows that
without the schemas the wrong operations would run.) `ImplementsContract` and `ProbesAreHonest` are not inductive: they say nothing of a request on its way. `ClientInv(c)` says for each middleware what the request has passed: the token that was good (or that the operation asks for none), the validators left on its stack or passed, the handler that was called and what it
may still answer; and for a probe, which stage of the shutdown it had seen before its await. It gives `InvariantHolds`, `TypeCorrect`, `HonestProbes` and `Implements`: each step is one of `ApiContract` or a stutter.

**Assumptions** on constants, evaluated by TLC in every run: each module's `ConstantsAssumption`; in particular the route tables of `RoutePermissions` are sequences of segments and `Absent`, `NoAction` are no actions; `NoneIsNoRow` of `Onboarding` (the marker of a missing row is not a row);
`QueueAssumption` of `ServerProcess` (its queues' constants satisfy `JobQueue`'s assumption);
of `ApiRequests`, that no segment of a documented path is a UUID and that the marker `None` is no request and no operation.

**Model-checked only**: the seven liveness properties (`ShutdownEnds`, `QueueDrains`, `ProcessStops`, `ExpiredInvitationsGo`, `AdminIsSetUp`, `EveryReplicaListens`, `RequestsAnswered`). Every invariant, every action property and every refinement that a passing run checks is also a theorem.
Liveness under fairness, ENABLED, induction over data and RECURSIVE operators are out of TLAPS's reach here; no module has a RECURSIVE operator. That two runs find a violation (`auth_logout_schema`, `users_profile`) is TLC's alone as well.

## 5. What the models take as given

- **Libraries**, modelled from how the code uses them and marked external in PROJECT.json: TypeORM's save, Postgres's constraints and read-committed transactions, Redis's BRPOP,
  Node's event loop, timers and `http.Server.close` (Node 20: it stops accepting, closes idle connections, and calls back when the last connection is gone), `AppDataSource.destroy` (cuts off running queries' callers).
- **Services are modelled as callable**, since tests, the bootstrap and other services call them, although over HTTP some never get that far at present: every route with `authorize` refuses (below);
  the invitation routes lack `authenticate`, so the service finds no administrator and throws a plain object, which errorHandler answers with 500; the schema of `/auth/register` drops `invitationToken`, so mode INVITATION always refuses at the route;
  RoleService.updateRole and deleteRole load a relation `users` that Role does not have, and always throw; removePermissionsFromRole's DELETE names a table it does not join, and always fails.
- **E-mail**: no provider is ever registered in the e-mail service's map, so sendEmail always throws; forgotPassword swallows that, so reset tokens are made and never mailed.

## 6. Deviations met while modelling, without a run of their own

- deactivateUser checks the administrator role on the roles it loaded; ADMIN assigned between the load and the save is not noticed, and an administrator is deactivated. A save with a stale relation puts a role back that removeRole has just removed.
- Logout broken off between its inserts cannot be repeated: the access token is a duplicate then, and the refresh token stays good.
- Two registrations may both redeem one invitation, and a refused or failing useToken leaves the new user behind. resetPassword may answer a refusal although the password has changed.
- stopConsumer only sets a flag; its loop goes on. `maxRetries: 0` means 3 (`infrastructure/queue/BaseQueue.ts:43`). A publish that passed the checks before the shutdown began still pushes its message.
- The signal handlers are not registered, and nothing is logged, when SIGTERM or SIGINT has two listeners or more already (`infrastructure/shutdown/SignalHandler.ts:42`): a signal then ends the process at once or not at all.
- An unknown REGISTRATION_MODE admits everybody, like `public` (`config/auth.ts:49-50`). A list of permissions that repeats an id is refused with "Some permissions not found" (`services/rolePermission.service.ts:62`).
- "Wait for active jobs to complete" (`infrastructure/queue/QueueInitializer.ts:144`): a job that failed and sleeps before its retry is not active, so the shutdown goes on at once and the job is dropped with retries left.
- A signal during the bootstrap finds no server to close, and startServer calls `app.listen` afterwards: connections are accepted during the shutdown. The database is closed before the requests in flight are waited for.
- A crash between creating the administrator and assigning ADMIN leaves an administrator without the role; a bootstrap broken off while granting is never completed by a later one, which finds some permissions and stops looking.
- `permissions` and `role_permissions` have no unique index: replicas or requests that race insert a row twice, and removing one assignment by id leaves the other. With such a duplicate, a replacement that keeps a permission and a removal of its second row may together lose it (`ReplaceKeepsShared` makes the exception). Two
  replacements that overlap may leave the union of both lists.
- createPermission clears "cache for this method-route combination" (`services/permission.service.ts:388`) in its own instance. Services are registered transient in spite of the comment "Register services as singletons" (`container/index.ts:111`), so the middleware's cache, with absences in it, stays until the process ends.
  Routes stored through the API keep the prefix `/api/v1` that its schema demands, and authorize strips it from requests, so such rows match nothing.
- isAuthorized takes "Array of role names" (`services/auth.service.ts`), and authenticate leaves the token's Role objects there. No role name equals one, so every route with `authorize` refuses everybody.
- createUserWithRoles with roles always rolls back: the role is assigned on another connection, which does not see the new user.
- Documented operations that always refuse, because an earlier `/:id` takes their path and its parameter schema rejects it: GET `/users/roles` (`routes/user.routes.ts:165`), GET `/permissions/grouped`, `/routes`, `/stats`, `/unused`, `/usage`, `/analysis`
  (`routes/permission.routes.ts:156`). It is only the schema that keeps the wrong operation from running (mutant `AcceptsAnyString`).
- Schemas that demand numbers (`validations/common/schemas.ts:28`, `validations/entities/rolePermission.schemas.ts:44`) get strings from Express, so `/permissions/:id`, everything that names a role or a permission in `/role-permissions` or a role in `/user-roles`,
  and the pages of a role's permissions answer 400 to every value.
- Two operations on role permissions are declared below another path than the documented one (`Misplaced` in `ApiRoutes` makes the exception).
- Three operations run for callers without a token although the documents ask for one (`Unauthenticated` in `ApiRoutes`; everything else is held to the documents). The published document demands a bearer token of every operation, as its root has `security: bearerAuth` (`config/swagger.ts:322-326`) and no operation overrides that;
  formally this includes login, registration, refresh and the password reset, which `src/README.md:286-293` marks as public (`Public`). `src/README.md:338-339` marks POST and GET `/invitation-tokens` "Auth Required ✅", and the block of the first says "for the authenticated user" (`routes/invitationToken.routes.ts:20`), but
  `routes/invitationToken.routes.ts:39-69` has no `authenticate`: the handlers run for any caller, find no `req.user`, and answer 500 where 401 is documented. They never succeed, for anyone (`MaySucceed`, mutant `OnlyAdminsUnchecked`). logout is "Auth Required ✅" as well (`src/README.md:291`)
  and has no `authenticate`; it reads the token itself, without verifying it, and answers 400 without one.
- `src/README.md:340` lists POST `/invitation-tokens/validate`; no route declares it.
- Rate limits: the global limit of 100 requests in 15 minutes is met before every other, so the 60 a minute of the API last for two minutes at most; the limiter of `/auth`, meant for login attempts, counts all its endpoints; `customKeyGenerator` and the message of authRateLimitConfig are unused;
  `src/README.md:616` names RATE_LIMIT_MAX_REQUESTS where the code reads RATE_LIMIT_MAX.
- Services throw plain Errors where the document promises 404 or 409, and errorHandler makes 500 of them, as of a body that does not parse. The e-mail endpoints always answer 403: they look for a role name among Role objects, too.
- `QUEUE_PROVIDER=memory` (`src/README.md:608`) has no effect; redis is always used.

## 7. Not modelled

In-memory queue and cache providers (nothing uses them), DTOs and the fields of bodies (only whether they fit their schema), the container, the text of the Swagger pages, logging, environment validation, and all queries that only report:
they keep no state that another part depends on, or are wiring. The windows and keys of the rate limiters are express-rate-limit's; one client address is modelled. E-mail sending is a call that fails (Onboarding) or a job (JobQueue).

## 8. Plan

Done in this order, the most important behaviour first: sessions and their proofs; queues; user records, their proofs and the refinement to `Accounts`; the process; onboarding; bootstrap; permissions; the HTTP interface against its document;
the proofs of queues, process, onboarding and permissions; the proof that the HTTP interface implements its document.

Next:
1. The theorems of `UserRecords` and `AuthSessions` as one about their composition, in which the environment of the sessions is the user services themselves.
2. An abstract specification of a role's permissions, implemented by `RolePermissions` and used by `RoutePermissions` as `Accounts` is used by `AuthSessions`.
3. The in-memory queue as a second implementation of `AtMostOnceQueue`, and the cache providers, once something uses them.
4. The statuses in `ApiControllers` derived from the outcomes of the service modules, so that an endpoint's answer and its effect are one step.
