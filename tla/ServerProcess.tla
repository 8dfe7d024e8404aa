---------------------------- MODULE ServerProcess ----------------------------
(***************************************************************************)
(* The life of the server process: startServer (app.ts), the signal        *)
(* handlers (SignalHandler), the graceful shutdown (ShutdownManager), the  *)
(* cron jobs (CronJobManager), the requests that connectionTracking counts *)
(* and, composed from module JobQueue, the background queues.              *)
(*                                                                         *)
(* A signal may arrive at any await of the start or of a request.  The     *)
(* shutdown's waits are measured on a clock that runs from the signal on,  *)
(* in units coarser than the seconds of the code.                          *)
(***************************************************************************)
EXTENDS Naturals, FiniteSets, Sequences

CONSTANTS
    QueueOrder, Messages, MaxRetries, None,   \* see JobQueue
    Conns,           \* connections that clients may open
    Runs,            \* runs of cron jobs that may overlap
    CronWait,        \* CronJobManager.stopAll: 20 s
    QueueWait,       \* QueueInitializer.shutdown: 25 s
    CloseWait,       \* RedisQueue.close: 5 s
    RequestWait,     \* waitForActiveConnections: timeout - 5 s
    ForceExitAfter   \* the force-exit timer: 35 s

ASSUME WaitsAssumption ==
    /\ {CronWait, QueueWait, CloseWait, RequestWait, ForceExitAfter} \subseteq Nat
    /\ IsFiniteSet(Conns)

VARIABLES
    sent, list, phase, closing, queueDown, loop, hand, tries, activeJobs, running, fate, attempts,
    boot,     \* the await at which startServer is
    caught,   \* do signals and exceptions reach SignalHandler?
    server,   \* the HTTP server
    sock,     \* Conns: is the connection open?
    work,     \* Conns: the request on it, which survives its connection
    activeConnections,   \* ShutdownManager.activeConnections
    db,       \* AppDataSource
    cron,     \* are the cron jobs scheduled?
    runs,     \* CronJobManager.runningJobs
    step,     \* the step of performShutdown
    elapsed,  \* the clock, since the signal
    since,    \* its value when the current wait began
    dying,    \* has the timer after an uncaught exception been set?
    exit      \* how the last process ended

Queue == INSTANCE JobQueue

ASSUME QueueAssumption == Queue!ConstantsAssumption

queueVars == <<sent, list, phase, closing, queueDown, loop, hand, tries, activeJobs,
               running, fate, attempts>>
webVars == <<server, sock, work, activeConnections>>
stopVars == <<step, elapsed, since>>
vars == <<queueVars, webVars, stopVars, boot, caught, db, cron, runs, dying, exit>>

Counted == {"handling", "query"}

Steps == {"none", "cron", "queue", "db", "requests", "server"}

TypeOK ==
    /\ Queue!TypeOK
    /\ boot \in {"off", "database", "admin", "listening"}
    /\ caught \in BOOLEAN
    /\ server \in {"none", "listening", "closed"}
    /\ sock \in [Conns -> BOOLEAN]
    /\ work \in [Conns -> {"none", "arriving"} \cup Counted]
    /\ activeConnections \in Nat
    /\ db \in {"closed", "open", "ending"}
    /\ cron \in BOOLEAN
    /\ runs \subseteq Runs
    /\ step \in Steps
    /\ elapsed \in 0..ForceExitAfter
    /\ since \in 0..elapsed
    /\ dying \in BOOLEAN
    /\ exit \in {"none", "clean", "failed"}

Init ==
    /\ Queue!Init
    /\ boot = "off"
    /\ caught = FALSE
    /\ server = "none"
    /\ sock = [c \in Conns |-> FALSE]
    /\ work = [c \in Conns |-> "none"]
    /\ activeConnections = 0
    /\ db = "closed"
    /\ cron = FALSE
    /\ runs = {}
    /\ step = "none"
    /\ elapsed = 0
    /\ since = 0
    /\ dying = FALSE
    /\ exit = "none"

\* process.exit, or the process is killed.
Exit(how) ==
    /\ boot' = "off"
    /\ caught' = FALSE
    /\ server' = "none"
    /\ sock' = [c \in Conns |-> FALSE]
    /\ work' = [c \in Conns |-> "none"]
    /\ activeConnections' = 0
    /\ db' = "closed"
    /\ cron' = FALSE
    /\ runs' = {}
    /\ step' = "none"
    /\ elapsed' = 0
    /\ since' = 0
    /\ dying' = FALSE
    /\ exit' = how
    /\ IF phase = "off" THEN UNCHANGED queueVars ELSE Queue!ProcessEnds

-----------------------------------------------------------------------------
(* startServer                                                             *)

Start ==
    /\ boot = "off"
    /\ boot' = "database"
    /\ exit' = "none"
    /\ UNCHANGED <<queueVars, webVars, stopVars, caught, db, cron, runs, dying>>

\* Nothing is registered, and no word said, if signals or exceptions have too many
\* listeners already.
RegisterHandlers == caught' \in BOOLEAN

\* The database is ready.  Without waiting for I/O startServer registers the
\* signal handlers, schedules the cron jobs, starts the queues and begins the
\* bootstrap of the administrator.
DatabaseReady ==
    /\ boot = "database"
    /\ boot' = "admin"
    /\ RegisterHandlers
    /\ db' = "open"
    /\ cron' = TRUE
    /\ Queue!Boot
    /\ UNCHANGED <<webVars, stopVars, runs, dying, exit>>

\* The last query of the bootstrap has succeeded: app.listen and setServer.
Listen ==
    /\ boot = "admin" /\ db # "closed"
    /\ boot' = "listening"
    /\ server' = "listening"
    /\ UNCHANGED <<queueVars, sock, work, activeConnections, stopVars, caught, db, cron, runs, dying, exit>>

\* process.exit(1) in the catch of startServer.
StartFails == boot \in {"database", "admin"} /\ Exit("failed")

-----------------------------------------------------------------------------
(* Requests                                                                *)

Accept(c) ==
    /\ server = "listening" /\ ~sock[c] /\ work[c] = "none"
    /\ sock' = [sock EXCEPT ![c] = TRUE]
    /\ UNCHANGED <<queueVars, server, work, activeConnections, stopVars, boot, caught, db, cron, runs, dying, exit>>

\* A connection is kept alive for further requests, even if the server is
\* closed meanwhile.  The body is read before the request is counted.
Request(c) ==
    /\ sock[c] /\ work[c] = "none"
    /\ work' = [work EXCEPT ![c] = "arriving"]
    /\ UNCHANGED <<queueVars, server, sock, activeConnections, stopVars, boot, caught, db, cron, runs, dying, exit>>

\* The body is complete, or there is none: connectionTracking is next.
BodyParsed(c) ==
    /\ work[c] = "arriving"
    /\ work' = [work EXCEPT ![c] = "handling"]
    /\ activeConnections' = activeConnections + 1
    /\ UNCHANGED <<queueVars, server, sock, stopVars, boot, caught, db, cron, runs, dying, exit>>

\* The body is no JSON or too large: the request is answered and never counted.
BodyRejected(c) ==
    /\ work[c] = "arriving"
    /\ work' = [work EXCEPT ![c] = "none"]
    /\ UNCHANGED <<queueVars, server, sock, activeConnections, stopVars, boot, caught, db, cron, runs, dying, exit>>

\* Once the pool is ending, queries are refused and the request goes on to
\* answer with an error.
Query(c) ==
    /\ work[c] = "handling" /\ db = "open"
    /\ work' = [work EXCEPT ![c] = "query"]
    /\ UNCHANGED <<queueVars, server, sock, activeConnections, stopVars, boot, caught, db, cron, runs, dying, exit>>

QueryEnds(c) ==
    /\ work[c] = "query"
    /\ work' = [work EXCEPT ![c] = "handling"]
    /\ UNCHANGED <<queueVars, server, sock, activeConnections, stopVars, boot, caught, db, cron, runs, dying, exit>>

\* Mutant of Respond: only requests whose client is still there are counted down.
RespondIfOpen(c) ==
    /\ work[c] = "handling"
    /\ work' = [work EXCEPT ![c] = "none"]
    /\ activeConnections' = IF sock[c] THEN activeConnections - 1 ELSE activeConnections
    /\ UNCHANGED <<queueVars, server, sock, stopVars, boot, caught, db, cron, runs, dying, exit>>

\* Mutant of Respond: the end of a request is counted for its connection as well.
RespondCountsTwice(c) ==
    /\ work[c] = "handling"
    /\ work' = [work EXCEPT ![c] = "none"]
    /\ activeConnections' = activeConnections - 2
    /\ UNCHANGED <<queueVars, server, sock, stopVars, boot, caught, db, cron, runs, dying, exit>>

\* res.end, as connectionTracking overrides it.
Respond(c) ==
    /\ work[c] = "handling"
    /\ work' = [work EXCEPT ![c] = "none"]
    /\ activeConnections' = IF activeConnections = 0 THEN 0 ELSE activeConnections - 1
    /\ UNCHANGED <<queueVars, server, sock, stopVars, boot, caught, db, cron, runs, dying, exit>>

\* The client closes the connection, or it was idle for too long.  A request whose
\* body breaks off ends with it, one that is being handled does not.
Disconnect(c) ==
    /\ sock[c]
    /\ sock' = [sock EXCEPT ![c] = FALSE]
    /\ work' = [work EXCEPT ![c] = IF @ = "arriving" THEN "none" ELSE @]
    /\ UNCHANGED <<queueVars, server, activeConnections, stopVars, boot, caught, db, cron, runs, dying, exit>>

-----------------------------------------------------------------------------
(* Cron jobs                                                               *)

CronFires(r) ==
    /\ cron /\ r \notin runs
    /\ runs' = runs \cup {r}
    /\ UNCHANGED <<queueVars, webVars, stopVars, boot, caught, db, cron, dying, exit>>

CronRunEnds(r) ==
    /\ r \in runs
    /\ runs' = runs \ {r}
    /\ UNCHANGED <<queueVars, webVars, stopVars, boot, caught, db, cron, dying, exit>>

-----------------------------------------------------------------------------
(* Signals and exceptions, if SignalHandler has its handlers registered    *)

\* http.Server.close: connections without a request are closed as well.
CloseServer ==
    /\ server' = IF server = "none" THEN "none" ELSE "closed"
    /\ sock' = [c \in Conns |-> sock[c] /\ (work[c] # "none" \/ server = "none")]
    /\ UNCHANGED <<work, activeConnections>>

\* Mutant of Signal: a second signal starts the shutdown again.
SignalAgain ==
    /\ caught
    /\ step' = "cron"
    /\ elapsed' = 0
    /\ since' = 0
    /\ CloseServer
    /\ cron' = FALSE
    /\ UNCHANGED <<queueVars, boot, caught, db, runs, dying, exit>>

\* The first signal begins the shutdown, later ones are ignored.  The server
\* stops accepting and the cron jobs are stopped before anything is awaited.
Signal ==
    /\ caught /\ step = "none"
    /\ step' = "cron"
    /\ elapsed' = 0
    /\ since' = 0
    /\ CloseServer
    /\ cron' = FALSE
    /\ UNCHANGED <<queueVars, boot, caught, db, runs, dying, exit>>

UncaughtException ==
    /\ caught /\ ~dying
    /\ dying' = TRUE
    /\ UNCHANGED <<queueVars, webVars, stopVars, boot, caught, db, cron, runs, exit>>

ExitAfterException == dying /\ Exit("failed")

\* SIGKILL; without the handlers any signal or exception.
Killed == boot # "off" /\ Exit("failed")

-----------------------------------------------------------------------------
(* performShutdown                                                         *)

GoTo(s) ==
    /\ step' = s
    /\ since' = elapsed
    /\ UNCHANGED elapsed

\* Mutant of Waited: every wait is measured from the signal.
WaitedSinceSignal(time) == elapsed >= time

Waited(time) == elapsed >= since + time

\* CronJobManager.stopAll returns, QueueInitializer.shutdown begins.
CronStops ==
    /\ step = "cron"
    /\ runs = {} \/ Waited(CronWait)
    /\ GoTo("queue")
    /\ Queue!BeginShutdown
    /\ UNCHANGED <<webVars, boot, caught, db, cron, runs, dying, exit>>

\* The waits of QueueInitializer.shutdown; each begins when the last one ends.
QueueWaits ==
    /\ step = "queue"
    /\ \/ Queue!JobsDone
       \/ Queue!JobsTimeOut /\ Waited(QueueWait)
       \/ Queue!QueueCloses
       \/ Queue!CloseTimesOut /\ Waited(CloseWait)
    /\ GoTo("queue")
    /\ UNCHANGED <<webVars, boot, caught, db, cron, runs, dying, exit>>

\* AppDataSource.destroy is called: the pool takes no more queries.
QueueStops ==
    /\ step = "queue" /\ phase = "down"
    /\ GoTo("db")
    /\ db' = "ending"
    /\ UNCHANGED <<queueVars, webVars, boot, caught, cron, runs, dying, exit>>

\* The pool has ended.  It does not wait for the queries under way: those of
\* requests, of cron jobs and of the bootstrap are cut off.
DatabaseDestroyed ==
    /\ step = "db"
    /\ GoTo("requests")
    /\ db' = "closed"
    /\ UNCHANGED <<queueVars, webVars, boot, caught, cron, runs, dying, exit>>

\* Mutant of RequestsDone: the server is not closed a second time.
RequestsDoneAndExit ==
    /\ step = "requests"
    /\ activeConnections = 0 \/ Waited(RequestWait)
    /\ Exit("clean")

\* waitForActiveConnections returns, closeHttpServer begins.
RequestsDone ==
    /\ step = "requests" /\ server # "none"
    /\ activeConnections = 0 \/ Waited(RequestWait)
    /\ GoTo("server")
    /\ CloseServer
    /\ UNCHANGED <<queueVars, boot, caught, db, cron, runs, dying, exit>>

\* server.close calls back, or there is no server: process.exit(0).
ShutdownDone ==
    /\ \/ step = "server" /\ \A c \in Conns : ~sock[c]
       \/ /\ step = "requests" /\ server = "none"
          /\ activeConnections = 0 \/ Waited(RequestWait)
    /\ Exit("clean")

\* Mutant of ForceExit: the timer is cleared when the last step begins.
ForceExitUnlessLast ==
    step \notin {"none", "server"} /\ elapsed >= ForceExitAfter /\ Exit("failed")

ForceExit == step # "none" /\ elapsed >= ForceExitAfter /\ Exit("failed")

Tick ==
    /\ step # "none" /\ elapsed < ForceExitAfter
    /\ elapsed' = elapsed + 1
    /\ UNCHANGED <<queueVars, webVars, step, since, boot, caught, db, cron, runs, dying, exit>>

-----------------------------------------------------------------------------
\* The queues go on by themselves while the process runs; what it has sent to Redis
\* arrives even if it has ended.
QueueStep ==
    /\ \/ /\ boot # "off"
          /\ \E q \in Queue!Queues :
                \/ Queue!LoopStep(q) \/ Queue!StartConsumer(q) \/ Queue!StopConsumer(q)
                \/ \E m \in Messages : Queue!Publish(q, m)
       \/ \E q \in Queue!Queues, m \in Messages : Queue!PushLands(q, m) \/ Queue!PushFails(q, m)
    /\ UNCHANGED <<webVars, stopVars, boot, caught, db, cron, runs, dying, exit>>

WebStep ==
    \/ \E c \in Conns :
        \/ Accept(c) \/ Request(c) \/ BodyParsed(c) \/ BodyRejected(c) \/ Query(c)
        \/ QueryEnds(c) \/ Respond(c) \/ Disconnect(c)
    \/ \E r \in Runs : CronFires(r) \/ CronRunEnds(r)

StartStep == Start \/ DatabaseReady \/ Listen \/ StartFails

ShutdownStep ==
    \/ CronStops \/ QueueWaits \/ QueueStops \/ DatabaseDestroyed
    \/ RequestsDone \/ ShutdownDone

Next ==
    \/ StartStep \/ WebStep \/ QueueStep \/ ShutdownStep
    \/ Signal \/ UncaughtException \/ Killed
    \/ ExitAfterException \/ ForceExit \/ Tick

Spec == Init /\ [][Next]_vars

\* The clock runs and the timers that have been set fire.  Neither requests nor
\* cron jobs, nor handlers, nor queries need ever end.
FairSpec ==
    /\ Spec
    /\ WF_vars(Tick) /\ WF_vars(ForceExit) /\ WF_vars(ExitAfterException)

-----------------------------------------------------------------------------
(* Properties                                                              *)

\* The requests that connectionTracking has counted, and the queues whose handler
\* runs.
AtWork == {c \in Conns : work[c] \in Counted}
Handling == {q \in Queue!Queues : loop[q] = "running"}

\* The number of connections that the shutdown waits for is the number of
\* requests being handled, whoever hangs up.
CountIsExact == activeConnections = Cardinality(AtWork)

\* What the shutdown waits for now, and since when: no two of these are alike.
Wait == <<step, phase, closing>>

\* The shutdown leaves a cron job, a handler, a queue's loop or a request behind
\* only after it has waited for it, from the beginning of that very wait, as long
\* as it should.  Meanwhile and afterwards no cron job starts, and no handler once
\* the queues are being shut down.  Only the force-exit timer cuts a wait short.
NobodyLeftBehind ==
    [][step # "none" /\ (boot' # "off" \/ exit' = "clean") =>
          /\ runs' \subseteq runs
          /\ step # "cron" => Handling' \subseteq Handling
          /\ boot' # "off" => since' = (IF Wait' = Wait THEN since ELSE elapsed)
          /\ step = "cron" /\ step' # step =>
                 runs = {} \/ elapsed - since >= CronWait
          /\ phase = "waiting" /\ phase' # phase =>
                 Handling = {} \/ elapsed - since >= QueueWait
          /\ phase = "closing" /\ Wait' # Wait =>
                 loop[QueueOrder[closing]] \in {"off", "ended"} \/ elapsed - since >= CloseWait
          /\ step = "requests" /\ step' # step =>
                 AtWork = {} \/ elapsed - since >= RequestWait]_vars

\* If performShutdown ends by itself, so that the process exits with 0, then the
\* database and every connection is closed.
CleanExit ==
    [][boot # "off" /\ exit' = "clean" => db = "closed" /\ \A c \in Conns : ~sock[c]]_vars

\* Once a signal was caught, or an exception was not, the process ends, although
\* requests, jobs and queries may hang.
ProcessStops == step # "none" \/ dying ~> boot = "off"
=============================================================================
