------------------------ MODULE ServerProcessProofs ------------------------
(***************************************************************************)
(* Theorems about the server process, for any queues, connections, cron    *)
(* runs and waits: its queues behave as JobQueue says, so that all that is *)
(* proved of JobQueue holds in the process; the count of requests is       *)
(* exact; and the shutdown leaves work behind only when it has waited.     *)
(* And about its start by any number of replicas: none of them listens     *)
(* before the administrator and the role ADMIN are in the database.        *)
(***************************************************************************)
EXTENDS ServerProcess, Bootstrap, FiniteSetTheorems, TLAPS

\* The same queues, with what is proved of them.
Proved == INSTANCE JobQueueProofs

-----------------------------------------------------------------------------
(* The queues                                                              *)

LEMMA QueueInitSame == Queue!Init => Proved!Init
BY DEF Queue!Init, Proved!Init, Queue!Queues, Proved!Queues

LEMMA QueueNextSame == [Queue!Next]_(Queue!vars) => [Proved!Next]_(Proved!vars)
BY DEF Queue!vars, Queue!Queues, Queue!Next, Queue!Boot, Queue!Publish, Queue!Accepting,
       Queue!StartConsumer, Queue!StopConsumer, Queue!LoopStep, Queue!BrpopReplies,
       Queue!BrpopTimesOut, Queue!BrpopFails, Queue!Attempt, Queue!HandlerSucceeds,
       Queue!HandlerFails, Queue!BackoffEnds, Queue!NextRound, Queue!AfterError, Queue!Settle,
       Queue!BeginShutdown, Queue!ShutdownStep, Queue!JobsDone, Queue!JobsTimeOut,
       Queue!QueueCloses, Queue!CloseTimesOut, Queue!CloseQueue, Queue!ProcessEnds,
       Queue!PushLands, Queue!PushFails, Queue!Limit, Proved!PushLands, Proved!PushFails,
       Proved!Limit,
       Proved!vars, Proved!Queues, Proved!Next, Proved!Boot, Proved!Publish, Proved!Accepting,
       Proved!StartConsumer, Proved!StopConsumer, Proved!LoopStep, Proved!BrpopReplies,
       Proved!BrpopTimesOut, Proved!BrpopFails, Proved!Attempt, Proved!HandlerSucceeds,
       Proved!HandlerFails, Proved!BackoffEnds, Proved!NextRound, Proved!AfterError,
       Proved!Settle, Proved!BeginShutdown, Proved!ShutdownStep, Proved!JobsDone,
       Proved!JobsTimeOut, Proved!QueueCloses, Proved!CloseTimesOut, Proved!CloseQueue,
       Proved!ProcessEnds

LEMMA QueueStepRefines == [Next]_vars => [Queue!Next]_(Queue!vars)
<1> SUFFICES ASSUME [Next]_vars PROVE [Queue!Next]_(Queue!vars)
    OBVIOUS
<1>1. ASSUME NEW how, Exit(how) PROVE [Queue!Next]_(Queue!vars)
    BY <1>1 DEF Exit, queueVars, Queue!vars, Queue!Next
<1>2. CASE StartStep
    BY <1>1, <1>2
    DEF StartStep, Start, DatabaseReady, Listen, StartFails, queueVars, Queue!vars, Queue!Next
<1>3. CASE WebStep
    BY <1>3 DEF WebStep, Accept, Request, BodyParsed, BodyRejected, Query, QueryEnds, Respond, Disconnect, CronFires,
                CronRunEnds, queueVars, Queue!vars
<1>4. CASE QueueStep
    BY <1>4 DEF QueueStep, Queue!Next
<1>5. CASE ShutdownStep
    BY <1>1, <1>5
    DEF ShutdownStep, CronStops, QueueWaits, QueueStops, DatabaseDestroyed, RequestsDone,
        ShutdownDone, queueVars, Queue!vars, Queue!Next, Queue!ShutdownStep
<1>6. CASE Signal \/ UncaughtException \/ Tick
    BY <1>6 DEF Signal, UncaughtException, Tick, queueVars, Queue!vars
<1>7. CASE Killed \/ ExitAfterException \/ ForceExit
    BY <1>1, <1>7 DEF Killed, ExitAfterException, ForceExit
<1>8. CASE UNCHANGED vars
    BY <1>8 DEF vars, queueVars, Queue!vars
<1> QED
    BY <1>2, <1>3, <1>4, <1>5, <1>6, <1>7, <1>8 DEF Next

\* The process moves its queues by the actions of JobQueue only.
LEMMA QueuesAsSpecified == Spec => Queue!Spec
<1>1. Init => Queue!Init
    BY DEF Init
<1> QED
    BY <1>1, QueueStepRefines, PTL DEF Spec, Queue!Spec

\* So the invariant proved of JobQueue holds of them.
THEOREM QueueInvariant == Spec => []Proved!IInv
<1>1. Proved!Spec => []Proved!IInv
    BY Proved!InvariantHolds, QueueAssumption
    DEF Queue!ConstantsAssumption, Queue!Queues, Proved!Queues
<1>2. Queue!Spec => Proved!Spec
    BY QueueInitSame, QueueNextSame, PTL DEF Queue!Spec, Proved!Spec
<1> QED
    BY <1>1, <1>2, QueuesAsSpecified, PTL

-----------------------------------------------------------------------------
(* The inductive invariant of the process                                  *)

\* What is used of the queues.
QueueHolds ==
    /\ Queue!TypeOK
    /\ phase = "waiting" => activeJobs = Handling

OwnTypeOK ==
    /\ boot \in {"off", "database", "admin", "listening"}
    /\ caught \in BOOLEAN
    /\ server \in {"none", "listening", "closed"}
    /\ sock \in [Conns -> BOOLEAN]
    /\ work \in [Conns -> {"none", "arriving"} \cup Counted]
    /\ activeConnections \in Nat
    /\ db \in {"closed", "open", "ending"}
    /\ cron \in BOOLEAN
    /\ runs \subseteq Runs
    /\ step \in Steps
    /\ elapsed \in 0..ForceExitAfter
    /\ since \in 0..elapsed
    /\ dying \in BOOLEAN
    /\ exit \in {"none", "clean", "failed"}

\* What each step of the start and of the shutdown has left behind it.
InOrder ==
    /\ boot \in {"off", "database"} => phase = "off" /\ step = "none" /\ ~caught
    /\ boot # "off" => exit # "clean"
    /\ server = "none" => \A c \in Conns : ~sock[c]
    /\ step # "none" => ~cron
    /\ step \in {"none", "cron"} => phase \in {"off", "up"}
    /\ step = "queue" => phase \in {"waiting", "closing", "down"}
    /\ step \in {"db", "requests", "server"} => phase = "down"
    /\ step \in {"requests", "server"} => db = "closed"
    /\ step = "server" => server # "listening"

PInv == OwnTypeOK /\ CountIsExact /\ InOrder

LEMMA Waits ==
    /\ CronWait \in Nat /\ QueueWait \in Nat /\ CloseWait \in Nat /\ RequestWait \in Nat
    /\ ForceExitAfter \in Nat
BY WaitsAssumption

LEMMA ZeroElapsed == 0 \in 0..ForceExitAfter /\ 0 \in 0..0
BY Waits

LEMMA AtWorkFinite == IsFiniteSet(AtWork) /\ IsFiniteSet(AtWork')
<1>1. AtWork \subseteq Conns /\ AtWork' \subseteq Conns
    BY DEF AtWork
<1> QED
    BY <1>1, WaitsAssumption, FS_Subset

LEMMA InvInit == Init => PInv
<1> SUFFICES ASSUME Init PROVE PInv
    OBVIOUS
<1>1. AtWork = {} /\ phase = "off"
    BY DEF Init, AtWork, Counted, Queue!Init
<1>2. CountIsExact
    BY <1>1, FS_EmptySet DEF Init, CountIsExact
<1>3. OwnTypeOK
    BY ZeroElapsed DEF Init, OwnTypeOK, Steps
<1> QED
    BY <1>1, <1>2, <1>3 DEF Init, PInv, InOrder

\* The process ends, in whichever way.
LEMMA ExitInv ==
    ASSUME PInv, NEW how \in {"clean", "failed"}, Exit(how)
    PROVE  PInv'
<1>1. phase' = "off"
    BY DEF Exit, queueVars, Queue!ProcessEnds
<1>2. AtWork' = {}
    BY DEF Exit, AtWork, Counted
<1>3. CountIsExact'
    BY <1>2, FS_EmptySet DEF Exit, CountIsExact
<1>4. OwnTypeOK'
    BY ZeroElapsed DEF Exit, OwnTypeOK, Steps
<1> QED
    BY <1>1, <1>3, <1>4 DEF Exit, PInv, InOrder

\* No request begins or ends.
LEMMA SameCount == PInv /\ UNCHANGED <<work, activeConnections>> => CountIsExact'
BY DEF PInv, CountIsExact, AtWork

LEMMA StartInv == PInv /\ QueueHolds /\ StartStep => PInv'
<1> SUFFICES ASSUME PInv, QueueHolds, StartStep PROVE PInv'
    OBVIOUS
<1>1. CASE Start
  <2>1. CountIsExact'
    BY <1>1, SameCount DEF Start, webVars
  <2> QED
    BY <1>1, <2>1
    DEF Start, PInv, OwnTypeOK, InOrder, queueVars, webVars, stopVars
<1>2. CASE DatabaseReady
  <2>1. CountIsExact'
    BY <1>2, SameCount DEF DatabaseReady, webVars
  <2>2. phase' = "up" /\ step = "none"
    BY <1>2 DEF DatabaseReady, Queue!Boot, PInv, InOrder
  <2> QED
    BY <1>2, <2>1, <2>2
    DEF DatabaseReady, RegisterHandlers, PInv, OwnTypeOK, InOrder, webVars, stopVars
<1>3. CASE Listen
  <2>1. CountIsExact'
    BY <1>3, SameCount DEF Listen
  <2>2. step \notin {"requests", "server"}
    BY <1>3 DEF Listen, PInv, InOrder
  <2> QED
    BY <1>3, <2>1, <2>2
    DEF Listen, PInv, OwnTypeOK, InOrder, queueVars, stopVars
<1>4. CASE StartFails
    BY <1>4, ExitInv DEF StartFails
<1> QED
    BY <1>1, <1>2, <1>3, <1>4 DEF StartStep

\* A request is counted when its body has been read, and again when it ends.
LEMMA CountInv ==
    ASSUME PInv, NEW c \in Conns, BodyParsed(c) \/ Respond(c)
    PROVE  CountIsExact'
<1>1. activeConnections = Cardinality(AtWork)
    BY DEF PInv, CountIsExact
<1>2. CASE BodyParsed(c)
  <2>1. AtWork' = AtWork \cup {c} /\ c \notin AtWork
    BY <1>2 DEF BodyParsed, AtWork, Counted, PInv, OwnTypeOK
  <2>2. Cardinality(AtWork') = Cardinality(AtWork) + 1
    BY <2>1, AtWorkFinite, FS_AddElement
  <2> QED
    BY <1>1, <1>2, <2>2 DEF BodyParsed, CountIsExact
<1>3. CASE Respond(c)
  <2>1. AtWork' = AtWork \ {c} /\ c \in AtWork
    BY <1>3 DEF Respond, AtWork, Counted, PInv, OwnTypeOK
  <2>2. /\ Cardinality(AtWork') = Cardinality(AtWork) - 1
        /\ Cardinality(AtWork) \in Nat /\ Cardinality(AtWork') \in Nat
    BY <2>1, AtWorkFinite, FS_RemoveElement, FS_CardinalityType
  <2>3. activeConnections' = activeConnections - 1
    BY <1>1, <1>3, <2>2 DEF Respond
  <2> QED
    BY <1>1, <2>2, <2>3 DEF CountIsExact
<1> QED
    BY <1>2, <1>3

LEMMA WebInv == PInv /\ WebStep => PInv'
<1> SUFFICES ASSUME PInv, WebStep PROVE PInv'
    OBVIOUS
<1>1. ASSUME NEW c \in Conns, BodyParsed(c) \/ Respond(c) PROVE PInv'
  <2>1. CountIsExact'
    BY <1>1, CountInv
  <2>2. /\ work' \in [Conns -> {"none", "arriving"} \cup Counted] /\ activeConnections' \in Nat
        /\ UNCHANGED <<queueVars, server, sock, stopVars, boot, caught, db, cron, runs, dying, exit>>
    BY <1>1 DEF BodyParsed, Respond, Counted, PInv, OwnTypeOK
  <2>3. OwnTypeOK'
    BY <2>2 DEF PInv, OwnTypeOK, stopVars
  <2>4. InOrder'
    BY <2>2 DEF PInv, InOrder, stopVars, queueVars
  <2> QED
    BY <2>1, <2>3, <2>4 DEF PInv
<1>2. ASSUME NEW c \in Conns, Request(c) \/ BodyRejected(c) \/ Query(c) \/ QueryEnds(c)
      PROVE  PInv'
  <2>1. /\ work' \in [Conns -> {"none", "arriving"} \cup Counted]
        /\ \A d \in Conns : work'[d] \in Counted <=> work[d] \in Counted
        /\ UNCHANGED <<queueVars, server, sock, activeConnections, stopVars, boot, caught, db, cron,
                       runs, dying, exit>>
    BY <1>2 DEF Request, BodyRejected, Query, QueryEnds, Counted, PInv, OwnTypeOK
  <2>2. AtWork' = AtWork
    BY <2>1 DEF AtWork
  <2>3. CountIsExact'
    BY <2>1, <2>2 DEF PInv, CountIsExact
  <2>4. OwnTypeOK'
    BY <2>1 DEF PInv, OwnTypeOK, stopVars
  <2>5. InOrder'
    BY <2>1 DEF PInv, InOrder, stopVars, queueVars
  <2> QED
    BY <2>3, <2>4, <2>5 DEF PInv
<1>3. ASSUME NEW c \in Conns, Accept(c) \/ Disconnect(c) PROVE PInv'
  <2>1. /\ sock' \in [Conns -> BOOLEAN]
        /\ server # "listening" => \A d \in Conns : ~sock[d] => ~sock'[d]
        /\ work' \in [Conns -> {"none", "arriving"} \cup Counted]
        /\ \A d \in Conns : work'[d] \in Counted <=> work[d] \in Counted
        /\ UNCHANGED <<queueVars, server, activeConnections, stopVars, boot, caught, db, cron, runs,
                       dying, exit>>
    BY <1>3 DEF Accept, Disconnect, Counted, PInv, OwnTypeOK
  <2>2. AtWork' = AtWork
    BY <2>1 DEF AtWork
  <2>3. CountIsExact'
    BY <2>1, <2>2 DEF PInv, CountIsExact
  <2>4. OwnTypeOK'
    BY <2>1 DEF PInv, OwnTypeOK, stopVars
  <2>5. InOrder'
    BY <2>1 DEF PInv, InOrder, stopVars, queueVars
  <2> QED
    BY <2>3, <2>4, <2>5 DEF PInv
<1>4. ASSUME NEW r \in Runs, CronFires(r) \/ CronRunEnds(r) PROVE PInv'
  <2>1. /\ runs' \subseteq Runs
        /\ UNCHANGED <<queueVars, webVars, stopVars, boot, caught, db, cron, dying, exit>>
    BY <1>4 DEF CronFires, CronRunEnds, PInv, OwnTypeOK, InOrder
  <2>2. CountIsExact'
    BY <2>1, SameCount DEF webVars
  <2>3. OwnTypeOK'
    BY <2>1 DEF PInv, OwnTypeOK, stopVars, webVars
  <2>4. InOrder'
    BY <2>1 DEF PInv, InOrder, stopVars, queueVars, webVars
  <2> QED
    BY <2>2, <2>3, <2>4 DEF PInv
<1> QED
    BY <1>1, <1>2, <1>3, <1>4 DEF WebStep

\* The loops and the consumers stay in their phase, and in none but the first is a
\* handler called.
LEMMA QueueRuns ==
    ASSUME QueueHolds, QueueStep
    PROVE  phase' = phase /\ (phase # "up" => Handling' \subseteq Handling)
<1>1. phase' = phase
    BY DEF QueueStep, Queue!LoopStep, Queue!StartConsumer, Queue!StopConsumer, Queue!Publish,
           Queue!PushLands, Queue!PushFails,
           Queue!BrpopReplies, Queue!BrpopTimesOut, Queue!BrpopFails, Queue!Attempt,
           Queue!HandlerSucceeds, Queue!HandlerFails, Queue!BackoffEnds
<1>2. ASSUME phase # "up", NEW p \in Queue!Queues, loop'[p] = "running"
      PROVE  loop[p] = "running"
  <2>1. ASSUME NEW q \in Queue!Queues, Queue!LoopStep(q) PROVE loop[p] = "running"
    BY <1>2, <2>1
    DEF QueueHolds, Queue!TypeOK, Queue!LoopStep, Queue!BrpopReplies, Queue!BrpopTimesOut,
        Queue!BrpopFails, Queue!Attempt, Queue!Accepting, Queue!HandlerSucceeds,
        Queue!HandlerFails, Queue!BackoffEnds, Queue!Settle, Queue!NextRound, Queue!AfterError
  <2> QED
    BY <1>2, <2>1 DEF QueueStep, Queue!StartConsumer, Queue!StopConsumer, Queue!Publish,
                      Queue!PushLands, Queue!PushFails
<1> QED
    BY <1>1, <1>2 DEF Handling

LEMMA QueueInv == PInv /\ QueueHolds /\ QueueStep => PInv'
<1> SUFFICES ASSUME PInv, QueueHolds, QueueStep PROVE PInv'
    OBVIOUS
<1>1. UNCHANGED <<webVars, stopVars, boot, caught, db, cron, runs, dying, exit>>
    BY DEF QueueStep
<1>2. CountIsExact'
    BY <1>1, SameCount DEF webVars
<1>3. OwnTypeOK'
    BY <1>1 DEF PInv, OwnTypeOK, webVars, stopVars
<1>4. InOrder'
    BY <1>1, QueueRuns DEF PInv, InOrder, webVars, stopVars
<1> QED
    BY <1>2, <1>3, <1>4 DEF PInv

\* Another wait of the shutdown begins.
LEMMA GoToType ==
    ASSUME PInv, NEW s \in Steps, GoTo(s)
    PROVE  /\ step' = s /\ elapsed' = elapsed /\ elapsed \in 0..ForceExitAfter
           /\ since' \in 0..elapsed' /\ elapsed \in Nat
BY Waits DEF PInv, OwnTypeOK, GoTo

LEMMA CronStopsInv == PInv /\ QueueHolds /\ CronStops => PInv'
<1> SUFFICES ASSUME PInv, QueueHolds, CronStops PROVE PInv'
    OBVIOUS
<1>1. /\ step = "cron" /\ step' = "queue" /\ phase' = "waiting" /\ elapsed' = elapsed
      /\ elapsed \in 0..ForceExitAfter /\ since' \in 0..elapsed'
      /\ UNCHANGED <<webVars, boot, caught, db, cron, runs, dying, exit>>
    BY GoToType DEF CronStops, Queue!BeginShutdown, Steps
<1>3. CountIsExact'
    BY <1>1, SameCount DEF webVars
<1>4. boot \notin {"off", "database"}
    BY <1>1 DEF PInv, InOrder
<1>5. OwnTypeOK'
    BY <1>1 DEF PInv, OwnTypeOK, Steps, webVars
<1>6. InOrder'
    BY <1>1, <1>4 DEF PInv, InOrder, webVars
<1> QED
    BY <1>3, <1>5, <1>6 DEF PInv

LEMMA QueueWaitsInv == PInv /\ QueueHolds /\ QueueWaits => PInv'
<1> SUFFICES ASSUME PInv, QueueHolds, QueueWaits PROVE PInv'
    OBVIOUS
<1>1. /\ step = "queue" /\ step' = "queue" /\ elapsed' = elapsed
      /\ elapsed \in 0..ForceExitAfter /\ since' \in 0..elapsed'
      /\ UNCHANGED <<webVars, boot, caught, db, cron, runs, dying, exit>>
    BY GoToType DEF QueueWaits, Steps
<1>2. loop' = loop /\ phase' \in {"closing", "down"}
    BY DEF QueueWaits, Queue!JobsDone, Queue!JobsTimeOut, Queue!QueueCloses, Queue!CloseTimesOut,
           Queue!CloseQueue
<1>4. CountIsExact'
    BY <1>1, SameCount DEF webVars
<1>5. OwnTypeOK'
    BY <1>1 DEF PInv, OwnTypeOK, Steps, webVars
<1>6. boot \notin {"off", "database"}
    BY <1>1 DEF PInv, InOrder
<1>7. InOrder'
    BY <1>1, <1>2, <1>6 DEF PInv, InOrder, webVars
<1> QED
    BY <1>4, <1>5, <1>7 DEF PInv

LEMMA DatabaseInv == PInv /\ (QueueStops \/ DatabaseDestroyed) => PInv'
<1> SUFFICES ASSUME PInv, QueueStops \/ DatabaseDestroyed PROVE PInv'
    OBVIOUS
<1>1. /\ elapsed' = elapsed /\ elapsed \in 0..ForceExitAfter /\ since' \in 0..elapsed'
      /\ UNCHANGED <<queueVars, webVars, boot, caught, cron, runs, dying, exit>>
      /\ phase = "down"
      /\ \/ step = "queue" /\ step' = "db" /\ db' = "ending"
         \/ step = "db" /\ step' = "requests" /\ db' = "closed"
    BY GoToType DEF QueueStops, DatabaseDestroyed, Steps, PInv, InOrder
<1>2. CountIsExact'
    BY <1>1, SameCount DEF webVars
<1>3. OwnTypeOK'
    BY <1>1 DEF PInv, OwnTypeOK, Steps, webVars
<1>4. InOrder'
    BY <1>1 DEF PInv, InOrder, webVars, queueVars
<1> QED
    BY <1>2, <1>3, <1>4 DEF PInv

LEMMA RequestsDoneInv == PInv /\ RequestsDone => PInv'
<1> SUFFICES ASSUME PInv, RequestsDone PROVE PInv'
    OBVIOUS
<1>1. /\ step = "requests" /\ step' = "server" /\ elapsed' = elapsed
      /\ elapsed \in 0..ForceExitAfter /\ since' \in 0..elapsed'
      /\ UNCHANGED <<queueVars, work, activeConnections, boot, caught, db, cron, runs, dying, exit>>
      /\ server # "none" /\ server' = "closed"
      /\ sock' = [c \in Conns |-> sock[c] /\ (work[c] # "none" \/ server = "none")]
    BY GoToType DEF RequestsDone, CloseServer, Steps
<1>3. CountIsExact'
    BY <1>1, SameCount
<1>4. OwnTypeOK'
    BY <1>1 DEF PInv, OwnTypeOK, Steps
<1>5. InOrder'
    BY <1>1 DEF PInv, InOrder, queueVars
<1> QED
    BY <1>3, <1>4, <1>5 DEF PInv

LEMMA SignalInv == PInv /\ QueueHolds /\ Signal => PInv'
<1> SUFFICES ASSUME PInv, QueueHolds, Signal PROVE PInv'
    OBVIOUS
<1>1. /\ step = "none" /\ step' = "cron" /\ elapsed' = 0 /\ since' = 0 /\ cron' = FALSE
      /\ UNCHANGED <<queueVars, work, activeConnections, boot, caught, db, runs, dying, exit>>
      /\ server' \in {"none", "closed"} /\ (server' = "none" <=> server = "none")
      /\ sock' = [c \in Conns |-> sock[c] /\ (work[c] # "none" \/ server = "none")]
      /\ boot \in {"admin", "listening"}
    BY DEF Signal, CloseServer, PInv, OwnTypeOK, InOrder
<1>2. CountIsExact'
    BY <1>1, SameCount
<1>3. OwnTypeOK'
    BY <1>1, ZeroElapsed DEF PInv, OwnTypeOK, Steps
<1>4. phase' \in {"off", "up"}
    BY <1>1 DEF PInv, InOrder, queueVars
<1>5. InOrder'
    BY <1>1, <1>4 DEF PInv, InOrder
<1> QED
    BY <1>2, <1>3, <1>5 DEF PInv

LEMMA ClockInv == PInv /\ (Tick \/ UncaughtException) => PInv'
<1> SUFFICES ASSUME PInv, Tick \/ UncaughtException PROVE PInv'
    OBVIOUS
<1>1. /\ UNCHANGED <<queueVars, webVars, step, since, boot, caught, db, cron, runs, exit>>
      /\ elapsed' \in 0..ForceExitAfter /\ elapsed' >= elapsed /\ dying' \in BOOLEAN
      /\ elapsed \in Nat /\ elapsed' \in Nat /\ since \in 0..elapsed'
  <2>1. elapsed \in 0..ForceExitAfter /\ since \in 0..elapsed
    BY DEF PInv, OwnTypeOK
  <2>2. CASE Tick
    <3>1. elapsed' = elapsed + 1 /\ elapsed < ForceExitAfter
      BY <2>2 DEF Tick
    <3>2. elapsed' \in 0..ForceExitAfter /\ elapsed' >= elapsed /\ since \in 0..elapsed'
      BY <2>1, <3>1, Waits
    <3> QED
      BY <2>1, <2>2, <3>2 DEF Tick, PInv, OwnTypeOK
  <2>3. CASE UncaughtException
    BY <2>1, <2>3 DEF UncaughtException, stopVars
  <2> QED
    BY <2>2, <2>3
<1>2. CountIsExact'
    BY <1>1, SameCount DEF webVars
<1>3. OwnTypeOK'
    BY <1>1 DEF PInv, OwnTypeOK, webVars
<1>4. InOrder'
    BY <1>1 DEF PInv, InOrder, webVars, queueVars
<1> QED
    BY <1>2, <1>3, <1>4 DEF PInv

LEMMA InvStep == PInv /\ QueueHolds /\ [Next]_vars => PInv'
<1> SUFFICES ASSUME PInv, QueueHolds, [Next]_vars PROVE PInv'
    OBVIOUS
<1>1. CASE ShutdownStep
    BY <1>1, CronStopsInv, QueueWaitsInv, DatabaseInv, RequestsDoneInv, ExitInv
    DEF ShutdownStep, ShutdownDone
<1>2. CASE Killed \/ ExitAfterException \/ ForceExit
    BY <1>2, ExitInv DEF Killed, ExitAfterException, ForceExit
<1>3. CASE UNCHANGED vars
  <2>1. CountIsExact'
    BY <1>3, SameCount DEF vars, webVars
  <2> QED
    BY <1>3, <2>1 DEF vars, queueVars, webVars, stopVars, PInv, OwnTypeOK, InOrder
<1> QED
    BY <1>1, <1>2, <1>3, StartInv, WebInv, QueueInv, SignalInv, ClockInv DEF Next

-----------------------------------------------------------------------------
LEMMA QueueFacts == Proved!IInv => QueueHolds
BY DEF Proved!IInv, Proved!TypeOK, Proved!Queues, Proved!Phases, Proved!LoopStates, Proved!Fates,
       Proved!ActiveJobsAreRunning, QueueHolds, Handling, Queue!TypeOK, Queue!Queues,
       Queue!Phases, Queue!LoopStates, Queue!Fates

\* The inductive invariant of the process holds in every reachable state, beside that of
\* its queues.
THEOREM InvariantHolds == Spec => [](PInv /\ QueueHolds)
<1>1. Spec => []QueueHolds
    BY QueueInvariant, QueueFacts, PTL
<1> QED
    BY <1>1, InvInit, InvStep, PTL DEF Spec

\* Every variable keeps its type, those of the queues too.
THEOREM TypeCorrect == Spec => []TypeOK
<1>1. PInv /\ QueueHolds => TypeOK
    BY DEF PInv, QueueHolds, OwnTypeOK, TypeOK
<1> QED
    BY <1>1, InvariantHolds, PTL

\* Whoever hangs up, and whichever server or connection is closed, the shutdown waits for
\* exactly the requests that are being handled.
THEOREM ExactCount == Spec => []CountIsExact
BY InvariantHolds, PTL DEF PInv

\* Each wait of the shutdown lasts until what it waits for has ended or its own time
\* is up, and none of it starts again.
THEOREM WaitedForAll == Spec => NobodyLeftBehind
<1> DEFINE Stays == boot' # "off" \/ exit' = "clean"
           A == step # "none" /\ Stays =>
              /\ runs' \subseteq runs
              /\ step # "cron" => Handling' \subseteq Handling
              /\ boot' # "off" => since' = (IF Wait' = Wait THEN since ELSE elapsed)
              /\ step = "cron" /\ step' # step =>
                     runs = {} \/ elapsed - since >= CronWait
              /\ phase = "waiting" /\ phase' # phase =>
                     Handling = {} \/ elapsed - since >= QueueWait
              /\ phase = "closing" /\ Wait' # Wait =>
                     loop[QueueOrder[closing]] \in {"off", "ended"} \/ elapsed - since >= CloseWait
              /\ step = "requests" /\ step' # step =>
                     AtWork = {} \/ elapsed - since >= RequestWait
<1>1. ASSUME PInv, QueueHolds, [Next]_vars PROVE A
  <2> SUFFICES ASSUME step # "none", Stays PROVE A
    OBVIOUS
  <2>0. /\ elapsed \in Nat /\ since \in Nat /\ closing \in Nat
        /\ boot \in {"admin", "listening"} /\ ~cron
        /\ phase \in {"waiting", "closing"} => step = "queue"
        /\ step # "cron" => phase # "up"
    BY <1>1, Waits DEF PInv, OwnTypeOK, InOrder, Steps, QueueHolds, Queue!TypeOK
  <2>1. ASSUME NEW time \in Nat, Waited(time) PROVE elapsed - since >= time
    BY <2>0, <2>1 DEF Waited
  <2>2. activeConnections = 0 => AtWork = {}
    BY <1>1, AtWorkFinite, FS_EmptySet DEF PInv, CountIsExact
  \* Steps that no wait of the shutdown notices.
  <2>3. ASSUME UNCHANGED <<stopVars, phase, closing>> \/ UNCHANGED <<step, since, phase, closing>>,
               runs' \subseteq runs, phase # "up" => Handling' \subseteq Handling
        PROVE  A
    BY <2>0, <2>3 DEF stopVars, Wait
  <2>4. CASE CronStops
    <3>1. loop' = loop /\ Wait' # Wait /\ since' = elapsed /\ runs' = runs
      BY <2>4 DEF CronStops, GoTo, Queue!BeginShutdown, Wait
    <3>2. step = "cron" /\ (runs = {} \/ elapsed - since >= CronWait)
      BY <2>1, <2>4, Waits DEF CronStops
    <3> QED
      BY <2>0, <3>1, <3>2
  <2>5. CASE QueueWaits
    <3>1. step = "queue" /\ step' = "queue" /\ loop' = loop /\ since' = elapsed /\ runs' = runs
      BY <2>5 DEF QueueWaits, GoTo, Queue!JobsDone, Queue!JobsTimeOut, Queue!QueueCloses,
                  Queue!CloseTimesOut
    <3>2. Handling' = Handling
      BY <3>1 DEF Handling
    <3>3. Wait' # Wait
      BY <2>0, <2>5 DEF QueueWaits, Queue!JobsDone, Queue!JobsTimeOut, Queue!QueueCloses,
                        Queue!CloseTimesOut, Queue!CloseQueue, Wait
    <3>4. phase = "waiting" => Handling = {} \/ elapsed - since >= QueueWait
      BY <1>1, <2>1, <2>5, Waits
      DEF QueueWaits, QueueHolds, Queue!JobsDone, Queue!QueueCloses, Queue!CloseTimesOut
    <3>5. phase = "closing" =>
              loop[QueueOrder[closing]] \in {"off", "ended"} \/ elapsed - since >= CloseWait
      BY <2>1, <2>5, Waits
      DEF QueueWaits, Queue!JobsDone, Queue!JobsTimeOut, Queue!QueueCloses
    <3> QED
      BY <3>1, <3>2, <3>3, <3>4, <3>5
  <2>6. CASE QueueStops \/ DatabaseDestroyed \/ RequestsDone
    <3>1. /\ UNCHANGED <<queueVars, runs>> /\ step' # step /\ since' = elapsed
          /\ step \notin {"none", "cron"} /\ phase = "down"
      BY <1>1, <2>6 DEF QueueStops, DatabaseDestroyed, RequestsDone, GoTo, PInv, InOrder
    <3>2. Handling' = Handling /\ Wait' # Wait
      BY <3>1 DEF queueVars, Handling, Wait
    <3>3. step = "requests" => AtWork = {} \/ elapsed - since >= RequestWait
      BY <2>1, <2>2, <2>6, Waits DEF QueueStops, DatabaseDestroyed, RequestsDone
    <3> QED
      BY <3>1, <3>2, <3>3
  <2>7. CASE ShutdownDone
    <3>1. Exit("clean") /\ step \in {"requests", "server"} /\ phase = "down"
      BY <1>1, <2>7 DEF ShutdownDone, PInv, InOrder
    <3>2. boot' = "off" /\ runs' = {} /\ Handling' = {}
      BY <3>1 DEF Exit, Queue!ProcessEnds, Handling
    <3>3. step = "requests" => AtWork = {} \/ elapsed - since >= RequestWait
      BY <2>1, <2>2, <2>7, Waits DEF ShutdownDone
    <3> QED
      BY <3>1, <3>2, <3>3
  <2>8. CASE WebStep
    BY <2>0, <2>3, <2>8
    DEF WebStep, Accept, Request, BodyParsed, BodyRejected, Query, QueryEnds, Respond, Disconnect,
        CronFires, CronRunEnds, queueVars, Handling
  <2>9. CASE QueueStep
    <3>1. UNCHANGED <<stopVars, phase, closing, runs>>
      BY <2>9 DEF QueueStep, Queue!LoopStep, Queue!StartConsumer, Queue!StopConsumer, Queue!Publish,
                  Queue!PushLands, Queue!PushFails, Queue!BrpopReplies, Queue!BrpopTimesOut,
                  Queue!BrpopFails, Queue!Attempt, Queue!HandlerSucceeds, Queue!HandlerFails,
                  Queue!BackoffEnds
    <3> QED
      BY <1>1, <2>3, <2>9, <3>1, QueueRuns
  <2>10. CASE Listen \/ UncaughtException \/ Tick \/ UNCHANGED vars
    BY <2>3, <2>10 DEF Listen, UncaughtException, Tick, vars, stopVars, queueVars, Handling
  <2>11. CASE Start \/ DatabaseReady \/ Signal
    BY <2>0, <2>11 DEF Start, DatabaseReady, Signal
  <2>12. CASE StartFails \/ Killed \/ ExitAfterException \/ ForceExit
    BY <2>12 DEF StartFails, Killed, ExitAfterException, ForceExit, Exit
  <2> QED
    BY <1>1, <2>4, <2>5, <2>6, <2>7, <2>8, <2>9, <2>10, <2>11, <2>12
    DEF Next, StartStep, ShutdownStep
<1>2. PInv /\ QueueHolds /\ [Next]_vars => [A]_vars
    BY <1>1
<1> QED
    BY <1>2, InvariantHolds, PTL DEF Spec, NobodyLeftBehind

\* The process exits with 0 only when the database and every connection is closed.
THEOREM ExitsClean == Spec => CleanExit
<1> DEFINE A == boot # "off" /\ exit' = "clean" => db = "closed" /\ \A c \in Conns : ~sock[c]
<1>1. ASSUME PInv, [Next]_vars PROVE A
  <2>1. CASE ShutdownDone
    BY <1>1, <2>1 DEF ShutdownDone, PInv, InOrder
  <2>2. CASE ~ShutdownDone
    <3>1. boot # "off" => exit' # "clean"
      BY <1>1, <2>2
      DEF PInv, InOrder, Next, StartStep, Start, DatabaseReady, Listen, StartFails, Exit, WebStep,
          Accept, Request, BodyParsed, BodyRejected, Query, QueryEnds, Respond, Disconnect,
          CronFires, CronRunEnds, QueueStep, ShutdownStep, CronStops, QueueWaits, QueueStops,
          DatabaseDestroyed, RequestsDone, Signal, UncaughtException, Killed, ExitAfterException,
          ForceExit, Tick, vars
    <3> QED
      BY <3>1
  <2> QED
    BY <2>1, <2>2
<1>2. PInv /\ [Next]_vars => [A]_vars
    BY <1>1
<1> QED
    BY <1>2, InvariantHolds, PTL DEF Spec, CleanExit

-----------------------------------------------------------------------------
(* What startServer has done before it listens: the steps of Bootstrap, on *)
(* the database that a process shares with its replicas                    *)

\* What replica r has established by the await it is at: the role ADMIN before it
\* looks for the user, the user's row afterwards, and a permission's row before
\* it grants it.  The tables never lose a row, so it stays true.
ReplicaInv(r) ==
    /\ pc[r] \in {"findUser", "createUser"} => adminRole
    /\ pc[r] \in {"assign", "checkPermissions", "listening"} \cup Granting =>
           adminRole /\ admin # "none"
    /\ pc[r] \in {"findGrant", "saveGrant"} => \E p \in permissions : p[2] = row[r]

BInv ==
    /\ BTypeOK
    /\ IsFiniteSet(permissions)
    /\ \A r \in Replicas : ReplicaInv(r)

LEMMA BInvInit == BInit => BInv
<1> SUFFICES ASSUME BInit PROVE BInv
    OBVIOUS
<1>1. BTypeOK
  <2>1. 1 \in 1..N /\ 0 \in 0..MaxFailures
    BY ConstantsAssumption
  <2>2. /\ pc \in [Replicas -> {"down", "listening"} \cup Starting]
        /\ next \in [Replicas -> 1..N]
        /\ row \in [Replicas -> Nat]
    BY <2>1 DEF BInit
  <2>3. permissions = {} /\ grants = {}
    BY DEF BInit
  <2>4. /\ permissions \subseteq (1..N) \X (Nat \ {0})
        /\ grants \subseteq {p[2] : p \in permissions}
    BY <2>3
  <2> QED
    BY <2>1, <2>2, <2>4 DEF BInit, BTypeOK
<1>2. IsFiniteSet(permissions)
    BY FS_EmptySet DEF BInit
<1>3. \A r \in Replicas : ReplicaInv(r)
    BY DEF BInit, ReplicaInv, Granting
<1> QED
    BY <1>1, <1>2, <1>3 DEF BInv

\* The tables only grow, and what a replica has established it keeps when
\* another one takes a step.
LEMMA ReplicaStable ==
    ASSUME NEW r \in Replicas, ReplicaInv(r),
           pc'[r] = pc[r], row'[r] = row[r],
           adminRole => adminRole',
           admin # "none" => admin' # "none",
           permissions \subseteq permissions'
    PROVE  ReplicaInv(r)'
BY DEF ReplicaInv, Granting

\* One step of replica r changes nothing of the others, deletes no row, and
\* leads r to an await for which it has established what it needs.
LEMMA ReplicaStep ==
    ASSUME BInv, NEW r \in Replicas, Step(r) \/ QueryFails(r) \/ Stops(r)
    PROVE  /\ BTypeOK' /\ IsFiniteSet(permissions')
           /\ ReplicaInv(r)'
           /\ \A q \in Replicas \ {r} : pc'[q] = pc[q] /\ row'[q] = row[q]
           /\ adminRole => adminRole'
           /\ admin # "none" => admin' # "none"
           /\ permissions \subseteq permissions'
<1> USE DEF BInv, BTypeOK, ReplicaInv, Granting, Starting, tables
<1>0. ReplicaInv(r) /\ N \in Nat \ {0} /\ MaxFailures \in Nat
    BY ConstantsAssumption
<1>a. ASSUME GiveUp(r)
      PROVE  /\ pc' = [pc EXCEPT ![r] = "down"]
             /\ next' \in [Replicas -> 1..N] /\ row' \in [Replicas -> Nat]
             /\ broken' \subseteq {"administrator", "permissions"}
             /\ \A q \in Replicas \ {r} : row'[q] = row[q]
    BY <1>a, <1>0 DEF GiveUp
<1>b. ASSUME Advance(r)
      PROVE  /\ pc' = [pc EXCEPT ![r] = IF next[r] < N THEN "findPermission" ELSE "listening"]
             /\ next' \in [Replicas -> 1..N] /\ row' \in [Replicas -> Nat]
             /\ \A q \in Replicas \ {r} : row'[q] = row[q]
    BY <1>b, <1>0 DEF Advance, Goto
<1>1. CASE Begin(r)
    BY <1>1, <1>0 DEF Begin, Goto, Idle
<1>2. CASE CreateDatabase(r)
    BY <1>2, <1>0, <1>a DEF CreateDatabase, Refused, Goto, Idle
<1>3. CASE FindRole(r)
    BY <1>3, <1>0 DEF FindRole, Goto, Idle
<1>4. CASE CreateRole(r)
    BY <1>4, <1>0, <1>a DEF CreateRole, Refused, Goto, Idle
<1>5. CASE SaveRole(r)
    BY <1>5, <1>0, <1>a DEF SaveRole, Refused, Goto, Idle
<1>6. CASE FindUser(r)
    BY <1>6, <1>0 DEF FindUser, Goto, Idle
<1>7. CASE CreateUser(r)
    BY <1>7, <1>0, <1>a DEF CreateUser, Refused, Goto, Idle
<1>8. CASE AssignRole(r)
    BY <1>8, <1>0 DEF AssignRole, Goto, Idle
<1>9. CASE CheckPermissions(r)
    BY <1>9, <1>0 DEF CheckPermissions, Goto, Idle
<1>10. CASE FindPermission(r)
    BY <1>10, <1>0 DEF FindPermission, Goto
<1>11. CASE SavePermission(r)
  <2> DEFINE id == Cardinality(permissions) + 1
  <2>1. id \in Nat \ {0}
    BY FS_CardinalityType
  <2>2. IsFiniteSet(permissions \cup {<<next[r], id>>})
    BY FS_AddElement
  <2>3. /\ permissions' = permissions \cup {<<next[r], id>>}
        /\ row' = [row EXCEPT ![r] = id]
        /\ pc' = [pc EXCEPT ![r] = "findGrant"]
        /\ pc[r] = "savePermission"
        /\ UNCHANGED <<database, adminRole, admin, grants, next, failures, broken>>
    BY <1>11 DEF SavePermission, Goto
  <2> HIDE DEF id
  <2>4. next[r] \in 1..N
    OBVIOUS
  <2>5. <<next[r], id>> \in (1..N) \X (Nat \ {0}) /\ <<next[r], id>>[2] = id
    BY <2>1, <2>4
  <2>6. permissions' \subseteq (1..N) \X (Nat \ {0})
    BY <2>3, <2>5
  <2>7. row' \in [Replicas -> Nat] /\ row'[r] = id
    BY <2>1, <2>3
  <2>8. grants' \subseteq {p[2] : p \in permissions'}
    BY <2>3
  <2>9. BTypeOK'
    BY <2>3, <2>6, <2>7, <2>8
  <2>10. ReplicaInv(r)'
    BY <2>3, <2>5, <2>7, <1>0
  <2> QED
    BY <2>2, <2>3, <2>9, <2>10
<1>12. CASE FindGrant(r)
    BY <1>12, <1>0, <1>b DEF FindGrant, Goto
<1>13. CASE SaveGrant(r)
  <2>1. row[r] \in {p[2] : p \in permissions}
    BY <1>13, <1>0 DEF SaveGrant
  <2> QED
    BY <1>13, <1>0, <1>b, <2>1 DEF SaveGrant
<1>14. CASE QueryFails(r)
  <2>1. CASE pc[r] = "findUser"
    BY <1>14, <2>1, <1>0 DEF QueryFails, Goto
  <2>2. CASE pc[r] = "checkPermissions"
    BY <1>14, <2>2, <1>0 DEF QueryFails, Goto
  <2>3. CASE pc[r] \in Granting
    <3>1. /\ Advance(r) /\ UNCHANGED tables
          /\ broken' = broken \cup {"permissions"}
          /\ failures' \in 0..MaxFailures
      BY <1>14, <2>3, <1>0 DEF QueryFails
    <3> QED
      BY <3>1, <2>3, <1>0, <1>b
  <2>4. CASE pc[r] \notin {"findUser", "checkPermissions"} \cup Granting
    BY <1>14, <2>4, <1>0, <1>a DEF QueryFails
  <2> QED
    BY <2>1, <2>2, <2>3, <2>4
<1>15. CASE Stops(r)
  <2>1. /\ GiveUp(r) /\ UNCHANGED tables
        /\ failures' \in 0..MaxFailures
    BY <1>15, <1>0 DEF Stops
  <2> QED
    BY <2>1, <1>0, <1>a
<1> QED
    BY <1>1, <1>2, <1>3, <1>4, <1>5, <1>6, <1>7, <1>8, <1>9, <1>10, <1>11, <1>12, <1>13,
       <1>14, <1>15 DEF Step

LEMMA BInvNext == BInv /\ [BNext]_bvars => BInv'
<1> SUFFICES ASSUME BInv, [BNext]_bvars PROVE BInv'
    OBVIOUS
<1>1. CASE BNext
  <2>1. PICK r \in Replicas : Step(r) \/ QueryFails(r) \/ Stops(r)
    BY <1>1 DEF BNext
  <2>2. ASSUME NEW q \in Replicas, q # r PROVE ReplicaInv(q)'
    BY <2>1, <2>2, ReplicaStep, ReplicaStable DEF BInv
  <2> QED
    BY <2>1, <2>2, ReplicaStep DEF BInv
<1>2. CASE UNCHANGED bvars
    BY <1>2 DEF bvars, tables, BInv, BTypeOK, ReplicaInv
<1> QED
    BY <1>1, <1>2

\* The inductive invariant holds in every state of every behaviour.
THEOREM BootstrapInvariant == BSpec => []BInv
    BY BInvInit, BInvNext, PTL DEF BSpec

\* Every variable keeps its type: what is granted is a row of permissions.
THEOREM BootstrapTypes == BSpec => []BTypeOK
<1>1. BInv => BTypeOK
    BY DEF BInv
<1> QED
    BY <1>1, BootstrapInvariant, PTL

\* No replica listens before the role ADMIN and the administrator's row exist,
\* however many start together and whichever queries fail.
THEOREM AdminBeforeListening == BSpec => []ListensWithAdmin
<1>1. BInv => ListensWithAdmin
    BY DEF BInv, ReplicaInv, ListensWithAdmin
<1> QED
    BY <1>1, BootstrapInvariant, PTL
=============================================================================
