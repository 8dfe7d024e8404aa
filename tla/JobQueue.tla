------------------------------ MODULE JobQueue ------------------------------
(***************************************************************************)
(* The background queues: a Redis list per queue, the loop that pops it    *)
(* and retries the handler (RedisQueue, BaseQueue), the manager that       *)
(* counts active jobs (QueueManager), the consumers (BaseConsumer,         *)
(* ConsumerManager) and the shutdown that QueueInitializer runs over them. *)
(*                                                                         *)
(* Each queue has one loop, and the loop handles one message at a time.    *)
(* The loops, the shutdown and the publishers interleave at every await.   *)
(***************************************************************************)
EXTENDS Naturals, Sequences

CONSTANTS
    QueueOrder,   \* the queues, in the order QueueManager registered them
    Messages,
    MaxRetries,   \* QueueOptions.maxRetries of each queue, 0 if it is not given
    None          \* no message

Queues == {QueueOrder[i] : i \in DOMAIN QueueOrder}

ASSUME ConstantsAssumption ==
    /\ QueueOrder \in Seq(Queues) /\ QueueOrder # <<>>
    /\ \A i, j \in DOMAIN QueueOrder : QueueOrder[i] = QueueOrder[j] => i = j
    /\ MaxRetries \in [Queues -> Nat]
    /\ None \notin Messages

VARIABLES
    sent,       \* the messages on their way to each list
    list,       \* Redis: the list of each queue, oldest first
    phase,      \* the life of the process and of its shutdown
    closing,    \* the queue, as an index of QueueOrder, being closed
    queueDown,  \* BaseQueue.isShuttingDown of each queue
    loop,       \* where each processing loop is
    hand,       \* the message each loop has popped and not settled
    tries,      \* retryCount of handleMessageWithRetry
    activeJobs, \* QueueManager.activeJobs: its queues, one job each at most
    running,    \* BaseConsumer._isRunning
    fate,       \* history: what became of each message
    attempts    \* history: how often a handler was called with each message

vars == <<sent, list, phase, closing, queueDown, loop, hand, tries, activeJobs,
          running, fate, attempts>>

Phases == {"off", "up", "waiting", "closing", "down"}
LoopStates == {"off", "popping", "popped", "running", "retryWait", "backoff", "ended"}
Fates == {"new", "sent", "queued", "taken", "done", "lost"}

TypeOK ==
    /\ sent \in [Queues -> SUBSET Messages]
    /\ list \in [Queues -> Seq(Messages)]
    /\ phase \in Phases
    /\ closing \in 0..Len(QueueOrder)
    /\ queueDown \in [Queues -> BOOLEAN]
    /\ loop \in [Queues -> LoopStates]
    /\ hand \in [Queues -> Messages \cup {None}]
    /\ tries \in [Queues -> Nat]
    /\ activeJobs \subseteq Queues
    /\ running \in [Queues -> BOOLEAN]
    /\ fate \in [Messages -> Fates]
    /\ attempts \in [Messages -> Nat]

Init ==
    /\ sent = [q \in Queues |-> {}]
    /\ list = [q \in Queues |-> <<>>]
    /\ phase = "off"
    /\ closing = 0
    /\ queueDown = [q \in Queues |-> FALSE]
    /\ loop = [q \in Queues |-> "off"]
    /\ hand = [q \in Queues |-> None]
    /\ tries = [q \in Queues |-> 0]
    /\ activeJobs = {}
    /\ running = [q \in Queues |-> FALSE]
    /\ fate = [m \in Messages |-> "new"]
    /\ attempts = [m \in Messages |-> 0]

-----------------------------------------------------------------------------
(* QueueInitializer.initialize, publishers and consumers                   *)

\* QueueManager.isAcceptingJobs: TRUE until shutdown stops the jobs.
Accepting == phase = "up"

\* The queues are created; the consumers are started unless the environment
\* says ENABLE_QUEUE_CONSUMERS=false.
Boot ==
    /\ phase = "off"
    /\ phase' = "up"
    /\ \E enabled \in BOOLEAN :
        /\ running' = [q \in Queues |-> enabled]
        /\ loop' = [q \in Queues |-> IF enabled THEN "popping" ELSE "off"]
    /\ UNCHANGED <<sent, list, closing, queueDown, hand, tries, activeJobs, fate, attempts>>

\* Refused (an exception, no change) once shutdown has begun; otherwise LPUSH is
\* on its way when publish returns to the event loop.
Publish(q, m) ==
    /\ Accepting /\ ~queueDown[q]
    /\ fate[m] = "new"
    /\ sent' = [sent EXCEPT ![q] = @ \cup {m}]
    /\ fate' = [fate EXCEPT ![m] = "sent"]
    /\ UNCHANGED <<list, phase, closing, queueDown, loop, hand, tries, activeJobs, running, attempts>>

\* Redis pushes the message, by then the shutdown may have begun or the process
\* may have ended.
PushLands(q, m) ==
    /\ m \in sent[q]
    /\ sent' = [sent EXCEPT ![q] = @ \ {m}]
    /\ list' = [list EXCEPT ![q] = Append(@, m)]
    /\ fate' = [fate EXCEPT ![m] = "queued"]
    /\ UNCHANGED <<phase, closing, queueDown, loop, hand, tries, activeJobs, running, attempts>>

\* The connection breaks, or the process ends, before the message is sent.
PushFails(q, m) ==
    /\ m \in sent[q]
    /\ sent' = [sent EXCEPT ![q] = @ \ {m}]
    /\ fate' = [fate EXCEPT ![m] = "lost"]
    /\ UNCHANGED <<list, phase, closing, queueDown, loop, hand, tries, activeJobs, running, attempts>>

\* ConsumerManager.startConsumer, after stopConsumer: the queue is subscribed
\* already, so QueueManager.process leaves its loop as it is.
StartConsumer(q) ==
    /\ phase = "up" /\ ~running[q] /\ loop[q] # "off"
    /\ running' = [running EXCEPT ![q] = TRUE]
    /\ UNCHANGED <<sent, list, phase, closing, queueDown, loop, hand, tries, activeJobs,
                   fate, attempts>>

\* ConsumerManager.stopConsumer: only the flag changes.
StopConsumer(q) ==
    /\ phase # "off" /\ running[q]
    /\ running' = [running EXCEPT ![q] = FALSE]
    /\ UNCHANGED <<sent, list, phase, closing, queueDown, loop, hand, tries, activeJobs, fate, attempts>>

-----------------------------------------------------------------------------
(* The processing loop                                                     *)

\* The head of the while loop: another BRPOP, unless the queue is closed.
NextRound(q) == IF queueDown[q] THEN "ended" ELSE "popping"

\* Mutant of BrpopReplies: the message is read but left in the list.
BrpopPeeks(q) ==
    /\ loop[q] = "popping" /\ list[q] # <<>>
    /\ hand' = [hand EXCEPT ![q] = Head(list[q])]
    /\ fate' = [fate EXCEPT ![Head(list[q])] = "taken"]
    /\ loop' = [loop EXCEPT ![q] = "popped"]
    /\ UNCHANGED <<sent, list, phase, closing, queueDown, tries, activeJobs, running, attempts>>

\* BRPOP takes the oldest message off the list before the process hears of it.
BrpopReplies(q) ==
    /\ loop[q] = "popping" /\ list[q] # <<>>
    /\ list' = [list EXCEPT ![q] = Tail(@)]
    /\ hand' = [hand EXCEPT ![q] = Head(list[q])]
    /\ fate' = [fate EXCEPT ![Head(list[q])] = "taken"]
    /\ loop' = [loop EXCEPT ![q] = "popped"]
    /\ UNCHANGED <<sent, phase, closing, queueDown, tries, activeJobs, running, attempts>>

\* BRPOP replies nil after a second; an open queue asks again.
BrpopTimesOut(q) ==
    /\ loop[q] = "popping" /\ list[q] = <<>>
    /\ loop' = [loop EXCEPT ![q] = NextRound(q)]
    /\ UNCHANGED <<sent, list, phase, closing, queueDown, hand, tries, activeJobs, running,
                   fate, attempts>>

\* Mutant of AfterError: a rejected promise ends the loop.
AfterErrorEnds(q) == "ended"

\* The catch of the loop backs off, unless the queue is closed.
AfterError(q) == IF queueDown[q] THEN "ended" ELSE "backoff"

\* The connection breaks, before or after Redis took a message off the list.
BrpopFails(q) ==
    /\ loop[q] = "popping"
    /\ \/ UNCHANGED <<list, fate>>
       \/ /\ list[q] # <<>>
          /\ list' = [list EXCEPT ![q] = Tail(@)]
          /\ fate' = [fate EXCEPT ![Head(list[q])] = "lost"]
    /\ loop' = [loop EXCEPT ![q] = AfterError(q)]
    /\ UNCHANGED <<sent, phase, closing, queueDown, hand, tries, activeJobs, running, attempts>>

\* Mutant of Settle: retryCount is counted down instead of starting at 0 again.
SettleCountsDown(q, outcome, at) ==
    /\ fate' = [fate EXCEPT ![hand[q]] = outcome]
    /\ hand' = [hand EXCEPT ![q] = None]
    /\ tries' = [tries EXCEPT ![q] = @ - 1]
    /\ loop' = [loop EXCEPT ![q] = at]

\* The loop is done with the message in its hand.
Settle(q, outcome, at) ==
    /\ fate' = [fate EXCEPT ![hand[q]] = outcome]
    /\ hand' = [hand EXCEPT ![q] = None]
    /\ tries' = [tries EXCEPT ![q] = 0]
    /\ loop' = [loop EXCEPT ![q] = at]

\* Mutant of Attempt: the manager's callback does not look at isAcceptingJobs.
AttemptAnyway(q) ==
    /\ loop[q] \in {"popped", "retryWait"}
    /\ IF queueDown[q]
       THEN /\ Settle(q, "lost", NextRound(q))
            /\ UNCHANGED <<activeJobs, attempts>>
       ELSE /\ loop' = [loop EXCEPT ![q] = "running"]
            /\ activeJobs' = activeJobs \cup {q}
            /\ attempts' = [attempts EXCEPT ![hand[q]] = @ + 1]
            /\ UNCHANGED <<fate, hand, tries>>
    /\ UNCHANGED <<sent, list, phase, closing, queueDown, running>>

\* One round of handleMessageWithRetry, entered after the BRPOP or when the
\* retry delay is over.  A closed queue drops the message; a manager that no
\* longer accepts jobs returns at once, which the queue takes for success.
Attempt(q) ==
    /\ loop[q] \in {"popped", "retryWait"}
    /\ IF queueDown[q] \/ ~Accepting
       THEN /\ Settle(q, "lost", NextRound(q))
            /\ UNCHANGED <<activeJobs, attempts>>
       ELSE /\ loop' = [loop EXCEPT ![q] = "running"]
            /\ activeJobs' = activeJobs \cup {q}
            /\ attempts' = [attempts EXCEPT ![hand[q]] = @ + 1]
            /\ UNCHANGED <<fate, hand, tries>>
    /\ UNCHANGED <<sent, list, phase, closing, queueDown, running>>

HandlerSucceeds(q) ==
    /\ loop[q] = "running"
    /\ activeJobs' = activeJobs \ {q}
    /\ Settle(q, "done", NextRound(q))
    /\ UNCHANGED <<sent, list, phase, closing, queueDown, running, attempts>>

\* How often a failed handler is called again: `options.maxRetries || 3`.
Limit(q) == IF MaxRetries[q] = 0 THEN 3 ELSE MaxRetries[q]

\* Mutants of HandlerFails: the retry limit is off by one; the job stays in
\* activeJobs; a message out of retries goes back to the end of its list.
HandlerFailsLate(q) ==
    /\ loop[q] = "running"
    /\ activeJobs' = activeJobs \ {q}
    /\ IF tries[q] > Limit(q)
       THEN Settle(q, "lost", AfterError(q))
       ELSE /\ tries' = [tries EXCEPT ![q] = @ + 1]
            /\ loop' = [loop EXCEPT ![q] = "retryWait"]
            /\ UNCHANGED <<fate, hand>>
    /\ UNCHANGED <<sent, list, phase, closing, queueDown, running, attempts>>

HandlerFailsKeepsJob(q) ==
    /\ loop[q] = "running"
    /\ activeJobs' = activeJobs
    /\ IF tries[q] + 1 > Limit(q)
       THEN Settle(q, "lost", AfterError(q))
       ELSE /\ tries' = [tries EXCEPT ![q] = @ + 1]
            /\ loop' = [loop EXCEPT ![q] = "retryWait"]
            /\ UNCHANGED <<fate, hand>>
    /\ UNCHANGED <<sent, list, phase, closing, queueDown, running, attempts>>

HandlerFailsRequeues(q) ==
    /\ loop[q] = "running"
    /\ activeJobs' = activeJobs \ {q}
    /\ IF tries[q] + 1 > Limit(q)
       THEN Settle(q, "queued", AfterError(q)) /\ list' = [list EXCEPT ![q] = Append(@, hand[q])]
       ELSE /\ tries' = [tries EXCEPT ![q] = @ + 1]
            /\ loop' = [loop EXCEPT ![q] = "retryWait"]
            /\ UNCHANGED <<list, fate, hand>>
    /\ UNCHANGED <<sent, phase, closing, queueDown, running, attempts>>

\* The job leaves activeJobs while its message waits for the next attempt.
HandlerFails(q) ==
    /\ loop[q] = "running"
    /\ activeJobs' = activeJobs \ {q}
    /\ IF tries[q] + 1 > Limit(q)
       THEN Settle(q, "lost", AfterError(q))
       ELSE /\ tries' = [tries EXCEPT ![q] = @ + 1]
            /\ loop' = [loop EXCEPT ![q] = "retryWait"]
            /\ UNCHANGED <<fate, hand>>
    /\ UNCHANGED <<sent, list, phase, closing, queueDown, running, attempts>>

BackoffEnds(q) ==
    /\ loop[q] = "backoff"
    /\ loop' = [loop EXCEPT ![q] = NextRound(q)]
    /\ UNCHANGED <<sent, list, phase, closing, queueDown, hand, tries, activeJobs, running,
                   fate, attempts>>

-----------------------------------------------------------------------------
(* QueueInitializer.shutdown                                               *)

\* No I/O is awaited between the guard and stopAcceptingJobs.
BeginShutdown ==
    /\ phase = "up"
    /\ phase' = "waiting"
    /\ running' = [q \in Queues |-> FALSE]
    /\ UNCHANGED <<sent, list, closing, queueDown, loop, hand, tries, activeJobs, fate, attempts>>

\* closeAllQueues: the i-th queue enters shutdown mode, or all are closed.
CloseQueue(i) ==
    IF i <= Len(QueueOrder)
    THEN /\ phase' = "closing"
         /\ closing' = i
         /\ queueDown' = [queueDown EXCEPT ![QueueOrder[i]] = TRUE]
         /\ UNCHANGED activeJobs
    ELSE /\ phase' = "down"
         /\ closing' = 0
         /\ activeJobs' = {}
         /\ UNCHANGED queueDown

\* Mutant of JobsDone: the shutdown also waits for the lists to be empty.
JobsAndListsDone ==
    /\ phase = "waiting" /\ activeJobs = {}
    /\ \A q \in Queues : list[q] = <<>>
    /\ CloseQueue(1)
    /\ UNCHANGED <<sent, list, loop, hand, tries, running, fate, attempts>>

JobsDone ==
    /\ phase = "waiting" /\ activeJobs = {}
    /\ CloseQueue(1)
    /\ UNCHANGED <<sent, list, loop, hand, tries, running, fate, attempts>>

\* maxWaitTime: the jobs still running are left to themselves.
JobsTimeOut ==
    /\ phase = "waiting" /\ activeJobs # {}
    /\ CloseQueue(1)
    /\ UNCHANGED <<sent, list, loop, hand, tries, running, fate, attempts>>

\* RedisQueue.close: the loop has ended, or five seconds are over.
QueueCloses ==
    /\ phase = "closing" /\ loop[QueueOrder[closing]] \in {"off", "ended"}
    /\ CloseQueue(closing + 1)
    /\ UNCHANGED <<sent, list, loop, hand, tries, running, fate, attempts>>

CloseTimesOut ==
    /\ phase = "closing" /\ loop[QueueOrder[closing]] \notin {"off", "ended"}
    /\ CloseQueue(closing + 1)
    /\ UNCHANGED <<sent, list, loop, hand, tries, running, fate, attempts>>

\* process.exit after the shutdown, the force-exit timer, or a crash.
ProcessEnds ==
    /\ phase # "off"
    /\ phase' = "off"
    /\ closing' = 0
    /\ queueDown' = [q \in Queues |-> FALSE]
    /\ loop' = [q \in Queues |-> "off"]
    /\ hand' = [q \in Queues |-> None]
    /\ tries' = [q \in Queues |-> 0]
    /\ activeJobs' = {}
    /\ running' = [q \in Queues |-> FALSE]
    /\ fate' = [m \in Messages |-> IF fate[m] = "taken" THEN "lost" ELSE fate[m]]
    /\ UNCHANGED <<sent, list, attempts>>

-----------------------------------------------------------------------------
LoopStep(q) ==
    \/ BrpopReplies(q) \/ BrpopTimesOut(q) \/ BrpopFails(q)
    \/ Attempt(q) \/ HandlerSucceeds(q) \/ HandlerFails(q) \/ BackoffEnds(q)

ShutdownStep == JobsDone \/ JobsTimeOut \/ QueueCloses \/ CloseTimesOut

Next ==
    \/ Boot
    \/ \E q \in Queues, m \in Messages : Publish(q, m) \/ PushLands(q, m) \/ PushFails(q, m)
    \/ \E q \in Queues : StartConsumer(q) \/ StopConsumer(q) \/ LoopStep(q)
    \/ BeginShutdown
    \/ ShutdownStep
    \/ ProcessEnds

Spec == Init /\ [][Next]_vars

\* Timers fire, handlers settle, and a BRPOP that may be answered again and again
\* is answered at last, however often the connection breaks in between.  Nobody
\* has to publish, to boot the process or to stop it.
FairSpec ==
    /\ Spec
    /\ WF_vars(ShutdownStep)
    /\ \A q \in Queues : WF_vars(LoopStep(q)) /\ SF_vars(BrpopReplies(q))
-----------------------------------------------------------------------------
(* Properties                                                              *)

\* How often message m is in the list of queue q.
Copies(q, m) == {i \in DOMAIN list[q] : list[q][i] = m}

\* No message is ever in two places, or twice in one: a message that is sent is on
\* its way to one list, a queued one in one list once, a taken one in the hand of
\* one loop, and nothing of a settled or unpublished message is left anywhere.
MessageInOnePlace ==
    \A m \in Messages :
        /\ \A q \in Queues : \A i, j \in Copies(q, m) : i = j
        /\ \A q1, q2 \in Queues :
               /\ m \in sent[q1] /\ m \in sent[q2] => q1 = q2
               /\ Copies(q1, m) # {} /\ Copies(q2, m) # {} => q1 = q2
               /\ hand[q1] = m /\ hand[q2] = m => q1 = q2
        /\ (\E q \in Queues : m \in sent[q]) <=> fate[m] = "sent"
        /\ (\E q \in Queues : Copies(q, m) # {}) <=> fate[m] = "queued"
        /\ (\E q \in Queues : hand[q] = m) <=> fate[m] = "taken"

\* However often connections break, consumers stop and processes end, a handler
\* is called with a message once and then at most as often as the queue that took
\* it retries: the calls over its whole life are those its loop counts.  A
\* message no loop has taken was given to no handler, one that counts as done was.
AttemptsBounded ==
    /\ \A q \in Queues : hand[q] # None =>
           /\ attempts[hand[q]] = tries[q] + (IF loop[q] = "running" THEN 1 ELSE 0)
           /\ attempts[hand[q]] <= 1 + Limit(q)
    /\ \A m \in Messages :
           /\ fate[m] \in {"new", "sent", "queued"} => attempts[m] = 0
           /\ fate[m] = "done" => attempts[m] >= 1

\* What the shutdown waits for, getActiveJobsCount, is exactly the handlers that
\* are running, until closeAllQueues forgets those it gave up on.
ActiveJobsAreRunning ==
    phase # "down" => activeJobs = {q \in Queues : loop[q] = "running"}

\* Once shutdown has begun no handler is called again, neither with a new message
\* nor to retry one.
NoHandlerStartsInShutdown ==
    [][(phase \in {"waiting", "closing", "down"}) =>
          {q \in Queues : loop'[q] = "running"} \subseteq {q \in Queues : loop[q] = "running"}]_vars

\* QueueInitializer.shutdown always gets to its end, or the process ends first.
ShutdownEnds == phase = "waiting" ~> phase \in {"down", "off"}

\* While the process is up and its loops run, a published message does not stay
\* in its queue: a poison message does not block the ones behind it for ever.
QueueDrains ==
    \A m \in Messages :
        fate[m] = "queued" ~>
            \/ fate[m] \in {"done", "lost"}
            \/ phase # "up"
            \/ \E q \in Queues : loop[q] = "off"

\* Every step of the queues is a step of the at-most-once queue, or changes
\* nothing a publisher can see.
AtMostOnce == INSTANCE AtMostOnceQueue WITH waiting <- list, state <- fate
ImplementsAtMostOnce == AtMostOnce!ASpec
=============================================================================
