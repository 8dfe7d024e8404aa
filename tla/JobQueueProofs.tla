--------------------------- MODULE JobQueueProofs ---------------------------
(***************************************************************************)
(* Theorems about the background queues, for any queues, messages and      *)
(* retry limits: a message is in one place, a handler is called with it a  *)
(* bounded number of times and never once shutdown has begun, what the     *)
(* shutdown waits for are the handlers that run, and the whole is an       *)
(* at-most-once queue.                                                     *)
(***************************************************************************)
EXTENDS JobQueue, SequenceTheorems, TLAPS

-----------------------------------------------------------------------------
(* The inductive invariant                                                 *)

In(l, m) == \E i \in DOMAIN l : l[i] = m
Once(l, m) == \A i, j \in DOMAIN l : l[i] = m /\ l[j] = m => i = j

\* MessageInOnePlace, said of the lists as wholes.
Placed ==
    \A m \in Messages :
        /\ \A q \in Queues : Once(list[q], m)
        /\ \A q1, q2 \in Queues :
               /\ m \in sent[q1] /\ m \in sent[q2] => q1 = q2
               /\ In(list[q1], m) /\ In(list[q2], m) => q1 = q2
               /\ hand[q1] = m /\ hand[q2] = m => q1 = q2
        /\ (\E q \in Queues : m \in sent[q]) <=> fate[m] = "sent"
        /\ (\E q \in Queues : In(list[q], m)) <=> fate[m] = "queued"
        /\ (\E q \in Queues : hand[q] = m) <=> fate[m] = "taken"

\* What the place of a loop says of its message and of its retries.
LoopsHold ==
    \A q \in Queues :
        /\ hand[q] # None <=> loop[q] \in {"popped", "running", "retryWait"}
        /\ tries[q] <= Limit(q)
        /\ hand[q] = None => tries[q] = 0
        /\ phase = "off" => loop[q] = "off"

\* Also when the shutdown has given up on them, the jobs are handlers that run.
JobsHold == activeJobs \subseteq {q \in Queues : loop[q] = "running"}

IInv ==
    /\ TypeOK
    /\ Placed
    /\ LoopsHold
    /\ AttemptsBounded
    /\ ActiveJobsAreRunning
    /\ JobsHold

-----------------------------------------------------------------------------
(* Lists                                                                   *)

LEMMA EmptyList == ASSUME NEW m PROVE ~In(<<>>, m) /\ Once(<<>>, m)
    BY DEF In, Once

\* What LPUSH does to a list.
LEMMA AppendList ==
    ASSUME NEW l \in Seq(Messages), NEW m \in Messages, NEW n \in Messages
    PROVE  /\ Append(l, m) \in Seq(Messages)
           /\ In(Append(l, m), n) <=> In(l, n) \/ n = m
           /\ Once(l, n) /\ (n = m => ~In(l, n)) => Once(Append(l, m), n)
<1>1. /\ Append(l, m) \in Seq(Messages)
      /\ Len(l) \in Nat /\ DOMAIN l = 1..Len(l)
      /\ DOMAIN Append(l, m) = 1..(Len(l) + 1)
      /\ \A i \in 1..Len(l) : Append(l, m)[i] = l[i]
      /\ Append(l, m)[Len(l) + 1] = m
    BY AppendProperties, LenProperties
<1>2. In(Append(l, m), n) <=> In(l, n) \/ n = m
    BY <1>1 DEF In
<1>3. ASSUME Once(l, n), n = m => ~In(l, n) PROVE Once(Append(l, m), n)
    BY <1>1, <1>3 DEF In, Once
<1> QED
    BY <1>1, <1>2, <1>3

\* What BRPOP does to one.
LEMMA TailList ==
    ASSUME NEW l \in Seq(Messages), l # <<>>, NEW n \in Messages, Once(l, n)
    PROVE  /\ Tail(l) \in Seq(Messages) /\ Head(l) \in Messages /\ In(l, Head(l))
           /\ In(Tail(l), n) <=> In(l, n) /\ n # Head(l)
           /\ Once(Tail(l), n)
<1>1. /\ Tail(l) \in Seq(Messages) /\ Head(l) \in Messages /\ Head(l) = l[1]
      /\ Len(l) \in Nat \ {0} /\ DOMAIN l = 1..Len(l)
      /\ DOMAIN Tail(l) = 1..(Len(l) - 1)
      /\ \A i \in 1..(Len(l) - 1) : Tail(l)[i] = l[i + 1]
    BY HeadTailProperties, LenProperties, EmptySeq
<1>2. \A i \in 2..Len(l) : i - 1 \in 1..(Len(l) - 1) /\ Tail(l)[i - 1] = l[i]
    BY <1>1
<1>3. In(Tail(l), n) <=> \E i \in 2..Len(l) : l[i] = n
  <2>1. ASSUME In(Tail(l), n) PROVE \E i \in 2..Len(l) : l[i] = n
    <3>1. PICK i \in 1..(Len(l) - 1) : Tail(l)[i] = n
      BY <1>1, <2>1 DEF In
    <3>2. i + 1 \in 2..Len(l) /\ l[i + 1] = n
      BY <1>1, <3>1
    <3> QED
      BY <3>2
  <2>2. ASSUME NEW i \in 2..Len(l), l[i] = n PROVE In(Tail(l), n)
    BY <1>1, <1>2, <2>2 DEF In
  <2> QED
    BY <2>1, <2>2
<1>4. In(Tail(l), n) <=> In(l, n) /\ n # Head(l)
    BY <1>1, <1>3 DEF In, Once
<1>5. ASSUME NEW i \in DOMAIN Tail(l), NEW j \in DOMAIN Tail(l),
             Tail(l)[i] = n, Tail(l)[j] = n
      PROVE  i = j
  <2>1. i + 1 \in DOMAIN l /\ j + 1 \in DOMAIN l /\ l[i + 1] = n /\ l[j + 1] = n
    BY <1>1, <1>5
  <2>2. i + 1 = j + 1
    BY <2>1 DEF Once
  <2> QED
    BY <1>1, <2>2
<1> QED
    BY <1>1, <1>4, <1>5 DEF In, Once

LEMMA PlacedIsInOnePlace == MessageInOnePlace <=> Placed
    BY DEF MessageInOnePlace, Placed, Copies, In, Once

LEMMA OrderFacts ==
    /\ Len(QueueOrder) \in Nat \ {0} /\ QueueOrder[1] \in Queues
    /\ \A q \in Queues : Limit(q) \in Nat
<1>1. Len(QueueOrder) \in Nat \ {0} /\ DOMAIN QueueOrder = 1..Len(QueueOrder)
    BY ConstantsAssumption, LenProperties, EmptySeq
<1> QED
    BY <1>1, ConstantsAssumption DEF Queues, Limit

-----------------------------------------------------------------------------
(* The inductive invariant holds at first and at every step                *)

LEMMA InvInit == Init => IInv
<1> SUFFICES ASSUME Init PROVE IInv
    OBVIOUS
<1>1. TypeOK
    BY OrderFacts, EmptySeq DEF Init, TypeOK, Phases, LoopStates, Fates
<1>2. Placed
    BY EmptyList, ConstantsAssumption DEF Init, Placed
<1>3. LoopsHold
    BY OrderFacts DEF Init, LoopsHold
<1>4. ActiveJobsAreRunning /\ JobsHold
    BY DEF Init, ActiveJobsAreRunning, JobsHold
<1>5. AttemptsBounded
    BY OrderFacts, ConstantsAssumption DEF Init, AttemptsBounded
<1> QED
    BY <1>1, <1>2, <1>3, <1>4, <1>5 DEF IInv

\* A step that leaves the messages where they are and starts or ends no handler.
LEMMA QuietInv ==
    ASSUME IInv, TypeOK', UNCHANGED <<sent, list, hand, fate, attempts, tries>>,
           \A q \in Queues :
               \/ loop'[q] = loop[q]
               \/ /\ loop[q] \notin {"popped", "running", "retryWait"}
                  /\ loop'[q] \notin {"popped", "running", "retryWait"},
           phase' = "off" => phase = "off" /\ loop' = loop,
           activeJobs' = activeJobs \/ (phase' = "down" /\ activeJobs' = {}),
           phase = "down" => phase' = "down"
    PROVE  IInv'
<1>1. Placed'
    BY DEF IInv, Placed
<1>2. LoopsHold'
    BY DEF IInv, LoopsHold
<1>3. AttemptsBounded'
    BY DEF IInv, AttemptsBounded, LoopsHold, TypeOK
<1>4. ActiveJobsAreRunning' /\ JobsHold'
    BY DEF IInv, ActiveJobsAreRunning, JobsHold
<1> QED
    BY <1>1, <1>2, <1>3, <1>4 DEF IInv

LEMMA BootInv == IInv /\ Boot => IInv'
<1> SUFFICES ASSUME IInv, Boot PROVE IInv'
    OBVIOUS
<1>1. TypeOK'
    BY DEF IInv, TypeOK, Boot, Phases, LoopStates
<1>2. \A q \in Queues : loop[q] = "off" /\ loop'[q] \in {"off", "popping"}
    BY DEF IInv, LoopsHold, Boot
<1> QED
    BY <1>1, <1>2, QuietInv DEF Boot

LEMMA PublishInv ==
    ASSUME IInv, NEW q \in Queues, NEW m \in Messages, Publish(q, m)
    PROVE  IInv'
<1>1. fate[m] = "new"
    BY DEF Publish
<1>2. /\ sent' = [sent EXCEPT ![q] = sent[q] \cup {m}]
      /\ fate' = [fate EXCEPT ![m] = "sent"]
      /\ UNCHANGED <<list, phase, closing, queueDown, loop, hand, tries, activeJobs, running, attempts>>
    BY DEF Publish
<1>3. TypeOK'
    BY <1>1, <1>2 DEF IInv, TypeOK, Fates
<1>4. Placed'
  <2>1. \A p \in Queues, n \in Messages : n \in sent'[p] <=> n \in sent[p] \/ (p = q /\ n = m)
    BY <1>2 DEF IInv, TypeOK
  <2>2. \A n \in Messages : fate'[n] = IF n = m THEN "sent" ELSE fate[n]
    BY <1>2 DEF IInv, TypeOK
  <2>3. ASSUME NEW n \in Messages
        PROVE  /\ \A q1, q2 \in Queues : n \in sent'[q1] /\ n \in sent'[q2] => q1 = q2
               /\ (\E p \in Queues : n \in sent'[p]) <=> fate'[n] = "sent"
    BY <1>1, <2>1, <2>2 DEF IInv, Placed
  <2>4. ASSUME NEW n \in Messages
        PROVE  /\ (\E p \in Queues : In(list[p], n)) <=> fate'[n] = "queued"
               /\ (\E p \in Queues : hand[p] = n) <=> fate'[n] = "taken"
    BY <1>1, <2>2 DEF IInv, Placed
  <2> QED
    BY <1>2, <2>3, <2>4 DEF IInv, Placed
<1>5. LoopsHold' /\ ActiveJobsAreRunning' /\ JobsHold'
    BY <1>2 DEF IInv, LoopsHold, ActiveJobsAreRunning, JobsHold
<1>6. AttemptsBounded'
    BY <1>1, <1>2 DEF IInv, TypeOK, AttemptsBounded
<1> QED
    BY <1>3, <1>4, <1>5, <1>6 DEF IInv

\* A message on its way to a list arrives there, or nowhere.
LEMMA PushInv ==
    ASSUME IInv, NEW q \in Queues, NEW m \in Messages, PushLands(q, m) \/ PushFails(q, m)
    PROVE  IInv'
<1>1. m \in sent[q] /\ fate[m] = "sent" /\ list[q] \in Seq(Messages)
    BY DEF IInv, TypeOK, Placed, PushLands, PushFails
<1>2. PICK outcome \in {"queued", "lost"} :
          /\ sent' = [sent EXCEPT ![q] = sent[q] \ {m}]
          /\ fate' = [fate EXCEPT ![m] = outcome]
          /\ list' = IF outcome = "queued" THEN [list EXCEPT ![q] = Append(list[q], m)] ELSE list
          /\ UNCHANGED <<phase, closing, queueDown, loop, hand, tries, activeJobs, running, attempts>>
    BY DEF PushLands, PushFails
<1>3. TypeOK'
    BY <1>1, <1>2, AppendList DEF IInv, TypeOK, Fates
<1>4. Placed'
  <2>1. \A p \in Queues, n \in Messages :
            /\ n \in sent'[p] <=> n \in sent[p] /\ ~(p = q /\ n = m)
            /\ In(list'[p], n) <=> In(list[p], n) \/ (outcome = "queued" /\ p = q /\ n = m)
            /\ Once(list'[p], n)
    <3>1. \A p \in Queues, n \in Messages : n \in sent'[p] <=> n \in sent[p] /\ ~(p = q /\ n = m)
      BY <1>2 DEF IInv, TypeOK
    <3>2. CASE outcome = "queued"
      <4>1. list' = [list EXCEPT ![q] = Append(list[q], m)]
        BY <1>2, <3>2
      <4>2. \A p \in Queues, n \in Messages :
                /\ In(list'[p], n) <=> In(list[p], n) \/ (p = q /\ n = m)
                /\ Once(list'[p], n)
        BY <1>1, <4>1, AppendList DEF IInv, TypeOK, Placed
      <4> QED
        BY <3>1, <3>2, <4>2
    <3>3. CASE outcome = "lost"
      BY <1>2, <3>1, <3>3 DEF IInv, Placed
    <3> QED
      BY <3>2, <3>3
  <2>2. \A n \in Messages : fate'[n] = IF n = m THEN outcome ELSE fate[n]
    BY <1>2 DEF IInv, TypeOK
  <2>3. ASSUME NEW n \in Messages
        PROVE  /\ \A q1, q2 \in Queues :
                     /\ n \in sent'[q1] /\ n \in sent'[q2] => q1 = q2
                     /\ In(list'[q1], n) /\ In(list'[q2], n) => q1 = q2
               /\ (\E p \in Queues : n \in sent'[p]) <=> fate'[n] = "sent"
               /\ (\E p \in Queues : In(list'[p], n)) <=> fate'[n] = "queued"
               /\ (\E p \in Queues : hand[p] = n) <=> fate'[n] = "taken"
    <3>1. CASE n = m
      BY <1>1, <2>1, <2>2, <3>1 DEF IInv, Placed
    <3>2. CASE n # m
      BY <2>1, <2>2, <3>2 DEF IInv, Placed
    <3> QED
      BY <3>1, <3>2
  <2> QED
    BY <1>2, <2>1, <2>3 DEF IInv, Placed
<1>5. LoopsHold' /\ ActiveJobsAreRunning' /\ JobsHold'
    BY <1>2 DEF IInv, LoopsHold, ActiveJobsAreRunning, JobsHold
<1>6. AttemptsBounded'
    BY <1>1, <1>2 DEF IInv, TypeOK, AttemptsBounded
<1> QED
    BY <1>3, <1>4, <1>5, <1>6 DEF IInv

\* The oldest message leaves its list, for the hand of the loop or for ever.
LEMMA PopPlaced ==
    ASSUME IInv, NEW q \in Queues, loop[q] = "popping", list[q] # <<>>,
           NEW outcome \in {"taken", "lost"},
           list' = [list EXCEPT ![q] = Tail(list[q])],
           fate' = [fate EXCEPT ![Head(list[q])] = outcome],
           hand' = IF outcome = "taken" THEN [hand EXCEPT ![q] = Head(list[q])] ELSE hand,
           UNCHANGED sent
    PROVE  /\ Placed'
           /\ Head(list[q]) \in Messages /\ Tail(list[q]) \in Seq(Messages)
           /\ fate[Head(list[q])] = "queued" /\ hand[q] = None
<1> DEFINE h == Head(list[q])
<1>1. list[q] \in Seq(Messages) /\ hand[q] = None
    BY DEF IInv, TypeOK, LoopsHold
<1>2. \A n \in Messages :
          /\ Tail(list[q]) \in Seq(Messages) /\ h \in Messages /\ In(list[q], h)
          /\ In(Tail(list[q]), n) <=> In(list[q], n) /\ n # h
          /\ Once(Tail(list[q]), n)
    BY <1>1, TailList DEF IInv, Placed
<1>3. h \in Messages /\ Tail(list[q]) \in Seq(Messages)
    BY <1>1, HeadTailProperties
<1>4. fate[h] = "queued" /\ h # None
    BY <1>2, <1>3, ConstantsAssumption DEF IInv, Placed
<1>5. \A p \in Queues, n \in Messages :
          /\ In(list'[p], n) <=> In(list[p], n) /\ ~(p = q /\ n = h)
          /\ Once(list'[p], n)
    BY <1>2 DEF IInv, TypeOK, Placed
<1>6. \A n \in Messages : fate'[n] = IF n = h THEN outcome ELSE fate[n]
    BY DEF IInv, TypeOK
<1>7. \A p \in Queues : hand'[p] = IF p = q /\ outcome = "taken" THEN h ELSE hand[p]
    BY DEF IInv, TypeOK
<1>8. \A p \in Queues : In(list[p], h) => p = q
    BY <1>2, <1>3 DEF IInv, Placed
<1>9. \A p \in Queues : hand[p] # h
    BY <1>3, <1>4 DEF IInv, Placed
<1> HIDE DEF h
<1>10. ASSUME NEW n \in Messages
       PROVE  /\ \A p1, p2 \in Queues :
                    /\ n \in sent[p1] /\ n \in sent[p2] => p1 = p2
                    /\ In(list'[p1], n) /\ In(list'[p2], n) => p1 = p2
                    /\ hand'[p1] = n /\ hand'[p2] = n => p1 = p2
              /\ (\E p \in Queues : n \in sent[p]) <=> fate'[n] = "sent"
              /\ (\E p \in Queues : In(list'[p], n)) <=> fate'[n] = "queued"
              /\ (\E p \in Queues : hand'[p] = n) <=> fate'[n] = "taken"
  <2>1. CASE n = h
    BY <1>1, <1>3, <1>4, <1>5, <1>6, <1>7, <1>8, <1>9, <2>1 DEF IInv, Placed
  <2>2. CASE n # h
    BY <1>1, <1>5, <1>6, <1>7, <2>2, ConstantsAssumption DEF IInv, Placed
  <2> QED
    BY <2>1, <2>2
<1> QED
    BY <1>1, <1>3, <1>4, <1>5, <1>10 DEF Placed, h

LEMMA BrpopRepliesInv ==
    ASSUME IInv, NEW q \in Queues, BrpopReplies(q)
    PROVE  IInv'
<1>1. /\ loop[q] = "popping" /\ list[q] # <<>>
      /\ list' = [list EXCEPT ![q] = Tail(list[q])]
      /\ hand' = [hand EXCEPT ![q] = Head(list[q])]
      /\ fate' = [fate EXCEPT ![Head(list[q])] = "taken"]
      /\ loop' = [loop EXCEPT ![q] = "popped"]
      /\ UNCHANGED <<sent, phase, closing, queueDown, tries, activeJobs, running, attempts>>
    BY DEF BrpopReplies
<1>2. /\ Placed' /\ Head(list[q]) \in Messages /\ Tail(list[q]) \in Seq(Messages)
      /\ fate[Head(list[q])] = "queued" /\ hand[q] = None
    BY <1>1, PopPlaced
<1>3. TypeOK'
    BY <1>1, <1>2 DEF IInv, TypeOK, Fates, LoopStates
<1>4. LoopsHold'
    BY <1>1, <1>2, ConstantsAssumption DEF IInv, TypeOK, LoopsHold
<1>5. ActiveJobsAreRunning' /\ JobsHold'
    BY <1>1, <1>2 DEF IInv, TypeOK, ActiveJobsAreRunning, JobsHold
<1>6. AttemptsBounded'
  <2>1. attempts[Head(list[q])] = 0 /\ tries[q] = 0 /\ Limit(q) \in Nat
    BY <1>2, OrderFacts DEF IInv, AttemptsBounded, LoopsHold
  <2>2. \A p \in Queues : hand[p] # Head(list[q])
    BY <1>2 DEF IInv, Placed
  <2> QED
    BY <1>1, <1>2, <2>1, <2>2 DEF IInv, TypeOK, AttemptsBounded
<1> QED
    BY <1>2, <1>3, <1>4, <1>5, <1>6 DEF IInv

LEMMA BrpopFailsInv ==
    ASSUME IInv, NEW q \in Queues, BrpopFails(q)
    PROVE  IInv'
<1>1. /\ loop[q] = "popping" /\ AfterError(q) \in {"ended", "backoff"}
      /\ loop' = [loop EXCEPT ![q] = AfterError(q)]
      /\ UNCHANGED <<sent, phase, closing, queueDown, hand, tries, activeJobs, running, attempts>>
    BY DEF BrpopFails, AfterError
<1>2. CASE UNCHANGED <<list, fate>>
  <2>1. TypeOK'
    BY <1>1, <1>2 DEF IInv, TypeOK, LoopStates
  <2> QED
    BY <1>1, <1>2, <2>1, QuietInv DEF IInv, TypeOK, LoopsHold
<1>3. CASE /\ list[q] # <<>>
           /\ list' = [list EXCEPT ![q] = Tail(list[q])]
           /\ fate' = [fate EXCEPT ![Head(list[q])] = "lost"]
  <2>1. /\ Placed' /\ Head(list[q]) \in Messages /\ Tail(list[q]) \in Seq(Messages)
        /\ fate[Head(list[q])] = "queued" /\ hand[q] = None
    BY <1>1, <1>3, PopPlaced
  <2>2. TypeOK'
    BY <1>1, <1>3, <2>1 DEF IInv, TypeOK, Fates, LoopStates
  <2>3. LoopsHold'
    BY <1>1, <2>1 DEF IInv, TypeOK, LoopsHold
  <2>4. ActiveJobsAreRunning' /\ JobsHold'
    BY <1>1, <1>3, <2>1 DEF IInv, TypeOK, ActiveJobsAreRunning, JobsHold
  <2>5. AttemptsBounded'
    BY <1>1, <1>3, <2>1 DEF IInv, TypeOK, LoopsHold, AttemptsBounded
  <2> QED
    BY <2>1, <2>2, <2>3, <2>4, <2>5 DEF IInv
<1> QED
    BY <1>2, <1>3 DEF BrpopFails

\* What a loop has in its hand before it settles it.
LEMMA HandFacts ==
    ASSUME IInv, NEW q \in Queues, loop[q] \in {"popped", "running", "retryWait"}
    PROVE  /\ hand[q] \in Messages /\ fate[hand[q]] = "taken" /\ hand[q] # None
           /\ \A p \in Queues : hand[p] = hand[q] => p = q
           /\ attempts[hand[q]] = tries[q] + (IF loop[q] = "running" THEN 1 ELSE 0)
           /\ tries[q] \in Nat /\ Limit(q) \in Nat /\ tries[q] <= Limit(q)
<1>1. hand[q] \in Messages /\ hand[q] # None
    BY ConstantsAssumption DEF IInv, TypeOK, LoopsHold
<1>2. fate[hand[q]] = "taken" /\ \A p \in Queues : hand[p] = hand[q] => p = q
    BY <1>1 DEF IInv, Placed
<1>3. attempts[hand[q]] = tries[q] + (IF loop[q] = "running" THEN 1 ELSE 0)
    BY <1>1 DEF IInv, AttemptsBounded
<1> QED
    BY <1>1, <1>2, <1>3, OrderFacts DEF IInv, TypeOK, LoopsHold

\* A loop that is done with its message, whichever way.
LEMMA SettleInv ==
    ASSUME IInv, NEW q \in Queues, loop[q] \in {"popped", "running", "retryWait"},
           NEW outcome \in {"done", "lost"}, outcome = "done" => loop[q] = "running",
           NEW at \in {"popping", "ended", "backoff"}, Settle(q, outcome, at),
           activeJobs' = activeJobs \ {q},
           UNCHANGED <<sent, list, phase, closing, queueDown, running, attempts>>
    PROVE  IInv'
<1>1. /\ hand[q] \in Messages /\ fate[hand[q]] = "taken" /\ hand[q] # None
      /\ \A p \in Queues : hand[p] = hand[q] => p = q
      /\ outcome = "done" => attempts[hand[q]] >= 1
      /\ Limit(q) \in Nat
    BY HandFacts
<1>2. /\ \A m \in Messages : fate'[m] = IF m = hand[q] THEN outcome ELSE fate[m]
      /\ \A p \in Queues :
            /\ hand'[p] = IF p = q THEN None ELSE hand[p]
            /\ tries'[p] = IF p = q THEN 0 ELSE tries[p]
            /\ loop'[p] = IF p = q THEN at ELSE loop[p]
    BY DEF IInv, TypeOK, Settle
<1>3. TypeOK'
    BY <1>1 DEF IInv, TypeOK, Settle, Fates, LoopStates
<1>4. Placed'
  <2>1. \A p \in Queues, n \in Messages : hand'[p] = n <=> hand[p] = n /\ n # hand[q]
    BY <1>1, <1>2, ConstantsAssumption
  <2> QED
    BY <1>1, <1>2, <2>1 DEF IInv, Placed
<1>5. LoopsHold'
    BY <1>2, <1>1 DEF IInv, LoopsHold
<1>6. ActiveJobsAreRunning' /\ JobsHold'
    BY <1>1, <1>2 DEF IInv, ActiveJobsAreRunning, JobsHold
<1>7. AttemptsBounded'
  <2>1. ASSUME NEW m \in Messages
        PROVE  /\ fate'[m] \in {"new", "sent", "queued"} => attempts'[m] = 0
               /\ fate'[m] = "done" => attempts'[m] >= 1
    BY <1>1, <1>2 DEF IInv, AttemptsBounded
  <2>2. ASSUME NEW p \in Queues, hand'[p] # None
        PROVE  /\ attempts'[hand'[p]] = tries'[p] + (IF loop'[p] = "running" THEN 1 ELSE 0)
               /\ attempts'[hand'[p]] <= 1 + Limit(p)
    <3>1. p # q
      BY <1>2, <2>2
    <3> QED
      BY <1>2, <2>2, <3>1 DEF IInv, AttemptsBounded
  <2> QED
    BY <2>1, <2>2 DEF AttemptsBounded
<1> QED
    BY <1>3, <1>4, <1>5, <1>6, <1>7 DEF IInv

LEMMA AttemptInv ==
    ASSUME IInv, NEW q \in Queues, Attempt(q)
    PROVE  IInv'
<1>1. CASE queueDown[q] \/ ~Accepting
  <2>1. q \notin activeJobs
    BY DEF IInv, JobsHold, Attempt
  <2>2. /\ Settle(q, "lost", NextRound(q)) /\ activeJobs' = activeJobs
        /\ UNCHANGED <<sent, list, phase, closing, queueDown, running, attempts>>
        /\ NextRound(q) \in {"popping", "ended"}
        /\ loop[q] \in {"popped", "retryWait"}
    BY <1>1 DEF Attempt, NextRound
  <2> QED
    BY <2>1, <2>2, SettleInv
<1>2. CASE ~(queueDown[q] \/ ~Accepting)
  <2>1. /\ loop[q] \in {"popped", "retryWait"} /\ phase = "up"
        /\ loop' = [loop EXCEPT ![q] = "running"]
        /\ activeJobs' = activeJobs \cup {q}
        /\ attempts' = [attempts EXCEPT ![hand[q]] = attempts[hand[q]] + 1]
        /\ UNCHANGED <<fate, hand, tries, sent, list, phase, closing, queueDown, running>>
    BY <1>2 DEF Attempt, Accepting
  <2>2. /\ hand[q] \in Messages /\ fate[hand[q]] = "taken" /\ hand[q] # None
        /\ \A p \in Queues : hand[p] = hand[q] => p = q
        /\ attempts[hand[q]] = tries[q]
        /\ tries[q] \in Nat /\ Limit(q) \in Nat /\ tries[q] <= Limit(q)
    BY <2>1, HandFacts
  <2>3. /\ \A m \in Messages :
              attempts'[m] = IF m = hand[q] THEN tries[q] + 1 ELSE attempts[m]
        /\ \A p \in Queues : loop'[p] = IF p = q THEN "running" ELSE loop[p]
    BY <2>1, <2>2 DEF IInv, TypeOK
  <2>4. TypeOK'
    BY <2>1, <2>2 DEF IInv, TypeOK, LoopStates
  <2>5. Placed'
    BY <2>1 DEF IInv, Placed
  <2>6. LoopsHold'
    BY <2>1, <2>3 DEF IInv, LoopsHold
  <2>7. ActiveJobsAreRunning' /\ JobsHold'
    BY <2>1, <2>2, <2>3 DEF IInv, TypeOK, ActiveJobsAreRunning, JobsHold
  <2>8. AttemptsBounded'
    <3>1. ASSUME NEW m \in Messages
          PROVE  /\ fate'[m] \in {"new", "sent", "queued"} => attempts'[m] = 0
                 /\ fate'[m] = "done" => attempts'[m] >= 1
      BY <2>1, <2>2, <2>3 DEF IInv, AttemptsBounded
    <3>2. ASSUME NEW p \in Queues, hand'[p] # None
          PROVE  /\ attempts'[hand'[p]] = tries'[p] + (IF loop'[p] = "running" THEN 1 ELSE 0)
                 /\ attempts'[hand'[p]] <= 1 + Limit(p)
      BY <2>1, <2>2, <2>3, <3>2 DEF IInv, TypeOK, AttemptsBounded
    <3> QED
      BY <3>1, <3>2 DEF AttemptsBounded
  <2> QED
    BY <2>4, <2>5, <2>6, <2>7, <2>8 DEF IInv
<1> QED
    BY <1>1, <1>2

LEMMA HandlerSucceedsInv ==
    ASSUME IInv, NEW q \in Queues, HandlerSucceeds(q)
    PROVE  IInv'
    BY SettleInv DEF HandlerSucceeds, NextRound

LEMMA HandlerFailsInv ==
    ASSUME IInv, NEW q \in Queues, HandlerFails(q)
    PROVE  IInv'
<1>1. CASE tries[q] + 1 > Limit(q)
    BY <1>1, SettleInv DEF HandlerFails, AfterError
<1>2. CASE ~(tries[q] + 1 > Limit(q))
  <2>1. /\ loop[q] = "running"
        /\ activeJobs' = activeJobs \ {q}
        /\ tries' = [tries EXCEPT ![q] = tries[q] + 1]
        /\ loop' = [loop EXCEPT ![q] = "retryWait"]
        /\ UNCHANGED <<fate, hand, sent, list, phase, closing, queueDown, running, attempts>>
    BY <1>2 DEF HandlerFails
  <2>2. /\ hand[q] \in Messages /\ hand[q] # None
        /\ \A p \in Queues : hand[p] = hand[q] => p = q
        /\ attempts[hand[q]] = tries[q] + 1
        /\ tries[q] \in Nat /\ Limit(q) \in Nat
    BY <2>1, HandFacts
  <2>3. \A p \in Queues :
            /\ tries'[p] = IF p = q THEN tries[q] + 1 ELSE tries[p]
            /\ loop'[p] = IF p = q THEN "retryWait" ELSE loop[p]
    BY <2>1 DEF IInv, TypeOK
  <2>4. TypeOK'
    BY <2>1, <2>2 DEF IInv, TypeOK, LoopStates
  <2>5. Placed'
    BY <2>1 DEF IInv, Placed
  <2>6. LoopsHold'
    BY <1>2, <2>1, <2>2, <2>3 DEF IInv, LoopsHold
  <2>7. ActiveJobsAreRunning' /\ JobsHold'
    BY <2>1, <2>3 DEF IInv, ActiveJobsAreRunning, JobsHold
  <2>8. AttemptsBounded'
    BY <1>2, <2>1, <2>2, <2>3 DEF IInv, TypeOK, AttemptsBounded
  <2> QED
    BY <2>4, <2>5, <2>6, <2>7, <2>8 DEF IInv
<1> QED
    BY <1>1, <1>2

\* BrpopTimesOut and the end of a backoff.
LEMMA RoundInv ==
    ASSUME IInv, NEW q \in Queues, BrpopTimesOut(q) \/ BackoffEnds(q)
    PROVE  IInv'
<1>1. /\ loop[q] \in {"popping", "backoff"} /\ NextRound(q) \in {"ended", "popping"}
      /\ loop' = [loop EXCEPT ![q] = NextRound(q)]
      /\ UNCHANGED <<sent, list, phase, closing, queueDown, hand, tries, activeJobs, running,
                     fate, attempts>>
    BY DEF BrpopTimesOut, BackoffEnds, NextRound
<1>2. TypeOK'
    BY <1>1 DEF IInv, TypeOK, LoopStates
<1>3. \A p \in Queues : p # q => loop'[p] = loop[p]
    BY <1>1 DEF IInv, TypeOK
<1>4. loop'[q] \in {"ended", "popping"}
    BY <1>1 DEF IInv, TypeOK
<1>5. phase' = "off" => phase = "off" /\ loop' = loop
    BY <1>1 DEF IInv, LoopsHold
<1> QED
    BY <1>1, <1>2, <1>3, <1>4, <1>5, QuietInv

\* The consumers' flags, and the steps of the shutdown.
LEMMA SwitchInv ==
    ASSUME IInv,
           \/ \E q \in Queues : StartConsumer(q) \/ StopConsumer(q)
           \/ BeginShutdown
           \/ ShutdownStep
    PROVE  IInv'
<1>1. CASE \E q \in Queues : StartConsumer(q) \/ StopConsumer(q)
  <2>1. TypeOK'
    BY <1>1 DEF IInv, TypeOK, StartConsumer, StopConsumer
  <2> QED
    BY <1>1, <2>1, QuietInv DEF StartConsumer, StopConsumer
<1>2. CASE BeginShutdown
  <2>1. TypeOK'
    BY <1>2 DEF IInv, TypeOK, BeginShutdown, Phases
  <2> QED
    BY <1>2, <2>1, QuietInv DEF BeginShutdown
<1>3. CASE ShutdownStep
  <2>1. PICK i \in Nat : CloseQueue(i)
    BY <1>3, OrderFacts
    DEF ShutdownStep, JobsDone, JobsTimeOut, QueueCloses, CloseTimesOut, IInv, TypeOK
  <2>2. /\ phase \in {"waiting", "closing"}
        /\ UNCHANGED <<sent, list, loop, hand, tries, running, fate, attempts>>
    BY <1>3 DEF ShutdownStep, JobsDone, JobsTimeOut, QueueCloses, CloseTimesOut
  <2>3. /\ phase' \in Phases /\ closing' \in 0..Len(QueueOrder) /\ activeJobs' \subseteq Queues
        /\ queueDown' \in [Queues -> BOOLEAN]
    <3>1. CASE i <= Len(QueueOrder)
      <4>1. /\ phase' = "closing" /\ closing' = i /\ activeJobs' = activeJobs
            /\ queueDown' = [queueDown EXCEPT ![QueueOrder[i]] = TRUE]
        BY <2>1, <3>1 DEF CloseQueue
      <4>2. queueDown' \in [Queues -> BOOLEAN]
        BY <4>1 DEF IInv, TypeOK
      <4>3. i \in 0..Len(QueueOrder)
        BY <3>1, OrderFacts
      <4> QED
        BY <4>1, <4>2, <4>3 DEF IInv, TypeOK, Phases
    <3>2. CASE ~(i <= Len(QueueOrder))
      BY <2>1, <3>2, OrderFacts DEF IInv, TypeOK, CloseQueue, Phases
    <3> QED
      BY <3>1, <3>2
  <2>4. TypeOK'
    BY <2>2, <2>3 DEF IInv, TypeOK
  <2>5. /\ phase' \in {"closing", "down"}
        /\ activeJobs' = activeJobs \/ (phase' = "down" /\ activeJobs' = {})
    BY <2>1 DEF CloseQueue
  <2> QED
    BY <2>2, <2>4, <2>5, QuietInv
<1> QED
    BY <1>1, <1>2, <1>3

LEMMA ProcessEndsInv == IInv /\ ProcessEnds => IInv'
<1> SUFFICES ASSUME IInv, ProcessEnds PROVE IInv'
    OBVIOUS
<1>1. \A m \in Messages : fate'[m] = IF fate[m] = "taken" THEN "lost" ELSE fate[m]
    BY DEF ProcessEnds
<1>2. \A q \in Queues : hand'[q] = None /\ tries'[q] = 0 /\ loop'[q] = "off"
    BY DEF ProcessEnds
<1>3. TypeOK'
    BY OrderFacts DEF IInv, TypeOK, ProcessEnds, Phases, LoopStates, Fates
<1>4. Placed'
    BY <1>1, <1>2, ConstantsAssumption DEF IInv, Placed, ProcessEnds
<1>5. LoopsHold'
    BY <1>2, OrderFacts DEF LoopsHold
<1>6. ActiveJobsAreRunning' /\ JobsHold'
    BY <1>1, <1>2 DEF IInv, ActiveJobsAreRunning, JobsHold, ProcessEnds
<1>7. AttemptsBounded'
    BY <1>1, <1>2, ConstantsAssumption DEF IInv, AttemptsBounded, ProcessEnds
<1> QED
    BY <1>3, <1>4, <1>5, <1>6, <1>7 DEF IInv

LEMMA InvStep == IInv /\ [Next]_vars => IInv'
<1> SUFFICES ASSUME IInv, [Next]_vars PROVE IInv'
    OBVIOUS
<1>1. CASE UNCHANGED vars
    BY <1>1 DEF vars, IInv, TypeOK, Placed, LoopsHold, AttemptsBounded,
                ActiveJobsAreRunning, JobsHold
<1>2. ASSUME NEW q \in Queues, LoopStep(q) PROVE IInv'
    BY <1>2, BrpopRepliesInv, BrpopFailsInv, AttemptInv, HandlerSucceedsInv, HandlerFailsInv,
       RoundInv DEF LoopStep
<1> QED
    BY <1>1, <1>2, BootInv, PublishInv, PushInv, SwitchInv, ProcessEndsInv DEF Next

-----------------------------------------------------------------------------
\* The inductive invariant holds in every reachable state.
THEOREM InvariantHolds == Spec => []IInv
BY InvInit, InvStep, PTL DEF Spec

\* Every variable keeps its type: no retry count or list leaves its range.
THEOREM TypeCorrect == Spec => []TypeOK
BY InvariantHolds, PTL DEF IInv

\* No message is in two places, over any number of failed calls, retries and restarts.
THEOREM OnePlace == Spec => []MessageInOnePlace
<1>1. IInv => MessageInOnePlace
    BY PlacedIsInOnePlace DEF IInv
<1> QED
    BY <1>1, InvariantHolds, PTL

\* A handler is called with a message once, and then at most as often as the
\* queue that took it retries.
THEOREM BoundedAttempts == Spec => []AttemptsBounded
BY InvariantHolds, PTL DEF IInv

\* The jobs the shutdown waits for are the handlers that run.
THEOREM JobsAreHandlers == Spec => []ActiveJobsAreRunning
BY InvariantHolds, PTL DEF IInv

\* Once shutdown has begun, no handler is called again.
THEOREM QuietShutdown == Spec => NoHandlerStartsInShutdown
<1> DEFINE A == phase \in {"waiting", "closing", "down"} =>
          {q \in Queues : loop'[q] = "running"} \subseteq {q \in Queues : loop[q] = "running"}
<1>1. ASSUME IInv, [Next]_vars PROVE A
  <2> SUFFICES ASSUME phase \in {"waiting", "closing", "down"}, NEW p \in Queues,
                      loop'[p] = "running"
               PROVE  loop[p] = "running"
    OBVIOUS
  <2>1. ASSUME NEW q \in Queues, LoopStep(q) PROVE loop[p] = "running"
    BY <1>1, <2>1
    DEF IInv, TypeOK, LoopStep, BrpopReplies, BrpopTimesOut, BrpopFails, Attempt, Accepting,
        HandlerSucceeds, HandlerFails, BackoffEnds, Settle, NextRound, AfterError
  <2> QED
    BY <1>1, <2>1
    DEF Next, Boot, Publish, PushLands, PushFails, StartConsumer, StopConsumer, BeginShutdown, ShutdownStep, JobsDone,
        JobsTimeOut, QueueCloses, CloseTimesOut, ProcessEnds, vars
<1>2. IInv /\ [Next]_vars => [A]_vars
    BY <1>1
<1> QED
    BY <1>2, InvariantHolds, PTL DEF Spec, NoHandlerStartsInShutdown

\* The queues implement the at-most-once queue.
THEOREM Implements == Spec => ImplementsAtMostOnce
<1>1. Init => AtMostOnce!AInit
    BY DEF Init, AtMostOnce!AInit
<1>2. ASSUME IInv, [Next]_vars PROVE [AtMostOnce!ANext]_<<list, fate>>
  <2>1. ASSUME NEW q \in Queues, NEW m \in Messages,
               Publish(q, m) \/ PushLands(q, m) \/ PushFails(q, m)
        PROVE  AtMostOnce!ANext
    <3>1. CASE Publish(q, m)
      BY <3>1 DEF Publish, AtMostOnce!Send, AtMostOnce!ANext
    <3>2. fate[m] = "sent" \/ Publish(q, m)
      BY <1>2, <2>1 DEF IInv, Placed, PushLands, PushFails
    <3>3. CASE PushLands(q, m)
      BY <3>1, <3>2, <3>3 DEF PushLands, AtMostOnce!Put, AtMostOnce!ANext
    <3>4. CASE PushFails(q, m)
      <4>1. fate' = [n \in Messages |-> IF n \in {m} THEN "lost" ELSE fate[n]]
        BY <1>2, <3>4 DEF PushFails, IInv, TypeOK
      <4>2. fate[m] = "sent" => AtMostOnce!Lose({m})
        BY <3>4, <4>1 DEF PushFails, AtMostOnce!Lose
      <4>3. {m} \in SUBSET Messages
        OBVIOUS
      <4> QED
        BY <3>1, <3>2, <4>2, <4>3 DEF AtMostOnce!ANext
    <3> QED
      BY <2>1, <3>1, <3>3, <3>4
  <2>2. ASSUME NEW q \in Queues, BrpopReplies(q) PROVE AtMostOnce!Take(q, "taken")
    BY <2>2 DEF BrpopReplies, AtMostOnce!Take
  <2>3. ASSUME NEW q \in Queues, BrpopFails(q)
        PROVE  UNCHANGED <<list, fate>> \/ AtMostOnce!Take(q, "lost")
    BY <2>3 DEF BrpopFails, AtMostOnce!Take
  <2>4. ASSUME NEW q \in Queues, loop[q] \in {"popped", "running", "retryWait"}, NEW at,
               Settle(q, "lost", at), UNCHANGED list
        PROVE  AtMostOnce!ANext
    <3>1. fate[hand[q]] = "taken" /\ hand[q] \in Messages
      BY <1>2, <2>4, HandFacts
    <3>2. fate' = [m \in Messages |-> IF m \in {hand[q]} THEN "lost" ELSE fate[m]]
      BY <1>2, <2>4 DEF Settle, IInv, TypeOK
    <3>3. AtMostOnce!Lose({hand[q]})
      BY <2>4, <3>1, <3>2 DEF AtMostOnce!Lose
    <3>4. {hand[q]} \in SUBSET Messages
      BY <3>1
    <3> QED
      BY <3>3, <3>4 DEF AtMostOnce!ANext
  <2>5. ASSUME NEW q \in Queues, HandlerSucceeds(q) PROVE AtMostOnce!ANext
    <3>1. fate[hand[q]] = "taken" /\ hand[q] \in Messages
      BY <1>2, <2>5, HandFacts DEF HandlerSucceeds
    <3>2. AtMostOnce!Finish(hand[q])
      BY <2>5, <3>1 DEF HandlerSucceeds, Settle, AtMostOnce!Finish
    <3> QED
      BY <3>1, <3>2 DEF AtMostOnce!ANext
  <2>6. ASSUME NEW q \in Queues, LoopStep(q)
        PROVE  UNCHANGED <<list, fate>> \/ AtMostOnce!ANext
    <3>1. CASE Attempt(q) \/ HandlerFails(q)
      BY <2>4, <3>1 DEF Attempt, HandlerFails
    <3> QED
      BY <2>2, <2>3, <2>5, <2>6, <3>1
      DEF LoopStep, BrpopTimesOut, BackoffEnds, AtMostOnce!ANext
  <2>7. CASE ProcessEnds
    <3> DEFINE ms == {m \in Messages : fate[m] = "taken"}
    <3>1. fate' = [m \in Messages |-> IF m \in ms THEN "lost" ELSE fate[m]]
      BY <2>7 DEF ProcessEnds
    <3>2. AtMostOnce!Lose(ms)
      BY <2>7, <3>1 DEF ProcessEnds, AtMostOnce!Lose
    <3> QED
      BY <3>2 DEF AtMostOnce!ANext
  <2> QED
    BY <1>2, <2>1, <2>6, <2>7
    DEF Next, AtMostOnce!ANext, Boot, StartConsumer, StopConsumer, BeginShutdown, ShutdownStep,
        JobsDone, JobsTimeOut, QueueCloses, CloseTimesOut, vars
<1>3. IInv /\ [Next]_vars => [AtMostOnce!ANext]_(AtMostOnce!avars)
    BY <1>2 DEF AtMostOnce!avars
<1> QED
    BY <1>1, <1>3, InvariantHolds, PTL DEF Spec, ImplementsAtMostOnce, AtMostOnce!ASpec
=============================================================================
