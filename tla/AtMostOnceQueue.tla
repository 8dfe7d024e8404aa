-------------------------- MODULE AtMostOnceQueue --------------------------
(***************************************************************************)
(* What the background queues promise to a publisher, whatever retries,    *)
(* shutdowns and crashes happen: a message that arrives waits behind those *)
(* that arrived before it, is taken at most once, and once taken it is     *)
(* either done or lost.  It may be lost before it arrives as well.  There  *)
(* is no second delivery and no dead-letter queue.                         *)
(***************************************************************************)
EXTENDS Sequences

CONSTANTS Queues, Messages

VARIABLES
    waiting,  \* for each queue, its messages in order
    state     \* what became of each message

avars == <<waiting, state>>

AInit ==
    /\ waiting \in [Queues -> {<<>>}]
    /\ state = [m \in Messages |-> "new"]

Send(m) ==
    /\ state[m] = "new"
    /\ state' = [state EXCEPT ![m] = "sent"]
    /\ UNCHANGED waiting

Put(q, m) ==
    /\ state[m] = "sent"
    /\ waiting' = [waiting EXCEPT ![q] = Append(@, m)]
    /\ state' = [state EXCEPT ![m] = "queued"]

Take(q, outcome) ==
    /\ waiting[q] # <<>>
    /\ waiting' = [waiting EXCEPT ![q] = Tail(@)]
    /\ state' = [state EXCEPT ![Head(waiting[q])] = outcome]

Finish(m) ==
    /\ state[m] = "taken"
    /\ state' = [state EXCEPT ![m] = "done"]
    /\ UNCHANGED waiting

\* Messages that are on their way or taken may be lost, several at once when the
\* process stops.
Lose(ms) ==
    /\ \A m \in ms : state[m] \in {"sent", "taken"}
    /\ state' = [m \in Messages |-> IF m \in ms THEN "lost" ELSE state[m]]
    /\ UNCHANGED waiting

ANext ==
    \/ \E q \in Queues, m \in Messages : Put(q, m)
    \/ \E q \in Queues : Take(q, "taken") \/ Take(q, "lost")
    \/ \E m \in Messages : Send(m) \/ Finish(m)
    \/ \E ms \in SUBSET Messages : Lose(ms)

ASpec == AInit /\ [][ANext]_avars
=============================================================================
