----------------------------- MODULE MCJobQueue -----------------------------
(* An instance of JobQueue for TLC.                                        *)
EXTENDS JobQueue

\* The queues that QueueInitializer creates, in its order.  The limit of one
\* is cut down to 2, the other's is left to its default, which is 3.
TwoQueues == <<"default", "email">>
FewRetries == [q \in Queues |-> IF q = "default" THEN 2 ELSE 0]
=============================================================================
