--------------------------- MODULE MCServerProcess ---------------------------
(* Instances of ServerProcess for TLC.                                     *)
EXTENDS ServerProcess

OneQueue == <<"email">>
RetryOnce == [q \in {"email"} |-> 1]
=============================================================================
