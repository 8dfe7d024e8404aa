---------------------------- MODULE ApiContract -----------------------------
(***************************************************************************)
(* What the document that the server publishes promises of a request: it   *)
(* may be refused at any time, but no operation runs that may not run for  *)
(* it, and an answer of success is the one which the operation that has    *)
(* run documents, given to somebody who is entitled to it.                 *)
(***************************************************************************)
EXTENDS Naturals

CONSTANTS
    Clients,          \* who sends requests, one at a time
    Requests,         \* what they may ask
    None,             \* no request, no operation
    Allowed(_),       \* the operations that may run for a request
    MaySucceed(_, _)  \* may an operation that runs for a request succeed?

VARIABLES
    asked,      \* Clients: the request
    operation,  \* Clients: the operation that runs or has run for it
    status      \* Clients: the answer, 0 before

vars == <<asked, operation, status>>

Statuses == {200, 201, 202, 204, 400, 401, 403, 404, 409, 429, 500}
Success(s) == s \in 200..299

Init ==
    /\ asked = [c \in Clients |-> None]
    /\ operation = [c \in Clients |-> None]
    /\ status = [c \in Clients |-> 0]

Ask(c) ==
    /\ asked[c] = None
    /\ \E r \in Requests : asked' = [asked EXCEPT ![c] = r]
    /\ UNCHANGED <<operation, status>>

Serve(c) ==
    /\ asked[c] # None /\ operation[c] = None /\ status[c] = 0
    /\ \E d \in Allowed(asked[c]) : operation' = [operation EXCEPT ![c] = d]
    /\ UNCHANGED <<asked, status>>

Answer(c) ==
    /\ asked[c] # None /\ status[c] = 0
    /\ \E s \in Statuses :
        /\ Success(s) => /\ operation[c] # None
                         /\ operation[c].document.success = s
                         /\ MaySucceed(asked[c], operation[c])
        /\ status' = [status EXCEPT ![c] = s]
    /\ UNCHANGED <<asked, operation>>

Leave(c) ==
    /\ status[c] # 0
    /\ asked' = [asked EXCEPT ![c] = None]
    /\ operation' = [operation EXCEPT ![c] = None]
    /\ status' = [status EXCEPT ![c] = 0]

Next == \E c \in Clients : Ask(c) \/ Serve(c) \/ Answer(c) \/ Leave(c)

Spec == Init /\ [][Next]_vars
=============================================================================
