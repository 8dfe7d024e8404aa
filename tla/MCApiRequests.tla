--------------------------- MODULE MCApiRequests ----------------------------
(* An instance of ApiRequests for TLC, with requests for every endpoint.   *)
EXTENDS ApiRequests

OneOfEach == [l \in Limiters |-> 1]

\* The paths of a pattern, all of whose parameters are UUIDs or numbers.
Values(pattern) ==
    {[i \in DOMAIN pattern |-> IF pattern[i] \in Params THEN v ELSE pattern[i]] :
        v \in {"uuid", "7"}}

Has(validators, stack) == \E i \in DOMAIN stack : stack[i] \in validators

\* For an operation: requests at its path and at the path of its document, with a token
\* that is good or not, a body and a query that fit its schema or not.
Asking(m, d) ==
    [mount : {m}, verb : {d.verb}, path : Values(d.path) \cup Values(d.document.path),
     version : {"v1"}, token : {"good", "bad"},
     body : IF Has({"body"}, d.stack) THEN {"fits", "misfit"} ELSE {"fits"},
     query : IF Has({"query", "numberQuery"}, d.stack)
             THEN {"absent", "fits", "misfit"} ELSE {"absent"}]

\* A probe, a path of no route, a mount that does not exist, a version that does not, and
\* a body that does not parse.
Odd ==
    {[mount |-> "none", verb |-> "GET", path |-> <<p>>, version |-> None, token |-> "bad",
      body |-> "fits", query |-> "absent"] : p \in Probes \cup {"elsewhere"}}
    \cup [mount : {"auth", "users", "roles"}, verb : {"GET"}, path : {<<"no", "such">>},
          version : {"v1", "v2"}, token : {"good", "bad"}, body : {"fits", "garbled"},
          query : {"absent"}]

AllRequests ==
    UNION {Asking(m, Routers[m][i]) : <<m, i>> \in
               {p \in Mounts \X (1..10) : p[2] \in DOMAIN Routers[p[1]]}}
    \cup Odd
=============================================================================
