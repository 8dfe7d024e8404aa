----------------------- MODULE RoutePermissionsProofs -----------------------
(***************************************************************************)
(* Theorems about authorization by route, for any routes, endpoints, roles *)
(* and requests in flight: whatever is cached, and whichever permissions   *)
(* are created meanwhile, a request is judged by the action of a row it    *)
(* fits, or by convention if it fits none that the process started with.   *)
(***************************************************************************)
EXTENDS RoutePermissions, SequenceTheorems, WellFoundedInduction, TLAPS

-----------------------------------------------------------------------------
(* The inductive invariant                                                 *)

\* No row that the process started with is fitted by a route of key k.
Unfit(k) == \A i \in 1..boot : ~Fits(k.route, permissions[i].route)

\* The cache holds the actions of rows, and '' only for keys without one.
CacheHolds(known) ==
    \A k \in Keys :
        /\ known[k] \in Actions =>
               \E i \in 1..Len(permissions) :
                   Fits(k.route, permissions[i].route) /\ permissions[i].action = known[k]
        /\ known[k] = NoAction => Unfit(k)

\* A request that still looks for its action has found nothing for the candidates before
\* the one it is at; one that has its action has it from a row or from the convention.
Resolved(r) ==
    LET c == Candidates(r.endpoint) IN
    /\ r.pc \in {"exact", "pattern"} =>
           r.at \in 1..Len(c) /\ \A j \in 1..(r.at - 1) : Unfit(c[j])
    /\ r.pc \in {"check", "accepted"} =>
           \/ \E i \in 1..Len(permissions), j \in 1..Len(c) :
                  Fits(c[j].route, permissions[i].route) /\ permissions[i].action = r.action
           \/ r.action = Convention(r.endpoint) /\ \A j \in 1..Len(c) : Unfit(c[j])

IInv ==
    /\ TypeOK
    /\ CacheHolds(cache)
    /\ \A s \in Slots : req[s] \in Authorization => Resolved(req[s])

-----------------------------------------------------------------------------
(* Routes and patterns                                                     *)

LEMMA SameInterval == ASSUME NEW m \in Nat, NEW n \in Nat, 1..m = 1..n PROVE m = n
<1>1. ASSUME NEW k \in Nat, NEW l \in Nat, k < l PROVE 1..k # 1..l
  <2>1. l \in 1..l /\ l \notin 1..k
    BY <1>1
  <2> QED
    BY <2>1
<1> QED
    BY <1>1

LEMMA ShortSequences ==
    ASSUME NEW S, NEW a \in S, NEW b \in S
    PROVE  /\ <<>> \in Seq(S) /\ Len(<<>>) = 0
           /\ <<a>> \in Seq(S) /\ Len(<<a>>) = 1
           /\ <<a, b>> \in Seq(S) /\ Len(<<a, b>>) = 2
OBVIOUS

\* The comparison of the code, segment by segment, is the one meant: the route becomes
\* the pattern when some of its segments are made parameters.
THEOREM MatchesIsFits ==
    ASSUME NEW route \in Seq(Segments), NEW pattern \in Seq(Segments)
    PROVE  Matches(route, pattern) <=> Fits(route, pattern)
<1>1. /\ Len(route) \in Nat /\ DOMAIN route = 1..Len(route)
      /\ Len(pattern) \in Nat /\ DOMAIN pattern = 1..Len(pattern)
      /\ pattern \in [1..Len(pattern) -> Segments]
    BY LenProperties
<1>2. ASSUME Matches(route, pattern) PROVE Fits(route, pattern)
  <2> DEFINE some == {i \in DOMAIN route : pattern[i] = Dyn}
  <2>1. pattern = [i \in DOMAIN route |-> IF i \in some THEN Dyn ELSE route[i]]
    BY <1>1, <1>2 DEF Matches
  <2> QED
    BY <2>1 DEF Fits
<1>3. ASSUME Fits(route, pattern) PROVE Matches(route, pattern)
  <2>1. PICK some \in SUBSET DOMAIN route :
            pattern = [i \in DOMAIN route |-> IF i \in some THEN Dyn ELSE route[i]]
    BY <1>3 DEF Fits
  <2>2. DOMAIN pattern = DOMAIN route
    BY <2>1
  <2>3. Len(pattern) = Len(route)
    BY <1>1, <2>2, SameInterval
  <2> QED
    BY <1>1, <2>1, <2>2, <2>3 DEF Matches
<1> QED
    BY <1>2, <1>3

\* Three or four routes are tried for an endpoint.
LEMMA CandidateFacts ==
    ASSUME NEW e \in Endpoints
    PROVE  /\ Len(Candidates(e)) \in 3..4
           /\ \A j \in 1..Len(Candidates(e)) :
                  Candidates(e)[j] \in Keys /\ Candidates(e)[j].route \in Seq(Segments)
<1> DEFINE K == [slash : BOOLEAN, route : Seq(Segments)]
           inRouter == Tail(e.path)
           front == <<Key(TRUE, e.path), Key(TRUE, inRouter)>>
           middle == IF e.route # inRouter THEN <<Key(TRUE, e.route)>> ELSE <<>>
           back == <<Key(FALSE, e.path)>>
<1>1. e.path \in Seq(Segments) /\ e.route \in Seq(Segments) /\ inRouter \in Seq(Segments)
    BY ConstantsAssumption, HeadTailProperties
<1>2. /\ Key(TRUE, e.path) \in K /\ Key(TRUE, inRouter) \in K
      /\ Key(TRUE, e.route) \in K /\ Key(FALSE, e.path) \in K
    BY <1>1 DEF Key
<1> HIDE DEF K
<1>3. front \in Seq(K) /\ Len(front) = 2
    BY <1>2, ShortSequences
<1>4. middle \in Seq(K) /\ Len(middle) \in 0..1
  <2>1. CASE e.route # inRouter
    <3> DEFINE declared == <<Key(TRUE, e.route)>>
    <3>1. middle = declared
      BY <2>1
    <3>2. declared \in Seq(K) /\ Len(declared) = 1
      BY <1>2, ShortSequences
    <3> HIDE DEF middle, declared
    <3> QED
      BY <3>1, <3>2
  <2>2. CASE e.route = inRouter
    <3>1. middle = <<>>
      BY <2>2
    <3>2. <<>> \in Seq(K) /\ Len(<<>>) = 0
      BY <1>2, ShortSequences
    <3> HIDE DEF middle
    <3> QED
      BY <3>1, <3>2
  <2> QED
    BY <2>1, <2>2
<1>5. back \in Seq(K) /\ Len(back) = 1
    BY <1>2, ShortSequences
<1>6. Candidates(e) = (front \o middle) \o back
    BY DEF Candidates
<1> HIDE DEF front, middle, back
<1>7. front \o middle \in Seq(K) /\ Len(front \o middle) \in 2..3
  <2>1. front \o middle \in Seq(K) /\ Len(front \o middle) = Len(front) + Len(middle)
    BY <1>3, <1>4, ConcatProperties
  <2> QED
    BY <1>3, <1>4, <2>1
<1>8. Candidates(e) \in Seq(K) /\ Len(Candidates(e)) \in 3..4
  <2>1. /\ (front \o middle) \o back \in Seq(K)
        /\ Len((front \o middle) \o back) = Len(front \o middle) + Len(back)
    BY <1>5, <1>7, ConcatProperties
  <2> QED
    BY <1>5, <1>6, <1>7, <2>1
<1>9. \A j \in 1..Len(Candidates(e)) : Candidates(e)[j] \in K
    BY <1>8, LenProperties
<1>10. \A j \in 1..Len(Candidates(e)) : Candidates(e)[j] \in Keys
    BY DEF Keys
<1> QED
    BY <1>8, <1>9, <1>10 DEF K

\* The table is a sequence of rows, and its rows are typed.
LEMMA TableFacts ==
    ASSUME TypeOK
    PROVE  /\ permissions \in Seq(Permission) /\ Len(permissions) \in 0..MaxPermissions
           /\ permissions \in [1..Len(permissions) -> Permission]
           /\ boot \in 0..Len(permissions)
           /\ \A i \in 1..Len(permissions) :
                /\ permissions[i].action \in Actions
                /\ permissions[i].route \in Seq(Segments)
<1>1. PICK n \in 0..MaxPermissions : permissions \in [1..n -> Permission]
    BY DEF TypeOK
<1>2. permissions \in Seq(Permission) /\ Len(permissions) = n
    BY <1>1, ConstantsAssumption
<1> QED
    BY <1>1, <1>2, ConstantsAssumption DEF TypeOK, Permission

LEMMA TableType ==
    ASSUME NEW p \in Seq(Permission), Len(p) \in 0..MaxPermissions
    PROVE  p \in UNION {[1..n -> Permission] : n \in 0..MaxPermissions}
BY LenProperties

\* What is not known of a request is known of none of its rows.
LEMMA UnfitByPattern ==
    ASSUME TypeOK, NEW k, k.route \in Seq(Segments)
    PROVE  /\ \A i \in 1..Len(permissions) :
                  i \in ByPattern(k) <=> Fits(k.route, permissions[i].route)
           /\ Exact(k) \subseteq ByPattern(k)
<1>1. \A i \in 1..Len(permissions) :
          Matches(k.route, permissions[i].route) <=> Fits(k.route, permissions[i].route)
    BY TableFacts, MatchesIsFits
<1>2. Matches(k.route, k.route)
    BY DEF Matches
<1> QED
    BY <1>1, <1>2 DEF ByPattern, Exact

\* Every set of natural numbers that is not empty has a least element.
LEMMA MinLeast ==
    ASSUME NEW S, S \subseteq Nat, S # {}
    PROVE  Min(S) \in S /\ \A y \in S : Min(S) <= y
<1> DEFINE R == OpToRel(<, Nat)
<1>1. R = {ss \in Nat \X Nat : ss[1] < ss[2]}
    BY DEF OpToRel
<1>2. IsWellFoundedOn(R, Nat)
    BY NatLessThanWellFounded, Zenon
<1> HIDE DEF R
<1>3. PICK x \in S : \A y \in S : ~ (<<y, x>> \in R)
    BY <1>2, WFMin, Zenon
<1>4. \A y \in S : x <= y
  <2> TAKE y \in S
  <2>1. ~(y < x)
    BY <1>1, <1>3
  <2> QED
    BY <2>1
<1> QED
    BY <1>3, <1>4 DEF Min

-----------------------------------------------------------------------------
(* Steps                                                                   *)

\* A step of one slot that changes neither the table nor the start.
LEMMA OneSlot ==
    ASSUME IInv, NEW s \in Slots, NEW r \in {Idle, Refused} \cup Authorization \cup Creation,
           Becomes(s, r), UNCHANGED <<tables, boot>>,
           cache' \in [Keys -> Actions \cup {NoAction, Absent}], CacheHolds(cache'),
           r \in Authorization => Resolved(r)
    PROVE  IInv'
<1>1. \A t \in Slots : req'[t] = IF t = s THEN r ELSE req[t]
    BY DEF IInv, TypeOK, Becomes
<1>2. TypeOK'
    BY DEF IInv, TypeOK, tables, Becomes
<1>3. \A k : Unfit(k)' <=> Unfit(k)
    BY DEF Unfit, tables
<1>4. CacheHolds(cache)'
    BY <1>3 DEF CacheHolds, tables
<1>5. ASSUME NEW t \in Slots, req'[t] \in Authorization PROVE Resolved(req[t])'
  <2>1. Resolved(req'[t])
    BY <1>1, <1>5 DEF IInv
  <2> QED
    BY <1>3, <2>1 DEF Resolved, tables
<1> QED
    BY <1>2, <1>4, <1>5 DEF IInv

\* Where Resolve leaves a request that has found nothing before candidate i.
LEMMA ResolveHolds ==
    ASSUME TypeOK, NEW r \in Authorization,
           NEW known \in [Keys -> Actions \cup {NoAction, Absent}], CacheHolds(known),
           NEW i \in 1..(Len(Candidates(r.endpoint)) + 1),
           \A j \in 1..(i - 1) : Unfit(Candidates(r.endpoint)[j])
    PROVE  /\ Resolve(r, i, known) \in Authorization
           /\ Resolved(Resolve(r, i, known))
<1> DEFINE c == Candidates(r.endpoint)
           open == {j \in i..Len(c) : known[c[j]] # NoAction}
           first == Min(open)
           q == Resolve(r, i, known)
<1>1. /\ r.endpoint \in Endpoints /\ Len(c) \in 3..4
      /\ \A j \in 1..Len(c) : c[j] \in Keys
    BY CandidateFacts DEF Authorization
<1>2. \A j \in i..Len(c) : j \in open \/ Unfit(c[j])
    BY <1>1 DEF CacheHolds
<1>3. CASE open = {}
  <2>1. q = [r EXCEPT !.pc = "check", !.action = Convention(r.endpoint)]
    BY <1>3 DEF Resolve
  <2>2. /\ q \in Authorization /\ q.pc = "check" /\ q.endpoint = r.endpoint
        /\ q.action = Convention(r.endpoint)
    BY <2>1, <1>1 DEF Authorization
  <2>3. \A j \in 1..Len(c) : Unfit(c[j])
    <3> TAKE j \in 1..Len(c)
    <3>1. j \in 1..(i - 1) \/ j \in i..Len(c)
      BY <1>1
    <3> QED
      BY <1>2, <1>3, <3>1
  <2> QED
    BY <2>2, <2>3 DEF Resolved
<1>4. CASE open # {}
  <2>1. first \in open /\ \A j \in open : first <= j
    <3>1. open \subseteq Nat
      BY <1>1
    <3> HIDE DEF open
    <3> QED
      BY <1>4, <3>1, MinLeast
  <2>2. first \in i..Len(c) /\ first \in 1..Len(c) /\ first \in 1..4 /\ first >= i
    <3>1. first \in i..Len(c)
      BY <2>1
    <3> HIDE DEF first
    <3> QED
      BY <1>1, <3>1
  <2>3. \A j \in 1..(first - 1) : Unfit(c[j])
    <3> TAKE j \in 1..(first - 1)
    <3> HIDE DEF open, first
    <3>1. j \in 1..(i - 1) \/ j \in i..Len(c)
      BY <1>1, <2>2
    <3>2. j \notin open
      BY <1>1, <2>1, <2>2
    <3> QED
      BY <1>2, <3>1, <3>2
  <2>4. CASE known[c[first]] = Absent
    <3>1. q = [r EXCEPT !.pc = "exact", !.at = first]
      BY <1>4, <2>4 DEF Resolve
    <3>2. /\ q \in Authorization /\ q.pc = "exact" /\ q.endpoint = r.endpoint /\ q.at = first
      BY <3>1, <2>2 DEF Authorization
    <3> QED
      BY <2>2, <2>3, <3>2 DEF Resolved
  <2>5. CASE known[c[first]] # Absent
    <3>1. q = [r EXCEPT !.pc = "check", !.action = known[c[first]]]
      BY <1>4, <2>5 DEF Resolve
    <3>2. known[c[first]] \in Actions /\ c[first] \in Keys
      BY <1>1, <2>1, <2>2, <2>5
    <3>3. /\ q \in Authorization /\ q.pc = "check" /\ q.endpoint = r.endpoint
          /\ q.action = known[c[first]]
      BY <3>1, <3>2 DEF Authorization
    <3>4. PICK n \in 1..Len(permissions) :
              Fits(c[first].route, permissions[n].route)
              /\ permissions[n].action = known[c[first]]
      BY <3>2 DEF CacheHolds
    <3> QED
      BY <2>2, <3>3, <3>4 DEF Resolved
  <2> QED
    BY <2>4, <2>5
<1> QED
    BY <1>3, <1>4

LEMMA AuthorizeInv ==
    ASSUME IInv, NEW s \in Slots, NEW e \in Endpoints, NEW roles \in SUBSET Roles,
           Authorize(s, e, roles)
    PROVE  IInv'
<1> DEFINE r == [pc |-> "exact", endpoint |-> e, roles |-> roles, at |-> 1, action |-> NoAction]
<1>1. r \in Authorization /\ r.endpoint = e
    BY DEF Authorization
<1>2. Becomes(s, Resolve(r, 1, cache)) /\ UNCHANGED <<tables, cache, boot>>
    BY DEF Authorize
<1> HIDE DEF r
<1>3. 1 \in 1..(Len(Candidates(r.endpoint)) + 1)
    BY <1>1, CandidateFacts
<1>4. Resolve(r, 1, cache) \in Authorization /\ Resolved(Resolve(r, 1, cache))
    BY <1>1, <1>3, ResolveHolds DEF IInv, TypeOK
<1> QED
    BY <1>2, <1>4, OneSlot DEF IInv, TypeOK

\* Slot s is in one of the two queries, for a key of its endpoint.
LEMMA AtQuery ==
    ASSUME IInv, NEW s \in Slots, At(s, "exact") \/ At(s, "pattern")
    PROVE  /\ req[s] \in Authorization /\ Resolved(req[s]) /\ req[s].endpoint \in Endpoints
           /\ req[s].at \in 1..Len(Candidates(req[s].endpoint))
           /\ KeyOf(req[s]) = Candidates(req[s].endpoint)[req[s].at]
           /\ KeyOf(req[s]) \in Keys /\ KeyOf(req[s]).route \in Seq(Segments)
<1>1. req[s] \in Authorization
    BY DEF IInv, TypeOK, At, Idle, Refused, Creation
<1>2. Resolved(req[s]) /\ req[s].endpoint \in Endpoints
    BY <1>1 DEF IInv, Authorization
<1>3. req[s].at \in 1..Len(Candidates(req[s].endpoint))
    BY <1>2 DEF Resolved, At
<1> QED
    BY <1>1, <1>2, <1>3, CandidateFacts DEF KeyOf

\* A row found is cached and used.
LEMMA UseInv ==
    ASSUME IInv, NEW s \in Slots, At(s, "exact") \/ At(s, "pattern"),
           NEW i \in ByPattern(KeyOf(req[s])), Use(s, i)
    PROVE  IInv'
<1> DEFINE k == KeyOf(req[s])
           r == [req[s] EXCEPT !.pc = "check", !.action = permissions[i].action]
<1>1. /\ req[s] \in Authorization /\ req[s].endpoint \in Endpoints
      /\ req[s].at \in 1..Len(Candidates(req[s].endpoint))
      /\ k = Candidates(req[s].endpoint)[req[s].at]
      /\ k \in Keys /\ k.route \in Seq(Segments)
    BY AtQuery
<1>2. /\ i \in 1..Len(permissions) /\ Fits(k.route, permissions[i].route)
      /\ permissions[i].action \in Actions
    BY <1>1, UnfitByPattern, TableFacts DEF IInv, ByPattern
<1>3. /\ cache' = [cache EXCEPT ![k] = permissions[i].action]
      /\ Becomes(s, r) /\ UNCHANGED <<tables, boot>>
    BY DEF Use
<1>4. /\ r \in Authorization /\ r.pc = "check" /\ r.endpoint = req[s].endpoint
      /\ r.action = permissions[i].action
    BY <1>1, <1>2 DEF Authorization
<1> HIDE DEF r, k
<1>5. Resolved(r)
    BY <1>1, <1>2, <1>4 DEF Resolved
<1>6. cache' \in [Keys -> Actions \cup {NoAction, Absent}]
    BY <1>1, <1>2, <1>3 DEF IInv, TypeOK
<1>7. CacheHolds(cache')
  <2>1. \A l \in Keys : cache'[l] = IF l = k THEN permissions[i].action ELSE cache[l]
    BY <1>3 DEF IInv, TypeOK
  <2> QED
    BY <1>2, <2>1, ConstantsAssumption DEF IInv, CacheHolds
<1> QED
    BY <1>3, <1>4, <1>5, <1>6, <1>7, OneSlot

LEMMA FindExactInv ==
    ASSUME IInv, NEW s \in Slots, FindExact(s)
    PROVE  IInv'
<1>1. At(s, "exact") /\ req[s] \in Authorization /\ Resolved(req[s])
    BY AtQuery DEF FindExact
<1>2. ASSUME NEW i \in Exact(KeyOf(req[s])), Use(s, i) PROVE IInv'
  <2>1. i \in ByPattern(KeyOf(req[s]))
    BY <1>1, <1>2, AtQuery, UnfitByPattern DEF IInv
  <2> QED
    BY <1>1, <1>2, <2>1, UseInv
<1>3. CASE Becomes(s, [req[s] EXCEPT !.pc = "pattern"]) /\ UNCHANGED <<tables, cache, boot>>
  <2> DEFINE r == [req[s] EXCEPT !.pc = "pattern"]
  <2>1. /\ r \in Authorization /\ r.pc = "pattern" /\ r.endpoint = req[s].endpoint
        /\ r.at = req[s].at
    BY <1>1 DEF Authorization
  <2>2. Resolved(r)
    BY <1>1, <2>1 DEF Resolved, At
  <2> QED
    BY <1>3, <2>1, <2>2, OneSlot DEF IInv, TypeOK
<1> QED
    BY <1>2, <1>3 DEF FindExact

LEMMA FindByPatternInv ==
    ASSUME IInv, NEW s \in Slots, FindByPattern(s)
    PROVE  IInv'
<1> DEFINE k == KeyOf(req[s])
           c == Candidates(req[s].endpoint)
<1>1. /\ At(s, "pattern") /\ req[s] \in Authorization /\ Resolved(req[s])
      /\ req[s].endpoint \in Endpoints /\ req[s].at \in 1..Len(c)
      /\ k = c[req[s].at] /\ k \in Keys /\ k.route \in Seq(Segments)
    BY AtQuery DEF FindByPattern
<1>2. ASSUME NEW i \in ByPattern(k), Use(s, i) PROVE IInv'
    BY <1>1, <1>2, UseInv
<1>3. CASE /\ ByPattern(k) = {}
           /\ cache' = [cache EXCEPT ![k] = NoAction]
           /\ Becomes(s, Resolve(req[s], req[s].at + 1, cache'))
           /\ UNCHANGED <<tables, boot>>
  <2>1. Unfit(k)
    <3>1. \A i \in 1..Len(permissions) : ~Fits(k.route, permissions[i].route)
      BY <1>1, <1>3, UnfitByPattern DEF IInv
    <3>2. boot \in 0..Len(permissions) /\ Len(permissions) \in Nat
      BY TableFacts, ConstantsAssumption DEF IInv
    <3> QED
      BY <3>1, <3>2 DEF Unfit
  <2>2. cache' \in [Keys -> Actions \cup {NoAction, Absent}]
    BY <1>3 DEF IInv, TypeOK
  <2>3. CacheHolds(cache')
    <3>1. \A l \in Keys : cache'[l] = IF l = k THEN NoAction ELSE cache[l]
      BY <1>3 DEF IInv, TypeOK
    <3> QED
      BY <2>1, <3>1, ConstantsAssumption DEF IInv, CacheHolds
  <2>4. Len(c) \in 3..4 /\ req[s].at + 1 \in 1..(Len(c) + 1)
    BY <1>1, CandidateFacts
  <2>5. \A j \in 1..(req[s].at - 1) : Unfit(c[j])
    BY <1>1 DEF Resolved, At
  <2>6. \A j \in 1..((req[s].at + 1) - 1) : Unfit(c[j])
    <3> TAKE j \in 1..((req[s].at + 1) - 1)
    <3>1. j \in 1..(req[s].at - 1) \/ j = req[s].at
      BY <1>1, <2>4
    <3> QED
      BY <1>1, <2>1, <2>5, <3>1
  <2>7. /\ Resolve(req[s], req[s].at + 1, cache') \in Authorization
        /\ Resolved(Resolve(req[s], req[s].at + 1, cache'))
    BY <1>1, <2>2, <2>3, <2>4, <2>6, ResolveHolds DEF IInv
  <2> QED
    BY <1>3, <2>2, <2>3, <2>7, OneSlot
<1> QED
    BY <1>2, <1>3 DEF FindByPattern

\* A request that is refused holds nothing.
LEMMA RefusedInv ==
    ASSUME IInv, NEW s \in Slots, Becomes(s, Refused), UNCHANGED <<tables, cache, boot>>
    PROVE  IInv'
<1>1. Refused \notin Authorization
    BY DEF Refused, Authorization
<1> QED
    BY <1>1, OneSlot DEF IInv, TypeOK

LEMMA IsAuthorizedInv ==
    ASSUME IInv, NEW s \in Slots, IsAuthorized(s)
    PROVE  IInv'
<1> DEFINE r == [req[s] EXCEPT !.pc = "accepted"]
<1>1. At(s, "check") /\ req[s] \in Authorization /\ UNCHANGED <<tables, cache, boot>>
    BY DEF IsAuthorized, IInv, TypeOK, At, Idle, Refused, Creation
<1>2. /\ r \in Authorization /\ r.pc = "accepted" /\ r.endpoint = req[s].endpoint
      /\ r.action = req[s].action
    BY <1>1 DEF Authorization
<1>3. Resolved(r)
    BY <1>1, <1>2 DEF IInv, Resolved, At
<1>4. CASE Becomes(s, r)
    BY <1>1, <1>2, <1>3, <1>4, OneSlot DEF IInv, TypeOK
<1>5. CASE Becomes(s, Refused)
    BY <1>1, <1>5, RefusedInv
<1> QED
    BY <1>4, <1>5 DEF IsAuthorized

LEMMA CreatePermissionInv ==
    ASSUME IInv, NEW s \in Slots, NEW new \in Wish, CreatePermission(s, new)
    PROVE  IInv'
<1> DEFINE r == [pc |-> "save", new |-> new]
<1>1. UNCHANGED <<tables, cache, boot>>
    BY DEF CreatePermission
<1>2. CASE new.action # NoAction /\ Becomes(s, r)
  <2>1. new \in Permission
    BY <1>2 DEF Wish, Permission
  <2>2. r \in Creation /\ r \notin Authorization
    BY <2>1 DEF Creation, Authorization
  <2> QED
    BY <1>1, <1>2, <2>2, OneSlot DEF IInv, TypeOK
<1>3. CASE Becomes(s, Refused)
    BY <1>1, <1>3, RefusedInv
<1> QED
    BY <1>2, <1>3 DEF CreatePermission

LEMMA InsertPermissionInv ==
    ASSUME IInv, NEW s \in Slots, InsertPermission(s)
    PROVE  IInv'
<1>1. /\ req[s] \in Creation /\ req[s].new \in Permission /\ req[s] \notin Authorization
      /\ permissions' = Append(permissions, req[s].new)
      /\ Len(permissions) < MaxPermissions
      /\ Becomes(s, [req[s] EXCEPT !.pc = "created"])
      /\ UNCHANGED <<held, cache, boot>>
    BY DEF InsertPermission, IInv, TypeOK, At, Idle, Refused, Creation, Authorization
<1>2. /\ permissions \in Seq(Permission) /\ Len(permissions) \in 0..MaxPermissions
      /\ boot \in 0..Len(permissions)
    BY TableFacts DEF IInv
<1>3. /\ permissions' \in Seq(Permission) /\ Len(permissions') = Len(permissions) + 1
      /\ \A i \in 1..Len(permissions) : permissions'[i] = permissions[i]
    BY <1>1, <1>2, AppendProperties
<1>4. /\ [req[s] EXCEPT !.pc = "created"] \in Creation
      /\ [req[s] EXCEPT !.pc = "created"] \notin Authorization
    BY <1>1 DEF Creation, Authorization
<1>5. \A t \in Slots : req'[t] = IF t = s THEN [req[s] EXCEPT !.pc = "created"] ELSE req[t]
    BY <1>1 DEF IInv, TypeOK, Becomes
<1>6. /\ Len(permissions) \in Nat /\ Len(permissions') \in 0..MaxPermissions
      /\ boot' \in 0..Len(permissions') /\ 1..Len(permissions) \subseteq 1..Len(permissions')
    BY <1>1, <1>2, <1>3, ConstantsAssumption
<1>7. TypeOK'
  <2>1. permissions' \in UNION {[1..n -> Permission] : n \in 0..MaxPermissions}
    BY <1>3, <1>6, TableType
  <2>2. held' \in [Roles -> SUBSET (1..Len(permissions'))]
    BY <1>1, <1>6 DEF IInv, TypeOK
  <2>3. req' \in [Slots -> {Idle, Refused} \cup Authorization \cup Creation]
    BY <1>1, <1>4 DEF IInv, TypeOK, Becomes
  <2> QED
    BY <1>1, <1>6, <2>1, <2>2, <2>3 DEF IInv, TypeOK
<1>8. \A k : Unfit(k)' <=> Unfit(k)
    BY <1>1, <1>2, <1>3, <1>6 DEF Unfit
<1>9. \A k, a :
          (\E i \in 1..Len(permissions) :
              Fits(k.route, permissions[i].route) /\ permissions[i].action = a)
          => \E i \in 1..Len(permissions') :
              Fits(k.route, permissions'[i].route) /\ permissions'[i].action = a
    BY <1>3, <1>6
<1>10. CacheHolds(cache)'
    BY <1>1, <1>8, <1>9 DEF IInv, CacheHolds
<1>11. ASSUME NEW t \in Slots, req'[t] \in Authorization PROVE Resolved(req[t])'
  <2>1. req'[t] = req[t] /\ Resolved(req[t])
    BY <1>4, <1>5, <1>11 DEF IInv
  <2> QED
    <3>1. CASE req[t].pc \in {"exact", "pattern"}
      BY <1>8, <2>1, <3>1 DEF Resolved
    <3>2. CASE req[t].pc \in {"check", "accepted"}
      BY <1>1, <1>3, <1>6, <1>8, <2>1, <3>2 DEF Resolved
    <3>3. CASE req[t].pc \notin {"exact", "pattern", "check", "accepted"}
      BY <2>1, <3>3 DEF Resolved
    <3> QED
      BY <3>1, <3>2, <3>3
<1> QED
    BY <1>7, <1>10, <1>11 DEF IInv

LEMMA RespondInv ==
    ASSUME IInv, NEW s \in Slots, Respond(s)
    PROVE  IInv'
<1>1. Idle \notin Authorization
    BY DEF Idle, Authorization
<1> QED
    BY <1>1, OneSlot DEF Respond, IInv, TypeOK

\* What the roles hold does not matter to the action.
LEMMA ChangeRoleInv ==
    ASSUME IInv, NEW role \in Roles, NEW ids \in SUBSET (1..Len(permissions)),
           ChangeRole(role, ids)
    PROVE  IInv'
<1>1. UNCHANGED <<permissions, cache, boot, req>>
    BY DEF ChangeRole
<1>2. TypeOK'
    BY <1>1 DEF IInv, TypeOK, ChangeRole
<1> QED
    BY <1>1, <1>2 DEF IInv, CacheHolds, Resolved, Unfit

LEMMA RestartInv == IInv /\ Restart => IInv'
<1> SUFFICES ASSUME IInv, Restart PROVE IInv'
    OBVIOUS
<1>1. \A s \in Slots : req'[s] = Idle /\ Idle \notin Authorization
    BY DEF Restart, Idle, Authorization
<1>2. TypeOK'
    BY TableFacts, ConstantsAssumption DEF IInv, TypeOK, Restart, tables
<1>3. CacheHolds(cache)'
    BY ConstantsAssumption DEF Restart, CacheHolds
<1> QED
    BY <1>1, <1>2, <1>3 DEF IInv

LEMMA InvInit == Init => IInv
<1> SUFFICES ASSUME Init PROVE IInv
    OBVIOUS
<1>1. permissions \in Seq(Permission) /\ Len(permissions) \in 0..1
  <2>1. CASE permissions = <<>>
    BY <2>1
  <2>2. ASSUME NEW p \in Permission, permissions = <<p>>
        PROVE  permissions \in Seq(Permission) /\ Len(permissions) \in 0..1
    BY <2>2, ShortSequences
  <2> QED
    BY <2>1, <2>2 DEF Init
<1>2. TypeOK
    BY <1>1, TableType, ConstantsAssumption DEF Init, TypeOK
<1>3. \A s \in Slots : req[s] = Idle /\ Idle \notin Authorization
    BY DEF Init, Idle, Authorization
<1>4. CacheHolds(cache)
    BY ConstantsAssumption DEF Init, CacheHolds
<1> QED
    BY <1>2, <1>3, <1>4 DEF IInv

LEMMA InvStep == IInv /\ [Next]_vars => IInv'
<1> SUFFICES ASSUME IInv, [Next]_vars PROVE IInv'
    OBVIOUS
<1>1. ASSUME NEW s \in Slots, Request(s) PROVE IInv'
    BY <1>1, AuthorizeInv, CreatePermissionInv DEF Request
<1>2. ASSUME NEW s \in Slots, Step(s) PROVE IInv'
    BY <1>2, FindExactInv, FindByPatternInv, IsAuthorizedInv, InsertPermissionInv, RefusedInv,
       RespondInv
    DEF Step, QueryFails
<1>3. CASE UNCHANGED vars
    BY <1>3 DEF vars, tables, IInv, TypeOK, CacheHolds, Resolved, Unfit
<1> QED
    BY <1>1, <1>2, <1>3, ChangeRoleInv, RestartInv DEF Next

-----------------------------------------------------------------------------
\* The inductive invariant holds in every reachable state.
THEOREM InvariantHolds == Spec => []IInv
BY InvInit, InvStep, PTL DEF Spec

\* Every variable keeps its type: the cache keeps actions, never routes.
THEOREM TypeCorrect == Spec => []TypeOK
BY InvariantHolds, PTL DEF IInv

\* Whatever the cache holds and whoever creates permissions meanwhile, a request is
\* judged by the action of a row that it fits, or by convention if there was none.
THEOREM JudgedByRows == Spec => []ActionsComeFromRows
<1>1. ASSUME IInv PROVE ActionsComeFromRows
  <2> SUFFICES ASSUME NEW s \in Slots, req[s].pc \in {"check", "accepted"}
               PROVE  LET c == Candidates(req[s].endpoint)
                          matching == {i \in 1..Len(permissions) :
                              \E j \in 1..Len(c) : Fits(c[j].route, permissions[i].route)}
                      IN  \/ \E i \in matching : permissions[i].action = req[s].action
                          \/ /\ req[s].action = Convention(req[s].endpoint)
                             /\ matching \cap 1..boot = {}
    BY DEF ActionsComeFromRows
  <2>1. req[s] \in Authorization
    BY <1>1 DEF IInv, TypeOK, Idle, Refused, Creation
  <2>2. Resolved(req[s])
    BY <1>1, <2>1 DEF IInv
  <2> QED
    BY <2>2 DEF Resolved, Unfit
<1>2. IInv => ActionsComeFromRows
    BY <1>1
<1> QED
    BY <1>2, InvariantHolds, PTL
=============================================================================
