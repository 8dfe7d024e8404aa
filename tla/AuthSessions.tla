---------------------------- MODULE AuthSessions ----------------------------
(***************************************************************************)
(* Sessions of the API: how AuthService issues, validates, refreshes and   *)
(* revokes JSON web tokens (services/auth.service.ts), while the accounts  *)
(* of module Accounts change under it.                                     *)
(*                                                                         *)
(* Several requests are in flight at once in one Node process (and in      *)
(* several replicas of it, which share only the database).  A request      *)
(* gives up control at every await, so each database read or write is one  *)
(* action and anything may happen between two of them.                     *)
(*                                                                         *)
(* A token is what its signature covers: the payload and the second it was *)
(* signed in.  Two tokens with equal contents are the same string, which   *)
(* is how TokenBlacklist compares them.                                    *)
(***************************************************************************)
EXTENDS Naturals, FiniteSets, Accounts

CONSTANTS
    Slots,        \* requests that may be in flight together
    AccessTTL,    \* jwtConfig.accessTokenExpiry
    RefreshTTL,   \* jwtConfig.refreshTokenExpiry
    MaxTime,      \* bound: the clock stops here
    PidFitsColumn,\* does token_blacklist.user_id take the pid, a UUID string?
    DbMayFail,    \* may a query fail (connection lost, timeout)?
    NoToken,      \* a request that presents no token
    NoUser        \* a request about no user yet

Time == 0..MaxTime

Token == [kind : {"access", "refresh"}, sub : Users,
          roles : SUBSET RoleNames, iat : Time]

ASSUME ConstantsAssumption ==
    /\ IsFiniteSet(RoleNames)
    /\ AccessTTL \in Nat \ {0}
    /\ RefreshTTL \in Nat \ {0}
    /\ MaxTime \in Nat
    /\ PidFitsColumn \in BOOLEAN
    /\ DbMayFail \in BOOLEAN
    /\ NoToken \notin Token
    /\ NoUser \notin Users

VARIABLES
    \* the database and the world
    now,        \* the clock, in the seconds iat and exp count
    blacklist,  \* token_blacklist, by its unique token column
    issued,     \* tokens some client holds
    \* the requests in flight
    pc,         \* the await a request is at, or the answer it has ready
    want,       \* the type argument of validateToken
    who,        \* the user the request is about
    tok,        \* the token presented
    snap,       \* the roles of the user entity loaded by login
    extra,      \* logout: refreshToken of the body; else the pair answered
    \* history, read by properties only
    began,      \* the clock when the request arrived
    revoked,    \* was the token on the blacklist when the request arrived?
    seen        \* every Account its user has had since the request arrived

dbVars == <<now, account, blacklist, issued>>
reqVars == <<pc, want, who, tok, snap, extra>>
history == <<began, revoked, seen>>
vars == <<dbVars, reqVars, history>>

Waiting == {"compare", "lookup", "verify", "loadUser", "saveAccess", "saveRefresh"}
Answers == {"accepted", "answered", "loggedOut", "rejected", "failed"}

TypeOK ==
    /\ now \in Time
    /\ account \in [Users -> Account]
    /\ blacklist \subseteq Token
    /\ issued \subseteq Token
    /\ pc \in [Slots -> {"idle"} \cup Waiting \cup Answers]
    /\ want \in [Slots -> {"access", "refresh", "none"}]
    /\ who \in [Slots -> Users \cup {NoUser}]
    /\ tok \in [Slots -> Token \cup {NoToken}]
    /\ snap \in [Slots -> SUBSET RoleNames]
    /\ extra \in [Slots -> SUBSET Token]
    /\ began \in [Slots -> Time]
    /\ revoked \in [Slots -> BOOLEAN]
    /\ seen \in [Slots -> SUBSET Account]

-----------------------------------------------------------------------------
(* Tokens                                                                  *)

\* Mutant of AccessToken: the roles claim is forgotten.
AccessTokenNoRoles(u, names, t) == [kind |-> "access", sub |-> u, iat |-> t]

AccessToken(u, names, t) ==
    [kind |-> "access", sub |-> u, roles |-> names, iat |-> t]

RefreshToken(u, t) ==
    [kind |-> "refresh", sub |-> u, roles |-> {}, iat |-> t]

TokenPair(u, names, t) == {AccessToken(u, names, t), RefreshToken(u, t)}

Expiry(t) == t.iat + (IF t.kind = "access" THEN AccessTTL ELSE RefreshTTL)

\* Mutant of SameRoles: the comparison of the lengths is dropped.
SameRolesNoLength(names1, names2) == \A name \in names1 : name \in names2

\* areArraysEqual on the names of the user's roles and of the token's: same
\* length, and every name of the first is in the second.
SameRoles(names1, names2) ==
    /\ Cardinality(names1) = Cardinality(names2)
    /\ \A name \in names1 : name \in names2

-----------------------------------------------------------------------------
Init ==
    /\ now = 0
    /\ AccountsInit
    /\ blacklist = {}
    /\ issued = {}
    /\ pc = [s \in Slots |-> "idle"]
    /\ want = [s \in Slots |-> "none"]
    /\ who = [s \in Slots |-> NoUser]
    /\ tok = [s \in Slots |-> NoToken]
    /\ snap = [s \in Slots |-> {}]
    /\ extra = [s \in Slots |-> {}]
    /\ began = [s \in Slots |-> 0]
    /\ revoked = [s \in Slots |-> FALSE]
    /\ seen = [s \in Slots |-> {}]

\* A request that is idle arrives at the await `at`, about user u.
Arrive(s, at, type, u, t, others) ==
    /\ pc[s] = "idle"
    /\ pc' = [pc EXCEPT ![s] = at]
    /\ want' = [want EXCEPT ![s] = type]
    /\ who' = [who EXCEPT ![s] = u]
    /\ tok' = [tok EXCEPT ![s] = t]
    /\ extra' = [extra EXCEPT ![s] = others]
    /\ began' = [began EXCEPT ![s] = now]
    /\ revoked' = [revoked EXCEPT ![s] = t \in blacklist]
    /\ seen' = [seen EXCEPT ![s] = {account[u]}]

\* A request resumes and goes to its next await, or has its answer.
Goto(s, at) ==
    /\ pc' = [pc EXCEPT ![s] = at]
    /\ UNCHANGED <<want, who, tok, snap, began, revoked, seen>>

-----------------------------------------------------------------------------
(* login: validateUser reads the row, then awaits bcrypt.compare           *)

Login(s, u) ==
    /\ Arrive(s, IF account[u].active THEN "compare" ELSE "rejected",
              "none", u, NoToken, {})
    /\ snap' = [snap EXCEPT ![s] = account[u].roles]
    /\ UNCHANGED dbVars

PasswordWrong(s) ==
    /\ pc[s] = "compare"
    /\ Goto(s, "rejected")
    /\ UNCHANGED <<dbVars, extra>>

\* The claims are those of the entity loaded before bcrypt ran.
PasswordRight(s) ==
    /\ pc[s] = "compare"
    /\ LET pair == TokenPair(who[s], snap[s], now) IN
        /\ extra' = [extra EXCEPT ![s] = pair]
        /\ issued' = issued \cup pair
    /\ Goto(s, "answered")
    /\ UNCHANGED <<now, account, blacklist>>

-----------------------------------------------------------------------------
(* validateToken, called by authenticate (access) and by refresh           *)

Present(s, t, type) ==
    /\ t \in issued
    /\ Arrive(s, "lookup", type, t.sub, t, {})
    /\ UNCHANGED <<dbVars, snap>>

\* Mutant of IsTokenBlacklisted: the lookup's result is not awaited.
IsTokenBlacklistedNoAwait(s) ==
    /\ pc[s] = "lookup"
    /\ Goto(s, "verify")
    /\ UNCHANGED <<dbVars, extra>>

IsTokenBlacklisted(s) ==
    /\ pc[s] = "lookup"
    /\ Goto(s, IF tok[s] \in blacklist THEN "rejected" ELSE "verify")
    /\ UNCHANGED <<dbVars, extra>>

\* jwt.verify throws from the second exp on; then the type is compared.
JwtVerify(s) ==
    /\ pc[s] = "verify"
    /\ Goto(s, IF now < Expiry(tok[s]) /\ tok[s].kind = want[s]
               THEN "loadUser" ELSE "rejected")
    /\ UNCHANGED <<dbVars, extra>>

CheckUser(s) ==
    /\ pc[s] = "loadUser"
    /\ want[s] = "access"
    /\ LET user == account[tok[s].sub] IN
        Goto(s, IF user.active /\ SameRoles(user.roles, tok[s].roles)
                THEN "accepted" ELSE "rejected")
    /\ UNCHANGED <<dbVars, extra>>

\* refreshAccessToken loads the user itself and signs without another await.
RefreshPair(s) ==
    /\ pc[s] = "loadUser"
    /\ want[s] = "refresh"
    /\ LET user == account[tok[s].sub]
           pair == IF user.active THEN TokenPair(tok[s].sub, user.roles, now) ELSE {}
       IN
        /\ Goto(s, IF user.active THEN "answered" ELSE "rejected")
        /\ extra' = [extra EXCEPT ![s] = pair]
        /\ issued' = issued \cup pair
    /\ UNCHANGED <<now, account, blacklist>>

-----------------------------------------------------------------------------
(* logout: two inserts, one after the other, into a table whose token      *)
(* column is unique.  The tokens are decoded, never verified.              *)

\* Whatever the kinds and the subjects of the two: t is the string that the header gives
\* as the access token, others the refresh token of the body, unless there is none or
\* it cannot be decoded.  (A row for a string that nobody issued is found by no lookup.)
Logout(s, t, others) ==
    /\ t \in issued
    /\ others \subseteq issued /\ Cardinality(others) <= 1
    /\ Arrive(s, "saveAccess", "none", t.sub, t, others)
    /\ UNCHANGED <<dbVars, snap>>

\* What claims to be the access token of u has no payload with exp and sub.
LogoutUndecodable(s, u) ==
    /\ Arrive(s, "rejected", "none", u, NoToken, {})
    /\ UNCHANGED <<dbVars, snap>>

\* Mutant of CanInsert: there is no unique index.
CanInsertTwice(rows) == PidFitsColumn

\* INSERT INTO token_blacklist: all the rows are new, or the insert throws.
CanInsert(rows) == PidFitsColumn /\ rows \cap blacklist = {}

\* Mutant of SaveAccess: the answer does not wait for the second insert.
SaveAccessAndAnswer(s) ==
    /\ pc[s] = "saveAccess"
    /\ IF CanInsert({tok[s]})
       THEN /\ blacklist' = blacklist \cup {tok[s]}
            /\ Goto(s, "loggedOut")
       ELSE /\ Goto(s, "failed")
            /\ UNCHANGED blacklist
    /\ UNCHANGED <<now, account, issued, extra>>

SaveAccess(s) ==
    /\ pc[s] = "saveAccess"
    /\ IF CanInsert({tok[s]})
       THEN /\ blacklist' = blacklist \cup {tok[s]}
            /\ Goto(s, IF extra[s] = {} THEN "loggedOut" ELSE "saveRefresh")
       ELSE /\ Goto(s, "failed")
            /\ UNCHANGED blacklist
    /\ UNCHANGED <<now, account, issued, extra>>

SaveRefresh(s) ==
    /\ pc[s] = "saveRefresh"
    /\ IF CanInsert(extra[s])
       THEN /\ blacklist' = blacklist \cup extra[s]
            /\ Goto(s, "loggedOut")
       ELSE /\ Goto(s, "failed")
            /\ UNCHANGED blacklist
    /\ UNCHANGED <<now, account, issued, extra>>

-----------------------------------------------------------------------------
\* A query rejects: the handler's catch or the error middleware answers.
QueryFails(s) ==
    /\ DbMayFail
    /\ pc[s] \in {"lookup", "loadUser", "saveAccess", "saveRefresh"}
    /\ Goto(s, "failed")
    /\ UNCHANGED <<dbVars, extra>>

Clear(slots) ==
    /\ pc' = [s \in Slots |-> IF s \in slots THEN "idle" ELSE pc[s]]
    /\ want' = [s \in Slots |-> IF s \in slots THEN "none" ELSE want[s]]
    /\ who' = [s \in Slots |-> IF s \in slots THEN NoUser ELSE who[s]]
    /\ tok' = [s \in Slots |-> IF s \in slots THEN NoToken ELSE tok[s]]
    /\ snap' = [s \in Slots |-> IF s \in slots THEN {} ELSE snap[s]]
    /\ extra' = [s \in Slots |-> IF s \in slots THEN {} ELSE extra[s]]
    /\ began' = [s \in Slots |-> IF s \in slots THEN 0 ELSE began[s]]
    /\ revoked' = [s \in Slots |-> IF s \in slots THEN FALSE ELSE revoked[s]]
    /\ seen' = [s \in Slots |-> IF s \in slots THEN {} ELSE seen[s]]
    /\ UNCHANGED dbVars

\* The answer is sent (for "accepted", next() runs the route's handler).
Respond(s) ==
    /\ pc[s] \in Answers
    /\ Clear({s})

\* The process stops: what was in memory is gone, the tables stay.
Crash ==
    /\ \E s \in Slots : pc[s] # "idle"
    /\ Clear(Slots)

-----------------------------------------------------------------------------
(* The other services commit changes of accounts.                          *)

Commit(u, row) ==
    /\ ChangeAccount(u, row)
    /\ seen' = [s \in Slots |-> IF who[s] = u THEN seen[s] \cup {row} ELSE seen[s]]
    /\ UNCHANGED <<now, blacklist, issued, reqVars, began, revoked>>

Tick ==
    /\ now < MaxTime
    /\ now' = now + 1
    /\ UNCHANGED <<account, blacklist, issued, reqVars, history>>

-----------------------------------------------------------------------------
\* What the process itself does next for request s.
Step(s) ==
    \/ PasswordWrong(s) \/ PasswordRight(s)
    \/ IsTokenBlacklisted(s) \/ JwtVerify(s) \/ CheckUser(s) \/ RefreshPair(s)
    \/ SaveAccess(s) \/ SaveRefresh(s) \/ QueryFails(s)
    \/ Respond(s)

\* What clients ask for.
Request(s) ==
    \/ \E u \in Users : Login(s, u)
    \/ \E t \in issued, type \in {"access", "refresh"} : Present(s, t, type)
    \/ \E t \in issued : \E others \in SUBSET issued : Logout(s, t, others)
    \/ \E u \in Users : LogoutUndecodable(s, u)

Environment ==
    \/ \E u \in Users : \E row \in Changes(account[u]) : Commit(u, row)
    \/ Tick
    \/ Crash

Next == (\E s \in Slots : Step(s) \/ Request(s)) \/ Environment

Spec == Init /\ [][Next]_vars
-----------------------------------------------------------------------------
(* Properties                                                              *)

\* A request that got through validateToken presented a token that was not
\* on the blacklist and had not expired when the request arrived, and that is
\* of the type asked for: a refresh token is never taken for an access token.
OnlyLiveTokens ==
    \A s \in Slots :
        pc[s] \in {"accepted", "answered"} /\ tok[s] # NoToken =>
            /\ ~revoked[s]
            /\ tok[s].kind = want[s]
            /\ began[s] < Expiry(tok[s])

\* validateToken and the two ways to get a token pair act on a user who, at
\* some moment of the request, was active and had exactly the roles claimed:
\* the awaits in between let no mixture of two versions of the rows through.
ClaimsWereTrue ==
    \A s \in Slots :
        /\ pc[s] = "accepted" =>
               [active |-> TRUE, roles |-> tok[s].roles] \in seen[s]
        /\ pc[s] = "answered" =>
               \A t \in extra[s] :
                   /\ t.sub = who[s]
                   /\ t.kind = "access" =>
                          [active |-> TRUE, roles |-> t.roles] \in seen[s]

\* A logout that reports success has put every token it was given on the
\* blacklist, whatever other logouts of the same tokens ran meanwhile.
LogoutRevokes ==
    \A s \in Slots : pc[s] = "loggedOut" => {tok[s]} \cup extra[s] \subseteq blacklist

\* Two logouts of one access token never both get past its insert: the unique
\* index lets one of them through, and the other one reports an error.
OneLogoutPerToken ==
    \A s1, s2 \in Slots :
        /\ pc[s1] \in {"saveRefresh", "loggedOut"}
        /\ pc[s2] \in {"saveRefresh", "loggedOut"}
        /\ tok[s1] = tok[s2]
        => s1 = s2

\* "Logout user by blacklisting tokens" (IAuthService): logout never answers with
\* an error for a token that is not revoked yet, as long as no query fails.
LogoutOfLiveTokenWorks ==
    [][\A s \in Slots :
          pc[s] = "saveAccess" /\ pc'[s] = "failed" => tok[s] \in blacklist]_vars
=============================================================================
