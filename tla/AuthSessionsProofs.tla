------------------------- MODULE AuthSessionsProofs -------------------------
(***************************************************************************)
(* Proofs about AuthSessions, for any users, roles, requests in flight,    *)
(* lifetimes and clock.                                                    *)
(***************************************************************************)
EXTENDS AuthSessions, FiniteSetTheorems, TLAPS

\* areArraysEqual, on the names of two sets of roles, is equality: comparing the
\* lengths and one inclusion is enough.
LEMMA SameRolesMeansEqual ==
    ASSUME NEW names1 \in SUBSET RoleNames, NEW names2 \in SUBSET RoleNames,
           SameRoles(names1, names2)
    PROVE  names1 = names2
<1>1. IsFiniteSet(names2)
    BY ConstantsAssumption, FS_Subset
<1>2. names1 \subseteq names2
    BY DEF SameRoles
<1>3. Cardinality(names1) = Cardinality(names2)
    BY DEF SameRoles
<1> QED
    BY <1>1, <1>2, <1>3, FS_Subset

\* Every token has an expiry, a number of seconds.
LEMMA ExpiryIsNat == ASSUME NEW t \in Token PROVE Expiry(t) \in Nat
    BY ConstantsAssumption DEF Expiry, Token, Time

\* The pair signed for a user consists of tokens of that user, and the access
\* token carries the names it was signed with.
LEMMA PairIsTokens ==
    ASSUME NEW u \in Users, NEW names \in SUBSET RoleNames, NEW t \in Time
    PROVE  /\ TokenPair(u, names, t) \subseteq Token
           /\ \A p \in TokenPair(u, names, t) :
                  p.sub = u /\ (p.kind = "access" => p.roles = names)
    BY DEF TokenPair, AccessToken, RefreshToken, Token

-----------------------------------------------------------------------------
(* The inductive invariant.  It says of each request what the awaits it has *)
(* passed have established, in terms of the history that the properties    *)
(* speak of.                                                               *)

\* The request passed validateToken's checks of the token itself.
TokenPassed(s) ==
    /\ ~revoked[s]
    /\ tok[s].kind = want[s]
    /\ began[s] < Expiry(tok[s])

\* The user was active and had these roles at some moment of the request.
WasTrue(s, names) == [active |-> TRUE, roles |-> names] \in seen[s]

RequestInv(s) ==
    /\ who[s] \in Users
    /\ account[who[s]] \in seen[s]
    /\ began[s] <= now
    /\ tok[s] # NoToken =>
           /\ tok[s].sub = who[s]
           /\ revoked[s] => tok[s] \in blacklist
    /\ pc[s] \in {"lookup", "verify", "loadUser", "accepted",
                  "saveAccess", "saveRefresh", "loggedOut"} => tok[s] # NoToken
    /\ pc[s] = "compare" => tok[s] = NoToken /\ WasTrue(s, snap[s])
    /\ pc[s] = "verify" => ~revoked[s]
    /\ pc[s] \in {"loadUser", "accepted"} => TokenPassed(s)
    /\ pc[s] = "accepted" => WasTrue(s, tok[s].roles)
    /\ pc[s] = "answered" =>
           /\ tok[s] # NoToken => TokenPassed(s)
           /\ \A t \in extra[s] :
                  t.sub = who[s] /\ (t.kind = "access" => WasTrue(s, t.roles))
    /\ pc[s] \in {"saveRefresh", "loggedOut"} => tok[s] \in blacklist
    /\ pc[s] = "loggedOut" => extra[s] \subseteq blacklist

RequestsInv == \A s \in Slots : pc[s] # "idle" => RequestInv(s)

IInv == TypeOK /\ RequestsInv /\ OneLogoutPerToken

\* No request is in flight at the start.
LEMMA InvInit == Init => IInv
<1> SUFFICES ASSUME Init PROVE IInv
    OBVIOUS
<1>1. account \in [Users -> Account]
    BY DEF Init, AccountsInit, Account
<1>2. TypeOK
    BY <1>1, ConstantsAssumption DEF Init, TypeOK, Time, Waiting, Answers
<1>3. RequestsInv /\ OneLogoutPerToken
    BY DEF Init, RequestsInv, OneLogoutPerToken
<1> QED
    BY <1>2, <1>3 DEF IInv

\* What RequestInv says of a request stays true while the request itself does
\* nothing: the blacklist and the clock only grow.
LEMMA RequestInvStable ==
    ASSUME NEW s \in Slots, TypeOK, RequestInv(s), now' \in Time, now <= now',
           blacklist \subseteq blacklist',
           account'[who[s]] \in seen'[s], seen[s] \subseteq seen'[s],
           pc'[s] = pc[s], want'[s] = want[s], who'[s] = who[s], tok'[s] = tok[s],
           snap'[s] = snap[s], extra'[s] = extra[s],
           began'[s] = began[s], revoked'[s] = revoked[s]
    PROVE  RequestInv(s)'
<1>1. began[s] \in Nat /\ now \in Nat /\ now' \in Nat
    BY ConstantsAssumption DEF TypeOK, Time
<1> QED
    BY <1>1 DEF RequestInv, TokenPassed, WasTrue, Expiry

\* When request s goes on to its next await, only s can disturb RequestsInv.
LEMMA GotoRequestsInv ==
    ASSUME TypeOK, RequestsInv, NEW s \in Slots, NEW at, Goto(s, at),
           now' = now, account' = account, blacklist \subseteq blacklist',
           \A r \in Slots : r # s => extra'[r] = extra[r],
           RequestInv(s)'
    PROVE  RequestsInv'
<1> SUFFICES ASSUME NEW r \in Slots, pc'[r] # "idle", r # s
             PROVE  RequestInv(r)'
    BY DEF RequestsInv
<1>1. /\ pc'[r] = pc[r] /\ want'[r] = want[r] /\ who'[r] = who[r] /\ tok'[r] = tok[r]
      /\ snap'[r] = snap[r] /\ extra'[r] = extra[r]
      /\ began'[r] = began[r] /\ revoked'[r] = revoked[r] /\ seen'[r] = seen[r]
    BY DEF Goto, TypeOK
<1>2. RequestInv(r)
    BY <1>1 DEF RequestsInv
<1>3. account'[who[r]] \in seen'[r]
    BY <1>1, <1>2 DEF RequestInv
<1>4. now' \in Time /\ now <= now'
    BY ConstantsAssumption DEF TypeOK, Time
<1> QED
    BY <1>1, <1>2, <1>3, <1>4, RequestInvStable

\* No request enters the second half of a logout, so no two meet there.
LEMMA GotoOneLogout ==
    ASSUME TypeOK, OneLogoutPerToken, NEW s \in Slots, NEW at, Goto(s, at),
           at \notin {"saveRefresh", "loggedOut"} \/ pc[s] \in {"saveRefresh", "loggedOut"}
    PROVE  OneLogoutPerToken'
    BY DEF Goto, TypeOK, OneLogoutPerToken

\* A request that gives up, with an error, changes nothing else.
LEMMA FailInv ==
    ASSUME IInv, NEW s \in Slots, pc[s] # "idle", Goto(s, "failed"),
           UNCHANGED <<dbVars, extra>>
    PROVE  IInv'
<1> USE DEF IInv
<1>1. TypeOK'
    BY DEF Goto, dbVars, TypeOK, Answers
<1>2. RequestInv(s)'
    BY DEF Goto, dbVars, TypeOK, RequestsInv, RequestInv, WasTrue
<1>3. RequestsInv'
    BY <1>2, GotoRequestsInv DEF dbVars
<1>4. OneLogoutPerToken'
    BY GotoOneLogout
<1> QED
    BY <1>1, <1>3, <1>4

\* Requests that end leave nothing behind, and the others are as they were.
LEMMA ClearInv ==
    ASSUME IInv, NEW slots, Clear(slots)
    PROVE  IInv'
<1> USE DEF IInv
<1>1. TypeOK'
    <2>1. began' \in [Slots -> Time]
        BY ConstantsAssumption DEF Clear, TypeOK, Time
    <2> QED
        BY <2>1 DEF Clear, dbVars, TypeOK
<1>2. ASSUME NEW r \in Slots, pc'[r] # "idle"
      PROVE  /\ pc'[r] = pc[r] /\ want'[r] = want[r] /\ who'[r] = who[r] /\ tok'[r] = tok[r]
             /\ snap'[r] = snap[r] /\ extra'[r] = extra[r]
             /\ began'[r] = began[r] /\ revoked'[r] = revoked[r] /\ seen'[r] = seen[r]
    BY <1>2 DEF Clear
<1>3. now' = now /\ account' = account /\ blacklist' = blacklist
    BY DEF Clear, dbVars
<1>4. RequestsInv'
    <2> SUFFICES ASSUME NEW r \in Slots, pc'[r] # "idle"
                 PROVE  RequestInv(r)'
        BY DEF RequestsInv
    <2>1. RequestInv(r)
        BY <1>2 DEF RequestsInv
    <2>2. account'[who[r]] \in seen'[r] /\ seen[r] \subseteq seen'[r]
        BY <1>2, <1>3, <2>1 DEF RequestInv
    <2>3. now' \in Time /\ now <= now'
        BY <1>3, ConstantsAssumption DEF TypeOK, Time
    <2> QED
        BY <1>2, <1>3, <2>1, <2>2, <2>3, RequestInvStable
<1>5. OneLogoutPerToken'
    <2> SUFFICES ASSUME NEW s1 \in Slots, NEW s2 \in Slots,
                        pc'[s1] \in {"saveRefresh", "loggedOut"},
                        pc'[s2] \in {"saveRefresh", "loggedOut"},
                        tok'[s1] = tok'[s2]
                 PROVE  s1 = s2
        BY DEF OneLogoutPerToken
    <2> QED
        BY <1>2 DEF OneLogoutPerToken
<1> QED
    BY <1>1, <1>4, <1>5

\* An arriving request has read nothing yet, but for the entity login loaded.
LEMMA ArriveInv ==
    ASSUME IInv, NEW s \in Slots, NEW u \in Users,
           NEW at \in {"compare", "rejected", "lookup", "saveAccess"},
           NEW type \in {"access", "refresh", "none"},
           NEW t \in Token \cup {NoToken}, NEW others \in SUBSET Token,
           NEW names \in SUBSET RoleNames,
           Arrive(s, at, type, u, t, others),
           snap' = [snap EXCEPT ![s] = names], UNCHANGED dbVars,
           t # NoToken => t.sub = u,
           at \in {"lookup", "saveAccess"} => t # NoToken,
           at = "compare" =>
               t = NoToken /\ account[u] = [active |-> TRUE, roles |-> names]
    PROVE  IInv'
<1> USE DEF IInv
<1>1. TypeOK'
    BY DEF Arrive, dbVars, TypeOK, Waiting, Answers
<1>2. RequestInv(s)'
    <2>1. /\ pc'[s] = at /\ who'[s] = u /\ tok'[s] = t /\ snap'[s] = names
          /\ began'[s] = now /\ revoked'[s] = (t \in blacklist) /\ seen'[s] = {account[u]}
          /\ now' = now /\ account' = account /\ blacklist' = blacklist
        BY DEF Arrive, dbVars, TypeOK
    <2>2. began'[s] <= now'
        BY <2>1, ConstantsAssumption DEF TypeOK, Time
    <2> QED
        BY <2>1, <2>2 DEF RequestInv, WasTrue
<1>3. ASSUME NEW r \in Slots, r # s
      PROVE  /\ pc'[r] = pc[r] /\ want'[r] = want[r] /\ who'[r] = who[r] /\ tok'[r] = tok[r]
             /\ snap'[r] = snap[r] /\ extra'[r] = extra[r]
             /\ began'[r] = began[r] /\ revoked'[r] = revoked[r] /\ seen'[r] = seen[r]
    BY <1>3 DEF Arrive, TypeOK
<1>4. RequestsInv'
    <2> SUFFICES ASSUME NEW r \in Slots, pc'[r] # "idle", r # s
                 PROVE  RequestInv(r)'
        BY <1>2 DEF RequestsInv
    <2>1. RequestInv(r)
        BY <1>3 DEF RequestsInv
    <2>2. /\ account'[who[r]] \in seen'[r] /\ seen[r] \subseteq seen'[r]
          /\ blacklist \subseteq blacklist'
        BY <1>3, <2>1 DEF RequestInv, dbVars
    <2>3. now' \in Time /\ now <= now'
        BY ConstantsAssumption DEF TypeOK, Time, dbVars
    <2> QED
        BY <1>3, <2>1, <2>2, <2>3, RequestInvStable
<1>5. OneLogoutPerToken'
    <2>1. pc'[s] \notin {"saveRefresh", "loggedOut"}
        BY DEF Arrive, TypeOK
    <2> QED
        BY <1>3, <2>1 DEF OneLogoutPerToken
<1> QED
    BY <1>1, <1>4, <1>5

\* A change of a user's rows is recorded by the requests about that user.
LEMMA CommitInv ==
    ASSUME IInv, NEW u \in Users, NEW row \in Account, Commit(u, row)
    PROVE  IInv'
<1> USE DEF IInv
<1>1. TypeOK'
    BY DEF Commit, ChangeAccount, reqVars, TypeOK
<1>2. RequestsInv'
    <2> SUFFICES ASSUME NEW r \in Slots, pc'[r] # "idle"
                 PROVE  RequestInv(r)'
        BY DEF RequestsInv
    <2>1. RequestInv(r)
        BY DEF RequestsInv, Commit, reqVars
    <2>2. account'[who[r]] \in seen'[r] /\ seen[r] \subseteq seen'[r]
        BY <2>1 DEF Commit, ChangeAccount, RequestInv, TypeOK
    <2>3. now' \in Time /\ now <= now' /\ blacklist \subseteq blacklist'
        BY ConstantsAssumption DEF Commit, ChangeAccount, TypeOK, Time
    <2> QED
        BY <2>1, <2>2, <2>3, RequestInvStable DEF Commit, ChangeAccount, reqVars
<1>3. OneLogoutPerToken'
    BY DEF Commit, ChangeAccount, reqVars, OneLogoutPerToken
<1> QED
    BY <1>1, <1>2, <1>3

-----------------------------------------------------------------------------
\* The steps of the process itself.
LEMMA StepInv ==
    ASSUME IInv, NEW s \in Slots, Step(s)
    PROVE  IInv'
<1> USE DEF IInv
<1>0. now \in Nat /\ began[s] \in Nat /\ MaxTime \in Nat
    BY ConstantsAssumption DEF TypeOK, Time
<1>a. pc[s] # "idle" => RequestInv(s)
    BY DEF RequestsInv
<1>1. CASE PasswordWrong(s)
    <2>1. TypeOK'
        BY <1>1 DEF PasswordWrong, Goto, dbVars, TypeOK, Answers
    <2>2. RequestInv(s)'
        BY <1>a, <1>1 DEF PasswordWrong, Goto, dbVars, TypeOK, RequestInv, WasTrue
    <2>3. RequestsInv'
        BY <1>1, <2>2, GotoRequestsInv DEF PasswordWrong, dbVars
    <2>4. OneLogoutPerToken'
        BY <1>1, GotoOneLogout DEF PasswordWrong
    <2> QED BY <2>1, <2>3, <2>4
<1>2. CASE PasswordRight(s)
    <2>1. who[s] \in Users /\ tok[s] = NoToken /\ WasTrue(s, snap[s])
        BY <1>2 DEF PasswordRight, RequestsInv, RequestInv
    <2>2. now \in Time /\ snap[s] \in SUBSET RoleNames
        BY DEF TypeOK
    <2> DEFINE pair == TokenPair(who[s], snap[s], now)
    <2>3. /\ pair \subseteq Token
          /\ \A t \in pair : t.sub = who[s] /\ (t.kind = "access" => t.roles = snap[s])
        BY <2>1, <2>2, PairIsTokens
    <2>4. /\ extra' = [extra EXCEPT ![s] = pair]
          /\ issued' = issued \cup pair
          /\ Goto(s, "answered")
          /\ UNCHANGED <<now, account, blacklist>>
        BY <1>2 DEF PasswordRight
    <2> HIDE DEF pair
    <2>5. TypeOK'
        BY <2>3, <2>4 DEF Goto, TypeOK, Answers
    <2>6. RequestInv(s)'
        <3>1. /\ pc'[s] = "answered" /\ extra'[s] = pair
              /\ who' = who /\ tok' = tok /\ seen' = seen /\ revoked' = revoked /\ began' = began
            BY <2>4 DEF Goto, TypeOK
        <3>2. \A t \in extra'[s] : t.sub = who[s] /\ (t.kind = "access" => WasTrue(s, t.roles))
            BY <2>1, <2>3, <3>1
        <3>3. RequestInv(s)
            BY <1>2, <1>a DEF PasswordRight
        <3> QED
            BY <2>1, <2>4, <3>1, <3>2, <3>3 DEF RequestInv, WasTrue
    <2>7. RequestsInv'
        BY <2>4, <2>6, GotoRequestsInv DEF TypeOK
    <2>8. OneLogoutPerToken'
        BY <2>4, GotoOneLogout
    <2> QED BY <2>5, <2>7, <2>8
<1>3. CASE IsTokenBlacklisted(s)
    <2>1. TypeOK'
        BY <1>3 DEF IsTokenBlacklisted, Goto, dbVars, TypeOK, Waiting, Answers
    <2>2. RequestInv(s)'
        BY <1>3 DEF IsTokenBlacklisted, Goto, dbVars, TypeOK, RequestsInv, RequestInv,
            TokenPassed, WasTrue
    <2>3. RequestsInv'
        BY <1>3, <2>2, GotoRequestsInv DEF IsTokenBlacklisted, dbVars
    <2>4. OneLogoutPerToken'
        BY <1>3, GotoOneLogout DEF IsTokenBlacklisted
    <2> QED BY <2>1, <2>3, <2>4
<1>4. CASE JwtVerify(s)
    <2>1. TypeOK'
        BY <1>4 DEF JwtVerify, Goto, dbVars, TypeOK, Waiting, Answers
    <2>2. tok[s] \in Token
        BY <1>4 DEF JwtVerify, TypeOK, RequestsInv, RequestInv
    <2>3. Expiry(tok[s]) \in Nat
        BY <2>2, ExpiryIsNat
    <2>4. began[s] <= now
        BY <1>4 DEF JwtVerify, RequestsInv, RequestInv
    <2>5. RequestInv(s)'
        <3>1. CASE now < Expiry(tok[s]) /\ tok[s].kind = want[s]
            <4>1. began[s] < Expiry(tok[s])
                BY <1>0, <2>3, <2>4, <3>1
            <4>2. Expiry(tok[s])' = Expiry(tok[s])
                BY <1>4 DEF JwtVerify, Goto, Expiry
            <4> QED
                BY <1>4, <3>1, <4>1, <4>2 DEF JwtVerify, Goto, dbVars, TypeOK, RequestsInv,
                    RequestInv, TokenPassed, WasTrue
        <3>2. CASE ~(now < Expiry(tok[s]) /\ tok[s].kind = want[s])
            BY <1>4, <3>2 DEF JwtVerify, Goto, dbVars, TypeOK, RequestsInv, RequestInv,
                TokenPassed, WasTrue
        <3> QED BY <3>1, <3>2
    <2>6. RequestsInv'
        BY <1>4, <2>5, GotoRequestsInv DEF JwtVerify, dbVars
    <2>7. OneLogoutPerToken'
        BY <1>4, GotoOneLogout DEF JwtVerify
    <2> QED BY <2>1, <2>6, <2>7
<1>5. CASE CheckUser(s)
    <2>1. TypeOK'
        BY <1>5 DEF CheckUser, Goto, dbVars, TypeOK, Waiting, Answers
    <2>2. /\ tok[s] \in Token /\ tok[s].sub = who[s] /\ who[s] \in Users
          /\ account[who[s]] \in seen[s] /\ account[who[s]] \in Account
          /\ TokenPassed(s)
        BY <1>5 DEF CheckUser, TypeOK, RequestsInv, RequestInv
    <2> DEFINE user == account[tok[s].sub]
               good == user.active /\ SameRoles(user.roles, tok[s].roles)
    <2>3. good => WasTrue(s, tok[s].roles)
        <3> SUFFICES ASSUME good PROVE WasTrue(s, tok[s].roles)
            OBVIOUS
        <3>1. user.roles \in SUBSET RoleNames /\ tok[s].roles \in SUBSET RoleNames
            BY <2>2 DEF Account, Token
        <3>2. user.roles = tok[s].roles
            BY <3>1, SameRolesMeansEqual
        <3>3. user = [active |-> TRUE, roles |-> tok[s].roles]
            BY <2>2, <3>2 DEF Account
        <3> QED
            BY <2>2, <3>3 DEF WasTrue
    <2>4. Goto(s, IF good THEN "accepted" ELSE "rejected") /\ UNCHANGED <<dbVars, extra>>
        BY <1>5 DEF CheckUser
    <2> HIDE DEF good
    <2>5. RequestInv(s)'
        BY <1>5, <2>2, <2>3, <2>4 DEF CheckUser, Goto, dbVars, TypeOK, RequestsInv,
            RequestInv, TokenPassed, WasTrue, Expiry
    <2>6. RequestsInv'
        BY <2>4, <2>5, GotoRequestsInv DEF dbVars
    <2>7. OneLogoutPerToken'
        BY <2>4, GotoOneLogout
    <2> QED BY <2>1, <2>6, <2>7
<1>6. CASE RefreshPair(s)
    <2> DEFINE user == account[tok[s].sub]
               pair == IF user.active THEN TokenPair(tok[s].sub, user.roles, now) ELSE {}
    <2>1. /\ tok[s] # NoToken /\ tok[s].sub = who[s] /\ who[s] \in Users
          /\ user \in seen[s] /\ user \in Account /\ now \in Time
          /\ TokenPassed(s) /\ RequestInv(s)
        BY <1>6 DEF RefreshPair, TypeOK, RequestsInv, RequestInv
    <2>2. /\ pair \subseteq Token
          /\ \A t \in pair : t.sub = who[s] /\ (t.kind = "access" => WasTrue(s, t.roles))
        <3>1. CASE user.active
            <4>1. user = [active |-> TRUE, roles |-> user.roles] /\ user.roles \in SUBSET RoleNames
                BY <2>1, <3>1 DEF Account
            <4>2. WasTrue(s, user.roles)
                BY <2>1, <4>1 DEF WasTrue
            <4>3. pair = TokenPair(tok[s].sub, user.roles, now)
                BY <3>1
            <4> QED
                BY <2>1, <4>1, <4>2, <4>3, PairIsTokens
        <3>2. CASE ~user.active
            BY <3>2
        <3> QED BY <3>1, <3>2
    <2>3. /\ extra' = [extra EXCEPT ![s] = pair]
          /\ issued' = issued \cup pair
          /\ UNCHANGED <<now, account, blacklist>>
        BY <1>6 DEF RefreshPair
    <2>4. PICK at \in {"answered", "rejected"} : Goto(s, at)
        BY <1>6 DEF RefreshPair
    <2> HIDE DEF pair
    <2>5. TypeOK'
        BY <2>2, <2>3, <2>4 DEF Goto, TypeOK, Answers
    <2>6. RequestInv(s)'
        <3>1. /\ pc'[s] = at /\ extra'[s] = pair /\ want' = want
              /\ who' = who /\ tok' = tok /\ seen' = seen /\ revoked' = revoked /\ began' = began
            BY <2>3, <2>4 DEF Goto, TypeOK
        <3> QED
            BY <2>1, <2>2, <2>3, <3>1 DEF RequestInv, TokenPassed, WasTrue, Expiry
    <2>7. RequestsInv'
        BY <2>3, <2>4, <2>6, GotoRequestsInv DEF TypeOK
    <2>8. OneLogoutPerToken'
        BY <2>4, GotoOneLogout
    <2> QED BY <2>5, <2>7, <2>8
<1>7. CASE SaveAccess(s)
    <2>1. tok[s] \in Token /\ RequestInv(s)
        BY <1>7 DEF SaveAccess, TypeOK, RequestsInv, RequestInv
    <2>2. CASE CanInsert({tok[s]})
        <3>1. PICK at \in {"loggedOut", "saveRefresh"} :
                  /\ blacklist' = blacklist \cup {tok[s]}
                  /\ Goto(s, at)
                  /\ at = "loggedOut" => extra[s] = {}
                  /\ UNCHANGED <<now, account, issued, extra>>
            BY <1>7, <2>2 DEF SaveAccess
        <3>2. tok[s] \notin blacklist
            BY <2>2 DEF CanInsert
        <3>3. TypeOK'
            BY <2>1, <3>1 DEF Goto, TypeOK, Waiting, Answers
        <3>4. RequestInv(s)'
            BY <1>7, <2>1, <3>1 DEF SaveAccess, Goto, TypeOK, RequestInv, WasTrue
        <3>5. RequestsInv'
            BY <3>1, <3>4, GotoRequestsInv
        <3>6. OneLogoutPerToken'
            <4>1. \A r \in Slots : r # s /\ pc'[r] \in {"saveRefresh", "loggedOut"} =>
                      pc[r] \in {"saveRefresh", "loggedOut"} /\ tok[r] \in blacklist
                BY <3>1 DEF Goto, TypeOK, RequestsInv, RequestInv
            <4> QED
                BY <3>1, <3>2, <4>1 DEF Goto, TypeOK, OneLogoutPerToken
        <3> QED BY <3>3, <3>5, <3>6
    <2>3. CASE ~CanInsert({tok[s]})
        <3>1. Goto(s, "failed") /\ UNCHANGED <<dbVars, extra>>
            BY <1>7, <2>3 DEF SaveAccess, dbVars
        <3> QED BY <1>7, <3>1, FailInv DEF SaveAccess
    <2> QED BY <2>2, <2>3
<1>8. CASE SaveRefresh(s)
    <2>1. /\ extra[s] \subseteq Token /\ RequestInv(s)
          /\ tok[s] # NoToken /\ tok[s] \in blacklist
        BY <1>8 DEF SaveRefresh, TypeOK, RequestsInv, RequestInv
    <2>2. CASE CanInsert(extra[s])
        <3>1. /\ blacklist' = blacklist \cup extra[s]
              /\ Goto(s, "loggedOut")
              /\ UNCHANGED <<now, account, issued, extra>>
            BY <1>8, <2>2 DEF SaveRefresh
        <3>2. TypeOK'
            BY <2>1, <3>1 DEF Goto, TypeOK, Answers
        <3>3. RequestInv(s)'
            BY <1>8, <2>1, <3>1 DEF SaveRefresh, Goto, TypeOK, RequestInv, WasTrue
        <3>4. RequestsInv'
            BY <3>1, <3>3, GotoRequestsInv
        <3>5. OneLogoutPerToken'
            BY <1>8, <3>1, GotoOneLogout DEF SaveRefresh
        <3> QED BY <3>2, <3>4, <3>5
    <2>3. CASE ~CanInsert(extra[s])
        <3>1. Goto(s, "failed") /\ UNCHANGED <<dbVars, extra>>
            BY <1>8, <2>3 DEF SaveRefresh, dbVars
        <3> QED BY <1>8, <3>1, FailInv DEF SaveRefresh
    <2> QED BY <2>2, <2>3
<1>9. CASE QueryFails(s)
    BY <1>9, FailInv DEF QueryFails
<1>10. CASE Respond(s)
    BY <1>10, ClearInv DEF Respond
<1> QED
    BY <1>1, <1>2, <1>3, <1>4, <1>5, <1>6, <1>7, <1>8, <1>9, <1>10 DEF Step

-----------------------------------------------------------------------------
\* What clients ask for.
LEMMA RequestStepInv ==
    ASSUME IInv, NEW s \in Slots, Request(s)
    PROVE  IInv'
<1> USE DEF IInv
<1>1. snap = [snap EXCEPT ![s] = snap[s]] /\ snap[s] \in SUBSET RoleNames
    BY DEF TypeOK
<1>2. ASSUME NEW u \in Users, Login(s, u) PROVE IInv'
    <2>1. account[u] \in Account
        BY DEF TypeOK
    <2> DEFINE at == IF account[u].active THEN "compare" ELSE "rejected"
    <2>2. at = "compare" => account[u] = [active |-> TRUE, roles |-> account[u].roles]
        BY <2>1 DEF Account
    <2>3. account[u].roles \in SUBSET RoleNames
        BY <2>1 DEF Account
    <2>4. /\ Arrive(s, at, "none", u, NoToken, {})
          /\ snap' = [snap EXCEPT ![s] = account[u].roles]
          /\ UNCHANGED dbVars
        BY <1>2 DEF Login
    <2>5. at \in {"compare", "rejected", "lookup", "saveAccess"}
          /\ at \notin {"lookup", "saveAccess"}
        OBVIOUS
    <2> HIDE DEF at
    <2> QED
        BY <2>2, <2>3, <2>4, <2>5, ArriveInv
<1>3. ASSUME NEW t \in issued, NEW kind \in {"access", "refresh"}, Present(s, t, kind)
      PROVE  IInv'
    <2>1. t \in Token /\ t.sub \in Users /\ t # NoToken
        BY ConstantsAssumption DEF TypeOK, Token
    <2>2. /\ Arrive(s, "lookup", kind, t.sub, t, {})
          /\ snap' = [snap EXCEPT ![s] = snap[s]]
          /\ UNCHANGED dbVars
        BY <1>1, <1>3 DEF Present
    <2>3. CASE kind = "access"
        BY <1>1, <2>1, <2>2, <2>3, ArriveInv
    <2>4. CASE kind = "refresh"
        BY <1>1, <2>1, <2>2, <2>4, ArriveInv
    <2> QED
        BY <2>3, <2>4
<1>4. ASSUME NEW t \in issued, NEW others \in SUBSET issued, Logout(s, t, others)
      PROVE  IInv'
    <2>1. t \in Token /\ t.sub \in Users /\ t # NoToken /\ others \in SUBSET Token
        BY ConstantsAssumption DEF TypeOK, Token
    <2>2. /\ Arrive(s, "saveAccess", "none", t.sub, t, others)
          /\ snap' = [snap EXCEPT ![s] = snap[s]]
          /\ UNCHANGED dbVars
        BY <1>1, <1>4 DEF Logout
    <2> QED
        BY <1>1, <2>1, <2>2, ArriveInv
<1>5. ASSUME NEW u \in Users, LogoutUndecodable(s, u)
      PROVE  IInv'
    <2>1. /\ Arrive(s, "rejected", "none", u, NoToken, {})
          /\ snap' = [snap EXCEPT ![s] = snap[s]]
          /\ UNCHANGED dbVars
        BY <1>1, <1>5 DEF LogoutUndecodable
    <2> QED
        BY <1>1, <2>1, ArriveInv
<1> QED
    BY <1>2, <1>3, <1>4, <1>5 DEF Request

\* The other services, the clock and the end of the process.
LEMMA EnvironmentInv ==
    ASSUME IInv, Environment
    PROVE  IInv'
<1> USE DEF IInv
<1>1. ASSUME NEW u \in Users, NEW row \in Changes(account[u]), Commit(u, row)
      PROVE  IInv'
    <2>1. account[u] \in Account
        BY DEF TypeOK
    <2>2. row \in Account
        BY <2>1 DEF Changes, WithRole, WithoutRole, Saved, Account
    <2> QED
        BY <1>1, <2>2, CommitInv
<1>2. CASE Tick
    <2>1. now' \in Time /\ now <= now'
        BY <1>2, ConstantsAssumption DEF Tick, TypeOK, Time
    <2>2. UNCHANGED <<account, blacklist, issued, reqVars, history>>
        BY <1>2 DEF Tick
    <2>3. TypeOK'
        BY <2>1, <2>2 DEF TypeOK, reqVars, history
    <2>4. RequestsInv'
        <3> SUFFICES ASSUME NEW r \in Slots, pc'[r] # "idle"
                     PROVE  RequestInv(r)'
            BY DEF RequestsInv
        <3>1. RequestInv(r)
            BY <2>2 DEF RequestsInv, reqVars
        <3>2. account'[who[r]] \in seen'[r]
            BY <2>2, <3>1 DEF RequestInv, history
        <3> QED
            BY <2>1, <2>2, <3>1, <3>2, RequestInvStable DEF reqVars, history
    <2>5. OneLogoutPerToken'
        BY <2>2 DEF OneLogoutPerToken, reqVars
    <2> QED BY <2>3, <2>4, <2>5
<1>3. CASE Crash
    BY <1>3, ClearInv DEF Crash
<1> QED
    BY <1>1, <1>2, <1>3 DEF Environment

\* No step of anyone disturbs the invariant.
LEMMA InvNext == IInv /\ [Next]_vars => IInv'
<1> SUFFICES ASSUME IInv, [Next]_vars PROVE IInv'
    OBVIOUS
<1>1. CASE Next
    BY <1>1, StepInv, RequestStepInv, EnvironmentInv DEF Next
<1>2. CASE UNCHANGED vars
    BY <1>2 DEF IInv, TypeOK, RequestsInv, RequestInv, TokenPassed, WasTrue, Expiry,
        OneLogoutPerToken, vars, dbVars, reqVars, history
<1> QED
    BY <1>1, <1>2

\* The inductive invariant holds in every state of every behaviour.
THEOREM InvariantHolds == Spec => []IInv
    BY InvInit, InvNext, PTL DEF Spec

-----------------------------------------------------------------------------
(* What it gives.                                                          *)

\* Every variable keeps its type, whichever requests interleave.
THEOREM TypeCorrect == Spec => []TypeOK
<1>1. IInv => TypeOK
    BY DEF IInv
<1> QED
    BY <1>1, InvariantHolds, PTL

\* validateToken lets only live tokens of the right type through.
THEOREM LiveTokensOnly == Spec => []OnlyLiveTokens
<1>1. IInv => OnlyLiveTokens
    BY DEF IInv, RequestsInv, RequestInv, TokenPassed, OnlyLiveTokens
<1> QED
    BY <1>1, InvariantHolds, PTL

\* Whoever got through, or got tokens, was active with exactly those roles at
\* some moment of the request.
THEOREM ClaimsHeld == Spec => []ClaimsWereTrue
<1>1. IInv => ClaimsWereTrue
    BY DEF IInv, RequestsInv, RequestInv, WasTrue, ClaimsWereTrue
<1> QED
    BY <1>1, InvariantHolds, PTL

\* A successful logout has revoked all it was given.
THEOREM LogoutComplete == Spec => []LogoutRevokes
<1>1. IInv => LogoutRevokes
    BY DEF IInv, RequestsInv, RequestInv, LogoutRevokes
<1> QED
    BY <1>1, InvariantHolds, PTL

\* The unique index lets one logout of a token through.
THEOREM LogoutOnce == Spec => []OneLogoutPerToken
<1>1. IInv => OneLogoutPerToken
    BY DEF IInv
<1> QED
    BY <1>1, InvariantHolds, PTL
=============================================================================
