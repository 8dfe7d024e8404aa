-------------------------- MODULE UserRecordsProofs --------------------------
(***************************************************************************)
(* Proofs about UserRecords, for any users, roles, passwords, profiles,    *)
(* requests in flight and bound on the ids.                                *)
(***************************************************************************)
EXTENDS UserRecords, TLAPS

Keyed(rows) ==
    \A g, h \in rows : g.id = h.id \/ (g.user = h.user /\ g.role = h.role) => g = h

\* What a request in flight knows: the rows it holds were once together in the
\* table, they are rows of its user, and what it is about to write is of a type
\* that the column takes.
RequestInv(s) ==
    /\ who[s] \in Users
    /\ Keyed(held[s])
    /\ \A g \in held[s] : g.user = who[s]
    /\ pc[s] \in {"compare", "hash", "findAdmin", "save", "write"} => entity[s] \in Row
    /\ pc[s] \in {"compare", "hash"} => wanted[s] \in Passwords
    /\ pc[s] \in {"insert", "remove"} => wanted[s] \in RoleNames
    /\ pc[s] = "remove" => \A g \in held[s] : g.role = wanted[s]
    /\ pc[s] = "write" => added[s] \subseteq held[s]

RequestsInv == \A s \in Slots : pc[s] # "idle" => RequestInv(s)

IInv == TypeOK /\ GrantsAreKeyed /\ RequestsInv

\* The tables start without any assignment and no request is in flight.
LEMMA InvInit == Init => IInv
<1> SUFFICES ASSUME Init PROVE IInv
    OBVIOUS
<1>1. users \in [Users -> Row]
    BY DEF Init, Row
<1>2. TypeOK
    BY <1>1, ConstantsAssumption DEF Init, TypeOK, Points, Ops
<1>3. GrantsAreKeyed /\ RequestsInv
    BY DEF Init, GrantsAreKeyed, RequestsInv
<1> QED
    BY <1>2, <1>3 DEF IInv

\* A request that goes on disturbs nobody else's part of the invariant.
LEMMA OthersUndisturbed ==
    ASSUME TypeOK, RequestsInv, NEW s \in Slots,
           \A r \in Slots : r # s =>
               /\ pc'[r] = pc[r] /\ who'[r] = who[r] /\ entity'[r] = entity[r]
               /\ held'[r] = held[r] /\ wanted'[r] = wanted[r] /\ added'[r] = added[r],
           pc'[s] # "idle" => RequestInv(s)'
    PROVE  RequestsInv'
    BY DEF RequestsInv, RequestInv, Keyed

\* What a request reads on arrival is consistent, because the table is.
LEMMA ArriveInv ==
    ASSUME IInv, NEW s \in Slots, NEW name \in Ops, NEW u \in Users,
           NEW row \in Row \cup {NoRow}, NEW rows, rows \subseteq GrantsOf(u),
           NEW value \in Passwords \cup RoleNames \cup {"none"}, NEW at \in Points,
           Arrive(s, name, u, row, rows, value, at),
           at \notin {"idle", "write"},
           at \in {"compare", "hash", "findAdmin", "save"} => row \in Row,
           at \in {"compare", "hash"} => value \in Passwords,
           at \in {"insert", "remove"} => value \in RoleNames,
           at = "remove" => \A g \in rows : g.role = value
    PROVE  IInv'
<1> USE DEF IInv
<1>1. rows \subseteq grants /\ \A g \in rows : g.user = u
    BY DEF GrantsOf
<1>2. TypeOK'
    BY <1>1 DEF Arrive, tables, TypeOK
<1>3. GrantsAreKeyed'
    BY DEF Arrive, tables, GrantsAreKeyed
<1>4. RequestInv(s)'
    <2>1. /\ pc'[s] = at /\ who'[s] = u /\ entity'[s] = row
          /\ held'[s] = rows /\ wanted'[s] = value
        BY DEF Arrive, TypeOK
    <2>2. Keyed(rows)
        BY <1>1 DEF Keyed, GrantsAreKeyed
    <2> QED
        BY <1>1, <2>1, <2>2 DEF RequestInv, Keyed
<1>5. \A r \in Slots : r # s =>
          /\ pc'[r] = pc[r] /\ who'[r] = who[r] /\ entity'[r] = entity[r]
          /\ held'[r] = held[r] /\ wanted'[r] = wanted[r] /\ added'[r] = added[r]
    BY DEF Arrive, TypeOK
<1>6. RequestsInv'
    BY <1>4, <1>5, OthersUndisturbed
<1> QED
    BY <1>2, <1>3, <1>6

\* Every request starts so.
LEMMA RequestStepInv ==
    ASSUME IInv, NEW s \in Slots, NEW u \in Users, Request(s, u)
    PROVE  IInv'
<1>1. users[u] \in Row
    BY DEF IInv, TypeOK
<1>2. ASSUME NEW profile \in Profiles, UpdateProfile(s, u, profile) PROVE IInv'
    <2>1. [users[u] EXCEPT !.profile = profile] \in Row
        BY <1>1 DEF Row
    <2> QED
        BY <1>2, <2>1, ArriveInv DEF UpdateProfile, Ops, Points
<1>3. ASSUME NEW password \in Passwords, ChangePassword(s, u, password) PROVE IInv'
    BY <1>1, <1>3, ArriveInv DEF ChangePassword, Ops, Points
<1>4. ASSUME NEW password \in Passwords, ResetPassword(s, u, password) PROVE IInv'
    BY <1>1, <1>4, ArriveInv DEF ResetPassword, Ops, Points
<1>5. ASSUME DeactivateUser(s, u) PROVE IInv'
    BY <1>1, <1>5, ArriveInv DEF DeactivateUser, Ops, Points
<1>6. ASSUME NEW name \in RoleNames, AssignRole(s, u, name) PROVE IInv'
    BY <1>6, ArriveInv DEF AssignRole, Ops, Points
<1>7. ASSUME NEW name \in RoleNames, RemoveRole(s, u, name) PROVE IInv'
    BY <1>7, ArriveInv DEF RemoveRole, Ops, Points
<1> QED
    BY <1>2, <1>3, <1>4, <1>5, <1>6, <1>7 DEF Request

\* Finished and killed requests leave nothing behind.
LEMMA ForgetInv ==
    ASSUME IInv, NEW slots, Forget(slots)
    PROVE  IInv'
<1> USE DEF IInv
<1>1. TypeOK'
    BY DEF Forget, tables, TypeOK, Points, Ops
<1>2. GrantsAreKeyed'
    BY DEF Forget, tables, GrantsAreKeyed
<1>3. RequestsInv'
    BY DEF Forget, RequestsInv, RequestInv, Keyed
<1> QED
    BY <1>1, <1>2, <1>3

\* The invariant after a step to another await: what is left to show is what the
\* step does to the tables and to its own request.
LEMMA GotoInv ==
    ASSUME IInv, NEW s \in Slots, NEW at, Goto(s, at), TypeOK', GrantsAreKeyed',
           \A r \in Slots : r # s => entity'[r] = entity[r] /\ added'[r] = added[r],
           RequestInv(s)'
    PROVE  IInv'
<1>1. \A r \in Slots : r # s =>
          /\ pc'[r] = pc[r] /\ who'[r] = who[r] /\ entity'[r] = entity[r]
          /\ held'[r] = held[r] /\ wanted'[r] = wanted[r] /\ added'[r] = added[r]
    BY DEF IInv, Goto, TypeOK
<1> QED
    BY <1>1, OthersUndisturbed DEF IInv

\* Rows that the two keys admit keep the table keyed.
LEMMA InsertKeyed ==
    ASSUME GrantsAreKeyed, NEW rows, Keyed(rows), CanInsert(rows),
           grants' = grants \cup rows
    PROVE  GrantsAreKeyed'
    BY DEF GrantsAreKeyed, Keyed, CanInsert

\* The handlers' work between loading and saving.
LEMMA WorkInv ==
    ASSUME IInv, NEW s \in Slots, Compare(s) \/ Hash(s) \/ FindAdmin(s) \/ Reload(s)
    PROVE  IInv'
<1> USE DEF IInv
<1>0. GrantsAreKeyed'
    BY DEF Compare, Hash, FindAdmin, Reload, tables, GrantsAreKeyed
<1>1. CASE Compare(s)
    <2>1. PICK at \in {"hash", "refused"} : Goto(s, at)
        BY <1>1 DEF Compare
    <2>2. TypeOK'
        BY <1>1, <2>1 DEF Compare, Goto, tables, TypeOK, Points
    <2>3. RequestInv(s)'
        BY <1>1, <2>1 DEF Compare, Goto, TypeOK, RequestsInv, RequestInv, Keyed
    <2> QED
        BY <1>0, <1>1, <2>1, <2>2, <2>3, GotoInv DEF Compare
<1>2. CASE Hash(s)
    <2>1. [entity[s] EXCEPT !.password = wanted[s]] \in Row
        BY <1>2 DEF Hash, RequestsInv, RequestInv, Row
    <2>2. entity' = [entity EXCEPT ![s] = [entity[s] EXCEPT !.password = wanted[s]]]
        BY <1>2 DEF Hash
    <2>3. TypeOK'
        BY <1>2, <2>1, <2>2 DEF Hash, Goto, tables, TypeOK, Points
    <2>4. RequestInv(s)'
        BY <1>2, <2>1, <2>2 DEF Hash, Goto, TypeOK, RequestsInv, RequestInv, Keyed
    <2> QED
        BY <1>0, <1>2, <2>2, <2>3, <2>4, GotoInv DEF Hash, TypeOK
<1>3. CASE FindAdmin(s)
    <2>1. [entity[s] EXCEPT !.active = FALSE] \in Row
        BY <1>3 DEF FindAdmin, RequestsInv, RequestInv, Row
    <2>2. PICK at \in {"refused", "save"} :
              /\ Goto(s, at)
              /\ \/ entity' = entity
                 \/ entity' = [entity EXCEPT ![s] = [entity[s] EXCEPT !.active = FALSE]]
        BY <1>3 DEF FindAdmin
    <2>3. TypeOK'
        BY <1>3, <2>1, <2>2 DEF FindAdmin, Goto, tables, TypeOK, Points
    <2>4. RequestInv(s)'
        BY <1>3, <2>1, <2>2 DEF FindAdmin, Goto, TypeOK, RequestsInv, RequestInv, Keyed
    <2> QED
        BY <1>0, <1>3, <2>2, <2>3, <2>4, GotoInv DEF FindAdmin, TypeOK
<1>4. CASE Reload(s)
    <2> DEFINE columns == {c \in Columns : entity[s][c] # users[who[s]][c]}
               new == IF RelationLoaded(s) THEN held[s] \ GrantsOf(who[s]) ELSE {}
               gone == IF RelationLoaded(s) THEN GrantsOf(who[s]) \ held[s] ELSE {}
    <2>1. /\ dirty' = [dirty EXCEPT ![s] = columns]
          /\ added' = [added EXCEPT ![s] = new]
          /\ orphaned' = [orphaned EXCEPT ![s] = gone]
          /\ Goto(s, "write")
          /\ UNCHANGED <<tables, entity>>
        BY <1>4 DEF Reload
    <2>2. columns \subseteq Columns /\ new \subseteq held[s] /\ gone \subseteq grants
        BY DEF GrantsOf
    <2> HIDE DEF columns, new, gone
    <2>3. TypeOK'
        BY <2>1, <2>2 DEF Goto, tables, TypeOK, Points
    <2>4. RequestInv(s)'
        BY <1>4, <2>1, <2>2 DEF Reload, Goto, TypeOK, RequestsInv, RequestInv, Keyed
    <2> QED
        BY <1>0, <2>1, <2>3, <2>4, GotoInv DEF TypeOK
<1> QED
    BY <1>1, <1>2, <1>3, <1>4

\* The row that save leaves behind.
Written(s) == [c \in Columns |-> IF c \in dirty[s] THEN entity[s][c] ELSE users[who[s]][c]]

\* Whatever columns save writes, the row keeps its type.
LEMMA WrittenIsRow ==
    ASSUME IInv, NEW s \in Slots, pc[s] = "write"
    PROVE  Written(s) \in Row
<1>1. users[who[s]] \in Row /\ entity[s] \in Row
    BY DEF IInv, TypeOK, RequestsInv, RequestInv
<1> QED
    BY <1>1 DEF Written, Row, Columns

\* The steps that write the tables.
LEMMA TableInv ==
    ASSUME IInv, NEW s \in Slots, Write(s) \/ InsertGrant(s) \/ RemoveGrant(s)
    PROVE  IInv'
<1> USE DEF IInv
<1>0. pc[s] \in {"write", "insert", "remove"} /\ RequestInv(s)
    BY DEF Write, InsertGrant, RemoveGrant, RequestsInv
<1>1. \A at \in {"done", "failed"} :
          Goto(s, at) /\ UNCHANGED <<entity, added>> => RequestInv(s)'
    BY <1>0 DEF Goto, TypeOK, RequestInv, Keyed
<1>2. CASE Write(s)
    <2>1. CASE orphaned[s] \cap grants = {} /\ CanInsert(added[s])
        <3>1. /\ users' = [users EXCEPT ![who[s]] = Written(s)]
              /\ grants' = grants \cup added[s]
              /\ Goto(s, "done")
              /\ UNCHANGED <<nextId, entity, dirty, added, orphaned>>
            BY <1>2, <2>1 DEF Write, Written
        <3>2. Written(s) \in Row
            BY <1>2, WrittenIsRow DEF Write
        <3>3. TypeOK'
            BY <3>1, <3>2 DEF Goto, TypeOK, Points
        <3>4. Keyed(added[s])
            BY <1>0, <1>2 DEF Write, RequestInv, Keyed
        <3>5. GrantsAreKeyed'
            BY <2>1, <3>1, <3>4, InsertKeyed
        <3> QED
            BY <1>1, <3>1, <3>3, <3>5, GotoInv
    <2>2. CASE ~(orphaned[s] \cap grants = {} /\ CanInsert(added[s]))
        <3>1. Goto(s, "failed") /\ UNCHANGED <<tables, entity, dirty, added, orphaned>>
            BY <1>2, <2>2 DEF Write, tables
        <3>2. TypeOK' /\ GrantsAreKeyed'
            BY <3>1 DEF Goto, tables, TypeOK, Points, GrantsAreKeyed
        <3> QED
            BY <1>1, <3>1, <3>2, GotoInv
    <2> QED BY <2>1, <2>2
<1>3. CASE InsertGrant(s)
    <2> DEFINE g == [id |-> nextId, user |-> who[s], role |-> wanted[s]]
    <2>1. nextId \in 1..MaxIds /\ nextId + 1 \in 1..(MaxIds + 1)
        BY <1>3, ConstantsAssumption DEF InsertGrant, TypeOK
    <2>2. g \in Grant
        BY <1>0, <1>3, <2>1 DEF InsertGrant, RequestInv, Grant
    <2>3. PICK at \in {"done", "failed"} : Goto(s, at)
        BY <1>3 DEF InsertGrant
    <2>4. \/ CanInsert({g}) /\ grants' = grants \cup {g}
          \/ grants' = grants
        BY <1>3 DEF InsertGrant
    <2>5. nextId' = nextId + 1 /\ UNCHANGED <<users, entity, dirty, added, orphaned>>
        BY <1>3 DEF InsertGrant
    <2> HIDE DEF g
    <2>6. TypeOK'
        BY <2>1, <2>2, <2>3, <2>4, <2>5 DEF Goto, TypeOK, Points
    <2>7. GrantsAreKeyed'
        <3>1. Keyed({g})
            BY DEF Keyed
        <3> QED
            BY <2>4, <3>1, InsertKeyed DEF GrantsAreKeyed
    <2> QED
        BY <1>1, <2>3, <2>5, <2>6, <2>7, GotoInv
<1>4. CASE RemoveGrant(s)
    <2>1. /\ grants' = grants \ held[s]
          /\ Goto(s, "done")
          /\ UNCHANGED <<users, nextId, entity, dirty, added, orphaned>>
        BY <1>4 DEF RemoveGrant
    <2>2. TypeOK' /\ GrantsAreKeyed'
        BY <2>1 DEF Goto, TypeOK, Points, GrantsAreKeyed
    <2> QED
        BY <1>1, <2>1, <2>2, GotoInv
<1> QED
    BY <1>2, <1>3, <1>4

\* No step disturbs the invariant.
LEMMA InvNext == IInv /\ [Next]_vars => IInv'
<1> SUFFICES ASSUME IInv, [Next]_vars PROVE IInv'
    OBVIOUS
<1>1. ASSUME NEW s \in Slots, Step(s) PROVE IInv'
    BY <1>1, WorkInv, TableInv, ForgetInv DEF Step, Respond
<1>2. ASSUME NEW s \in Slots, NEW u \in Users, Request(s, u) PROVE IInv'
    BY <1>2, RequestStepInv
<1>3. CASE Crash
    BY <1>3, ForgetInv DEF Crash
<1>4. CASE UNCHANGED vars
    BY <1>4 DEF vars, tables, reqVars, IInv, TypeOK, GrantsAreKeyed, RequestsInv, RequestInv, Keyed
<1> QED
    BY <1>1, <1>2, <1>3, <1>4 DEF Next

\* The inductive invariant holds in every state of every behaviour.
THEOREM InvariantHolds == Spec => []IInv
    BY InvInit, InvNext, PTL DEF Spec

\* Every variable keeps its type.
THEOREM TypeCorrect == Spec => []TypeOK
<1>1. IInv => TypeOK
    BY DEF IInv
<1> QED
    BY <1>1, InvariantHolds, PTL

\* The rows of user_roles stay keyed.
THEOREM KeyedGrants == Spec => []GrantsAreKeyed
<1>1. IInv => GrantsAreKeyed
    BY DEF IInv
<1> QED
    BY <1>1, InvariantHolds, PTL
-----------------------------------------------------------------------------
(* What may become of the tables                                           *)

\* All but three steps leave the tables alone.
LEMMA TablesUnchanged ==
    ASSUME [Next]_vars,
           ~ \E s \in Slots : Write(s) \/ InsertGrant(s) \/ RemoveGrant(s)
    PROVE  UNCHANGED tables
<1>1. ASSUME NEW s \in Slots, NEW u \in Users, Request(s, u) PROVE UNCHANGED tables
    BY <1>1 DEF Request, UpdateProfile, ChangePassword, ResetPassword, DeactivateUser,
        AssignRole, RemoveRole, Arrive
<1>2. ASSUME NEW s \in Slots, Step(s) PROVE UNCHANGED tables
    BY <1>2 DEF Step, Compare, Hash, FindAdmin, Reload, Respond, Forget
<1>3. CASE Crash
    BY <1>3 DEF Crash, Forget
<1>4. CASE UNCHANGED vars
    BY <1>4 DEF vars
<1> QED
    BY <1>1, <1>2, <1>3, <1>4 DEF Next

\* Only removeRole takes a row out of user_roles.
THEOREM RolesLeave == Spec => RolesLeaveByRemoveRole
<1> DEFINE Leave == \A g \in grants :
        g \notin grants' => \E s \in Slots : pc[s] = "remove" /\ g \in held[s]
<1>1. [Next]_vars => Leave
    <2> SUFFICES ASSUME [Next]_vars, NEW g \in grants, g \notin grants'
                 PROVE  \E s \in Slots : pc[s] = "remove" /\ g \in held[s]
        OBVIOUS
    <2>1. PICK s \in Slots : Write(s) \/ InsertGrant(s) \/ RemoveGrant(s)
        BY TablesUnchanged DEF tables
    <2> QED
        BY <2>1 DEF Write, InsertGrant, RemoveGrant
<1>2. [Next]_vars => [Leave]_vars
    BY <1>1
<1> QED
    BY <1>2, PTL DEF Spec, RolesLeaveByRemoveRole

-----------------------------------------------------------------------------
(* UserRecords implements Accounts                                         *)

AccountMap == [u \in Users |-> AccountOf(u)]
Names(rows) == {g.role : g \in rows}

\* A step that changes one account, in one of the ways of Accounts, is a step of it.
LEMMA AccountChanges ==
    ASSUME NEW u \in Users,
           \A v \in Users : v # u => users'[v] = users[v] /\ GrantsOf(v)' = GrantsOf(v),
           AccountOf(u)' \in Sessions!Changes(AccountOf(u))
    PROVE  Sessions!AccountsNext
<1>1. AccountMap' = [AccountMap EXCEPT ![u] = AccountOf(u)']
    BY DEF AccountMap, AccountOf
<1> QED
    BY <1>1 DEF AccountMap, Sessions!AccountsNext, Sessions!ChangeAccount

\* Every step is a step of Accounts or leaves the accounts as they are.
LEMMA StepImplementsAccounts ==
    ASSUME IInv, [Next]_vars
    PROVE  [Sessions!AccountsNext]_AccountMap
<1> USE DEF IInv
<1> DEFINE Same == UNCHANGED AccountMap
<1>0. users' = users /\ grants' = grants => Same
    BY DEF AccountMap, AccountOf, GrantsOf
<1>1. CASE ~ \E s \in Slots : Write(s) \/ InsertGrant(s) \/ RemoveGrant(s)
    BY <1>0, <1>1, TablesUnchanged DEF tables
<1>2. ASSUME NEW s \in Slots, Write(s) \/ InsertGrant(s) \/ RemoveGrant(s)
      PROVE  Sessions!AccountsNext \/ Same
    <2>0. PICK u \in Users : RequestInv(s) /\ u = who[s]
        BY <1>2 DEF Write, InsertGrant, RemoveGrant, RequestsInv, RequestInv
    <2>1. AccountOf(u) = [active |-> users[u].active, roles |-> Names(GrantsOf(u))]
        BY DEF AccountOf, Names
    <2>2. AccountOf(u)' = [active |-> users'[u].active, roles |-> Names(GrantsOf(u)')]
        BY DEF AccountOf, Names
    <2>3. CASE Write(s) /\ users' = [users EXCEPT ![u] = Written(s)]
                        /\ grants' = grants \cup added[s]
        <3>1. \A g \in added[s] : g \in Grant /\ g.user = u
            BY <2>0, <2>3 DEF Write, RequestInv, TypeOK
        <3>2. GrantsOf(u)' = GrantsOf(u) \cup added[s]
            BY <2>3, <3>1 DEF GrantsOf
        <3>3. users'[u].active \in BOOLEAN /\ Names(added[s]) \in SUBSET RoleNames
            <4>1. Written(s) \in Row
                BY <2>3, WrittenIsRow DEF Write
            <4>2. users'[u] = Written(s)
                BY <2>3 DEF TypeOK
            <4> QED
                BY <3>1, <4>1, <4>2 DEF Row, Names, Grant
        <3>4. Names(GrantsOf(u)') = Names(GrantsOf(u)) \cup Names(added[s])
            BY <3>2 DEF Names
        <3>5. AccountOf(u)' = Sessions!Saved(AccountOf(u), users'[u].active, Names(added[s]))
            BY <2>1, <2>2, <3>4 DEF Sessions!Saved
        <3>6. AccountOf(u)' \in Sessions!Changes(AccountOf(u))
            BY <3>3, <3>5 DEF Sessions!Changes
        <3>7. \A v \in Users : v # u => users'[v] = users[v] /\ GrantsOf(v)' = GrantsOf(v)
            BY <2>3, <3>1 DEF GrantsOf, TypeOK
        <3> QED
            BY <3>6, <3>7, AccountChanges
    <2>4. CASE users' = users /\ grants' = grants
        BY <1>0, <2>4
    <2>5. CASE InsertGrant(s) /\ users' = users /\ grants' # grants
        <3>1. wanted[s] \in RoleNames
            BY <2>0, <2>5 DEF InsertGrant, RequestInv
        <3>2. PICK g : grants' = grants \cup {g} /\ g.user = u /\ g.role = wanted[s]
            BY <2>0, <2>5 DEF InsertGrant
        <3>3. Names(GrantsOf(u)') = Names(GrantsOf(u)) \cup {wanted[s]}
            BY <3>2 DEF Names, GrantsOf
        <3>4. AccountOf(u)' = Sessions!WithRole(AccountOf(u), wanted[s])
            BY <2>1, <2>2, <2>5, <3>3 DEF Sessions!WithRole
        <3>5. AccountOf(u)' \in Sessions!Changes(AccountOf(u))
            BY <3>1, <3>4 DEF Sessions!Changes
        <3>6. \A v \in Users : v # u => users'[v] = users[v] /\ GrantsOf(v)' = GrantsOf(v)
            BY <2>5, <3>2 DEF GrantsOf
        <3> QED
            BY <3>5, <3>6, AccountChanges
    <2>6. CASE RemoveGrant(s)
        <3>1. grants' = grants \ held[s] /\ users' = users
            BY <2>6 DEF RemoveGrant
        <3>2. wanted[s] \in RoleNames
            BY <2>0, <2>6 DEF RemoveGrant, RequestInv
        <3>3. \A g \in held[s] : g \in Grant /\ g.user = u /\ g.role = wanted[s]
            BY <2>0, <2>6 DEF RemoveGrant, RequestInv, TypeOK
        <3>4. Names(GrantsOf(u)') = Names(GrantsOf(u))
              \/ Names(GrantsOf(u)') = Names(GrantsOf(u)) \ {wanted[s]}
            <4>1. GrantsOf(u)' = GrantsOf(u) \ held[s]
                BY <3>1 DEF GrantsOf
            <4>2. CASE held[s] \cap GrantsOf(u) = {}
                BY <4>1, <4>2 DEF Names
            <4>3. ASSUME NEW h \in GrantsOf(u), h \in held[s]
                  PROVE  Names(GrantsOf(u)') = Names(GrantsOf(u)) \ {wanted[s]}
                <5>1. \A g \in GrantsOf(u) : g.role = wanted[s] => g = h
                    BY <3>3, <4>3 DEF GrantsOf, GrantsAreKeyed
                <5> QED
                    BY <3>3, <4>1, <4>3, <5>1 DEF Names
            <4> QED
                BY <4>2, <4>3
        <3>5. \A v \in Users : v # u => users'[v] = users[v] /\ GrantsOf(v)' = GrantsOf(v)
            BY <3>1, <3>3 DEF GrantsOf
        <3>6. CASE Names(GrantsOf(u)') = Names(GrantsOf(u))
            <4>1. \A v \in Users : AccountOf(v)' = AccountOf(v)
                BY <2>1, <2>2, <3>1, <3>5, <3>6 DEF AccountOf
            <4> QED
                BY <4>1 DEF AccountMap
        <3>7. CASE Names(GrantsOf(u)') = Names(GrantsOf(u)) \ {wanted[s]}
            <4>1. AccountOf(u)' = Sessions!WithoutRole(AccountOf(u), wanted[s])
                <5>1. AccountOf(u)' = [active |-> users[u].active,
                                       roles |-> Names(GrantsOf(u)) \ {wanted[s]}]
                    BY <2>2, <3>1, <3>7
                <5> HIDE DEF IInv
                <5> QED
                    BY <2>1, <5>1 DEF Sessions!WithoutRole
            <4>2. AccountOf(u)' \in Sessions!Changes(AccountOf(u))
                BY <3>2, <4>1 DEF Sessions!Changes
            <4> QED
                BY <3>5, <4>2, AccountChanges
        <3> QED
            BY <3>4, <3>6, <3>7
    <2> QED
        BY <1>2, <2>0, <2>3, <2>4, <2>5, <2>6 DEF Write, Written, InsertGrant
<1> QED
    BY <1>1, <1>2

\* At first every account is active and has no roles.
LEMMA InitImplementsAccounts == Init => Sessions!AccountsInit
<1> SUFFICES ASSUME Init
             PROVE  \A u \in Users : AccountOf(u) \in [active : {TRUE}, roles : SUBSET RoleNames]
    BY DEF Sessions!AccountsInit
<1> TAKE u \in Users
<1>1. users[u].active = TRUE
    BY DEF Init
<1>2. GrantsOf(u) = {}
    BY DEF Init, GrantsOf
<1> QED
    BY <1>1, <1>2 DEF AccountOf

\* Every behaviour of the user services changes the accounts as Accounts says.
THEOREM Implements == Spec => ImplementsAccounts
<1>1. IInv /\ [Next]_vars => [Sessions!AccountsNext]_AccountMap
    BY StepImplementsAccounts
<1> QED
    BY <1>1, InitImplementsAccounts, InvariantHolds, PTL
    DEF Spec, ImplementsAccounts, Sessions!AccountsSpec, AccountMap
=============================================================================
