-------------------------- MODULE OnboardingProofs --------------------------
(***************************************************************************)
(* Theorems about registration and password reset, for any users, tokens,  *)
(* lifetimes and requests in flight: whoever succeeds had a good token and *)
(* has spent it, and no password changes without one.                      *)
(***************************************************************************)
EXTENDS Onboarding, TLAPS

-----------------------------------------------------------------------------
(* The inductive invariant: what a request may count on at each await      *)

Spent(t) == invites[t] = None \/ invites[t].used

\* A registration that an invitation has to pay for.
ByInvitation(s) == op[s] = "register" /\ mode = "invitation"

\* From the look at its invitation on, it is one that was made; from the second
\* look on, one that had not expired when the request arrived.
Registering(s) ==
    /\ pc[s] \in {"validate", "saveUser", "useFind", "useSave"} =>
           op[s] = "register" /\ who[s] \in Emails
    /\ pc[s] \in {"validate", "useFind", "useSave"} => mode = "invitation"
    /\ ByInvitation(s) /\ pc[s] \in {"validate", "saveUser", "useFind", "useSave", "done"} =>
           tok[s] \in Invitations
    /\ ByInvitation(s) /\ pc[s] \in {"saveUser", "useFind", "useSave", "done"} =>
           tok[s] \in drawn
    /\ ByInvitation(s) /\ pc[s] \in {"useSave", "done"} =>
           held[s] \in Invitation /\ held[s].expires >= began[s]
    /\ ByInvitation(s) /\ pc[s] = "done" => Spent(tok[s])

Issuing(s) ==
    /\ pc[s] = "saveInvite" => op[s] = "invite"
    /\ pc[s] = "saveReset" => op[s] = "forgot" /\ who[s] \in Emails

\* The row a reset has loaded agrees with the table but for `used`.
Resetting(s) ==
    /\ pc[s] \in {"loadUser", "savePassword", "saveUsed"} => op[s] = "reset"
    /\ op[s] = "reset" /\ pc[s] \in {"loadUser", "savePassword", "saveUsed", "done"} =>
           /\ tok[s] \in ResetTokens /\ resets[tok[s]] # None
           /\ held[s] \in ResetToken
           /\ resets[tok[s]].user = held[s].user /\ who[s] = held[s].user
           /\ resets[tok[s]].expires = held[s].expires /\ held[s].expires >= began[s]
    /\ op[s] = "reset" /\ pc[s] = "done" => resets[tok[s]].used
    /\ pc[s] = "savePassword" => users[who[s]] \in {0, 1}

Holds(s) == Registering(s) /\ Issuing(s) /\ Resetting(s) /\ began[s] <= now

IInv ==
    /\ TypeOK
    /\ \A t \in Invitations : invites[t] # None => t \in drawn
    /\ \A s \in Slots : Holds(s)

\* What every step does to the tables and the clock at most.
Onward ==
    /\ drawn \subseteq drawn'
    /\ \A t \in drawn : Spent(t) => Spent(t)'
    /\ \A t \in ResetTokens : resets[t] # None =>
           /\ resets'[t] # None
           /\ resets'[t].user = resets[t].user /\ resets'[t].expires = resets[t].expires
           /\ resets[t].used => resets'[t].used
    /\ \A e \in Emails : users[e] \in {0, 1} => users'[e] \in {0, 1}
    /\ mode' = mode /\ now' \in Time /\ now <= now'

\* Slot t is left as it is.
Same(t) ==
    /\ pc'[t] = pc[t] /\ op'[t] = op[t] /\ who'[t] = who[t] /\ tok'[t] = tok[t]
    /\ held'[t] = held[t] /\ began'[t] = began[t]

LEMMA SameHolds ==
    ASSUME IInv, Onward, NEW t \in Slots, Same(t) PROVE Holds(t)'
<1>1. Registering(t)'
    BY DEF IInv, Holds, Registering, ByInvitation, Onward, Same
<1>2. Issuing(t)'
    BY DEF IInv, Holds, Issuing, Same
<1>3. Resetting(t)'
    BY DEF IInv, TypeOK, Holds, Resetting, Onward, Same, ResetToken
<1>4. began'[t] <= now'
    BY ConstantsAssumption DEF IInv, TypeOK, Holds, Onward, Same, Time
<1> QED
    BY <1>1, <1>2, <1>3, <1>4 DEF Holds

\* The slot that moves has to be looked at, the others not.
LEMMA MoveInv ==
    ASSUME IInv, Onward, TypeOK',
           \A t \in Invitations : invites'[t] # None => t \in drawn',
           NEW s \in Slots, Holds(s)', \A t \in Slots \ {s} : Same(t)
    PROVE  IInv'
    BY SameHolds DEF IInv

\* The tables do not change.
LEMMA StillOnward == UNCHANGED <<tables, mode, now>> /\ IInv => Onward
    BY ConstantsAssumption DEF tables, Onward, IInv, TypeOK, Spent, Time

LEMMA GotoFacts ==
    ASSUME IInv, NEW s \in Slots, NEW at, Goto(s, at)
    PROVE  /\ pc'[s] = at /\ op'[s] = op[s] /\ who'[s] = who[s] /\ tok'[s] = tok[s]
           /\ began'[s] = began[s]
           /\ \A t \in Slots \ {s} : pc'[t] = pc[t]
           /\ at \in Waiting \cup Answers => pc' \in [Slots -> {"idle"} \cup Waiting \cup Answers]
           /\ UNCHANGED <<now, mode, op, who, tok, began>>
    BY DEF IInv, TypeOK, Goto

\* A step of a request that changes no table and no row held.
LEMMA GotoInv ==
    ASSUME IInv, NEW s \in Slots, NEW at \in Waiting \cup Answers, Goto(s, at),
           UNCHANGED <<tables, held>>, Holds(s)'
    PROVE  IInv'
<1>1. Onward
    BY StillOnward DEF Goto
<1>2. TypeOK'
    BY GotoFacts DEF IInv, TypeOK, tables
<1>3. \A t \in Slots \ {s} : Same(t)
    BY GotoFacts DEF Same
<1> QED
    BY <1>1, <1>2, <1>3, MoveInv DEF IInv, tables

-----------------------------------------------------------------------------
LEMMA InvInit == Init => IInv
<1> SUFFICES ASSUME Init PROVE IInv
    OBVIOUS
<1>1. TypeOK
    BY ConstantsAssumption DEF Init, TypeOK, Time
<1>2. ASSUME NEW s \in Slots PROVE Holds(s)
    BY ConstantsAssumption
    DEF Init, Holds, Registering, Issuing, Resetting, ByInvitation
<1> QED
    BY <1>1, <1>2 DEF Init, IInv

\* A request that arrives, of whatever kind.
LEMMA ArriveInv ==
    ASSUME IInv, NEW s \in Slots,
           NEW name \in {"register", "invite", "forgot", "reset"},
           NEW email \in Emails \cup {None},
           NEW token \in Invitations \cup ResetTokens \cup {None},
           NEW row \in ResetToken \cup {None},
           NEW at \in Waiting \cup Answers,
           Arrive(s, name, email, token, row, at), UNCHANGED tables,
           Registering(s)', Issuing(s)', Resetting(s)'
    PROVE  IInv'
<1>1. Onward
    BY StillOnward DEF Arrive
<1>2. TypeOK'
    BY DEF IInv, TypeOK, Arrive, tables
<1>3. \A t \in Slots \ {s} : Same(t)
    BY DEF IInv, TypeOK, Arrive, Same
<1>4. Holds(s)'
    BY ConstantsAssumption DEF IInv, TypeOK, Holds, Arrive, Time
<1> QED
    BY <1>1, <1>2, <1>3, <1>4, MoveInv DEF IInv, tables

LEMMA ArriveFacts ==
    ASSUME IInv, NEW s \in Slots, NEW name, NEW email, NEW token, NEW row, NEW at,
           Arrive(s, name, email, token, row, at)
    PROVE  /\ pc'[s] = at /\ op'[s] = name /\ who'[s] = email /\ tok'[s] = token
           /\ held'[s] = row /\ began'[s] = now /\ UNCHANGED <<now, mode>>
    BY DEF IInv, TypeOK, Arrive

LEMMA ArrivalInv ==
    ASSUME IInv, NEW s \in Slots, Arrival(s)
    PROVE  IInv'
<1>1. ASSUME NEW email \in Emails, NEW t \in Invitations \cup {None}, Register(s, email, t)
      PROVE  IInv'
  <2>1. /\ AfterMode(email, t) \in {"refused", "validate", "saveUser"}
        /\ AfterMode(email, t) = "validate" => mode = "invitation"
        /\ mode = "invitation" => AfterMode(email, t) # "saveUser"
        /\ AfterMode(email, t) = "validate" => t \in Invitations
    BY DEF IInv, TypeOK, Modes, AfterMode
  <2>2. /\ pc'[s] = AfterMode(email, t) /\ op'[s] = "register" /\ who'[s] = email
        /\ tok'[s] = t /\ mode' = mode
    BY <1>1, ArriveFacts DEF Register
  <2>3. Registering(s)' /\ Issuing(s)' /\ Resetting(s)'
    BY <2>1, <2>2 DEF Registering, Issuing, Resetting, ByInvitation
  <2>4. AfterMode(email, t) \in Waiting \cup Answers
    BY <2>1 DEF Waiting, Answers
  <2> QED
    BY <1>1, <2>3, <2>4, ArriveInv DEF Register
<1>2. ASSUME NEW email \in Emails, ForgotPassword(s, email) PROVE IInv'
  <2>1. PICK at \in {"done", "saveReset"} : Arrive(s, "forgot", email, None, None, at)
    BY <1>2 DEF ForgotPassword
  <2>2. pc'[s] = at /\ op'[s] = "forgot" /\ who'[s] = email
    BY <2>1, ArriveFacts
  <2>3. Registering(s)' /\ Issuing(s)' /\ Resetting(s)'
    BY <2>2 DEF Registering, Issuing, Resetting, ByInvitation
  <2> QED
    BY <1>2, <2>1, <2>3, ArriveInv DEF ForgotPassword, Waiting, Answers
<1>3. CASE CreateToken(s)
  <2>1. PICK at \in {"saveInvite", "refused"} : Arrive(s, "invite", None, None, None, at)
    BY <1>3 DEF CreateToken
  <2>2. pc'[s] = at /\ op'[s] = "invite"
    BY <2>1, ArriveFacts
  <2>3. Registering(s)' /\ Issuing(s)' /\ Resetting(s)'
    BY <2>2 DEF Registering, Issuing, Resetting, ByInvitation
  <2> QED
    BY <1>3, <2>1, <2>3, ArriveInv DEF CreateToken, Waiting, Answers
<1>4. ASSUME NEW t \in ResetTokens, ResetPassword(s, t) PROVE IInv'
  <2>1. CASE Redeemable(resets[t])
    <3>1. Arrive(s, "reset", resets[t].user, t, resets[t], "loadUser")
      BY <1>4, <2>1 DEF ResetPassword
    <3>2. resets[t] \in ResetToken /\ resets[t] # None /\ resets[t].expires >= now
      BY <2>1 DEF Redeemable, IInv, TypeOK
    <3>3. resets[t].user \in Emails
      BY <3>2 DEF ResetToken
    <3>4. Registering(s)' /\ Issuing(s)' /\ Resetting(s)'
      BY <1>4, <3>1, <3>2, ArriveFacts
      DEF Registering, Issuing, Resetting, ByInvitation, ResetPassword, tables
    <3> QED
      BY <1>4, <3>1, <3>2, <3>3, <3>4, ArriveInv DEF ResetPassword, Waiting
  <2>2. CASE ~Redeemable(resets[t])
    <3>1. Arrive(s, "reset", None, t, None, "refused")
      BY <1>4, <2>2 DEF ResetPassword
    <3>2. Registering(s)' /\ Issuing(s)' /\ Resetting(s)'
      BY <3>1, ArriveFacts DEF Registering, Issuing, Resetting, ByInvitation
    <3> QED
      BY <1>4, <3>1, <3>2, ArriveInv DEF ResetPassword, Answers
  <2> QED
    BY <2>1, <2>2
<1> QED
    BY <1>1, <1>2, <1>3, <1>4 DEF Arrival

-----------------------------------------------------------------------------
LEMMA ValidateTokenInv ==
    ASSUME IInv, NEW s \in Slots, ValidateToken(s)
    PROVE  IInv'
<1> DEFINE at == IF Redeemable(invites[tok[s]]) THEN "saveUser" ELSE "refused"
<1>1. pc[s] = "validate" /\ Goto(s, at) /\ UNCHANGED <<tables, held>>
    BY DEF ValidateToken
<1>2. op[s] = "register" /\ mode = "invitation" /\ who[s] \in Emails /\ tok[s] \in Invitations
    BY <1>1 DEF IInv, Holds, Registering, ByInvitation
<1>3. at = "saveUser" => tok[s] \in drawn
    BY <1>2 DEF IInv, Redeemable
<1>4. at \in {"saveUser", "refused"}
    OBVIOUS
<1> HIDE DEF at
<1>5. Holds(s)'
    BY <1>1, <1>2, <1>3, <1>4, GotoFacts
    DEF IInv, Holds, Registering, Issuing, Resetting, ByInvitation, tables
<1> QED
    BY <1>1, <1>4, <1>5, GotoInv DEF Waiting, Answers

LEMMA SaveUserInv ==
    ASSUME IInv, NEW s \in Slots, SaveUser(s)
    PROVE  IInv'
<1>1. /\ pc[s] = "saveUser" /\ UNCHANGED <<invites, drawn, resets, held>>
      /\ op[s] = "register" /\ who[s] \in Emails
    BY DEF SaveUser, IInv, Holds, Registering
<1>2. CASE users[who[s]] = None
  <2> DEFINE at == IF mode = "invitation" THEN "useFind" ELSE "done"
  <2>1. users' = [users EXCEPT ![who[s]] = 0] /\ Goto(s, at)
    BY <1>2 DEF SaveUser
  <2>2. /\ at \in {"useFind", "done"}
        /\ at = "useFind" <=> mode = "invitation"
    OBVIOUS
  <2> HIDE DEF at
  <2>3. Onward
    BY <1>1, <2>1 DEF Onward, IInv, TypeOK, Spent, Goto, Time
  <2>4. Holds(s)'
    BY <1>1, <2>1, <2>2, GotoFacts
    DEF IInv, Holds, Registering, Issuing, Resetting, ByInvitation
  <2>5. TypeOK'
    BY <1>1, <2>1, <2>2, GotoFacts DEF IInv, TypeOK, Waiting, Answers
  <2>6. \A t \in Slots \ {s} : Same(t)
    BY <1>1, <2>1, GotoFacts DEF Same
  <2> QED
    BY <1>1, <2>3, <2>4, <2>5, <2>6, MoveInv DEF IInv
<1>3. CASE users[who[s]] # None
  <2>1. Goto(s, "failed") /\ UNCHANGED <<tables, held>>
    BY <1>1, <1>3 DEF SaveUser, tables
  <2>2. Holds(s)'
    BY <2>1, GotoFacts DEF IInv, Holds, Registering, Issuing, Resetting, ByInvitation
  <2> QED
    BY <2>1, <2>2, GotoInv DEF Answers
<1> QED
    BY <1>2, <1>3

LEMMA UseTokenFindInv ==
    ASSUME IInv, NEW s \in Slots, UseTokenFind(s)
    PROVE  IInv'
<1> DEFINE at == IF Redeemable(invites[tok[s]]) THEN "useSave" ELSE "refused"
<1>1. /\ pc[s] = "useFind" /\ Goto(s, at) /\ UNCHANGED tables
      /\ held' = [held EXCEPT ![s] = invites[tok[s]]]
    BY DEF UseTokenFind
<1>2. /\ op[s] = "register" /\ mode = "invitation" /\ who[s] \in Emails
      /\ tok[s] \in Invitations /\ tok[s] \in drawn /\ began[s] <= now
      /\ began[s] \in Time /\ now \in Time
    BY <1>1 DEF IInv, TypeOK, Holds, Registering, ByInvitation
<1>3. /\ invites[tok[s]] \in Invitation \cup {None}
      /\ held'[s] = invites[tok[s]] /\ \A t \in Slots \ {s} : held'[t] = held[t]
    BY <1>1, <1>2 DEF IInv, TypeOK
<1>4. at = "useSave" => held'[s] \in Invitation /\ held'[s].expires >= began[s]
  <2> SUFFICES ASSUME at = "useSave"
               PROVE  held'[s] \in Invitation /\ held'[s].expires >= began[s]
    OBVIOUS
  <2>1. held'[s] \in Invitation /\ held'[s].expires >= now
    BY <1>3 DEF Redeemable
  <2>2. held'[s].expires \in Nat
    BY <2>1, ConstantsAssumption DEF Invitation, ExpiryTime
  <2> QED
    BY <1>2, <2>1, <2>2, ConstantsAssumption DEF Time
<1>5. at \in {"useSave", "refused"}
    OBVIOUS
<1> HIDE DEF at
<1>6. Onward
    BY <1>1, StillOnward DEF Goto
<1>7. Holds(s)'
    BY <1>1, <1>2, <1>4, <1>5, GotoFacts
    DEF IInv, Holds, Registering, Issuing, Resetting, ByInvitation, tables
<1>8. TypeOK'
    BY <1>1, <1>3, <1>5, GotoFacts DEF IInv, TypeOK, Waiting, Answers, tables
<1>9. \A t \in Slots \ {s} : Same(t)
    BY <1>1, <1>3, GotoFacts DEF Same
<1> QED
    BY <1>1, <1>6, <1>7, <1>8, <1>9, MoveInv DEF IInv, tables

LEMMA UseTokenSaveInv ==
    ASSUME IInv, NEW s \in Slots, UseTokenSave(s)
    PROVE  IInv'
<1> DEFINE row == [held[s] EXCEPT !.used = TRUE, !.usedBy = who[s]]
<1>1. /\ pc[s] = "useSave" /\ Goto(s, "done") /\ UNCHANGED <<users, drawn, resets, held>>
      /\ invites' = [invites EXCEPT ![tok[s]] = row]
    BY DEF UseTokenSave
<1>2. /\ op[s] = "register" /\ mode = "invitation" /\ who[s] \in Emails
      /\ tok[s] \in Invitations /\ tok[s] \in drawn
      /\ held[s] \in Invitation /\ held[s].expires >= began[s]
    BY <1>1 DEF IInv, Holds, Registering, ByInvitation
<1>3. row \in Invitation /\ row.used
    BY <1>2 DEF Invitation
<1> HIDE DEF row
<1>4. \A t \in Invitations : invites'[t] = IF t = tok[s] THEN row ELSE invites[t]
    BY <1>1 DEF IInv, TypeOK
<1>5. Onward
  <2>1. \A t \in drawn : Spent(t) => Spent(t)'
    BY <1>3, <1>4 DEF Spent, IInv, TypeOK
  <2> QED
    BY <1>1, <2>1 DEF Onward, IInv, TypeOK, Goto, Time
<1>6. Spent(tok[s])'
    BY <1>1, <1>2, <1>3, <1>4, GotoFacts DEF Spent
<1>7. Holds(s)'
    BY <1>1, <1>2, <1>6, GotoFacts
    DEF IInv, Holds, Registering, Issuing, Resetting, ByInvitation
<1>8. TypeOK'
    BY <1>1, <1>3, GotoFacts DEF IInv, TypeOK, Answers
<1>9. \A t \in Slots \ {s} : Same(t)
    BY <1>1, GotoFacts DEF Same
<1> QED
    BY <1>1, <1>2, <1>4, <1>5, <1>7, <1>8, <1>9, MoveInv DEF IInv

LEMMA SaveTokenInv ==
    ASSUME IInv, NEW s \in Slots, SaveToken(s)
    PROVE  IInv'
<1>1. PICK t \in Invitations \ drawn, ttl \in 0..InviteTTL :
          /\ invites' = [invites EXCEPT ![t] =
                 [expires |-> now + ttl, used |-> FALSE, usedBy |-> None]]
          /\ drawn' = drawn \cup {t}
    BY DEF SaveToken
<1>2. pc[s] = "saveInvite" /\ Goto(s, "done") /\ UNCHANGED <<users, resets, held>>
    BY DEF SaveToken
<1>3. [expires |-> now + ttl, used |-> FALSE, usedBy |-> None] \in Invitation
    BY ConstantsAssumption DEF IInv, TypeOK, Invitation, ExpiryTime, Time
<1>4. Onward
    BY <1>1, <1>2 DEF Onward, IInv, TypeOK, Spent, Goto, Time
<1>5. Holds(s)'
    BY <1>2, GotoFacts DEF IInv, Holds, Registering, Issuing, Resetting, ByInvitation
<1>6. TypeOK'
    BY <1>1, <1>2, <1>3, GotoFacts DEF IInv, TypeOK, Answers
<1>7. \A u \in Slots \ {s} : Same(u)
    BY <1>2, GotoFacts DEF Same
<1> QED
    BY <1>1, <1>4, <1>5, <1>6, <1>7, MoveInv DEF IInv, TypeOK

LEMMA SaveResetInv ==
    ASSUME IInv, NEW s \in Slots, SaveReset(s)
    PROVE  IInv'
<1> DEFINE row == [user |-> who[s], expires |-> now + ResetTTL, used |-> FALSE]
<1>1. PICK t \in ResetTokens : resets[t] = None /\ resets' = [resets EXCEPT ![t] = row]
    BY DEF SaveReset
<1>2. pc[s] = "saveReset" /\ Goto(s, "done") /\ UNCHANGED <<users, invites, drawn, held>>
    BY DEF SaveReset
<1>3. op[s] = "forgot" /\ who[s] \in Emails
    BY <1>2 DEF IInv, Holds, Issuing
<1>4. row \in ResetToken
    BY <1>3, ConstantsAssumption DEF IInv, TypeOK, ResetToken, ExpiryTime, Time
<1> HIDE DEF row
<1>5. Onward
    BY <1>1, <1>2 DEF Onward, IInv, TypeOK, Spent, Goto, Time
<1>6. Holds(s)'
    BY <1>2, <1>3, GotoFacts DEF IInv, Holds, Registering, Issuing, Resetting, ByInvitation
<1>7. TypeOK'
    BY <1>1, <1>2, <1>4, GotoFacts DEF IInv, TypeOK, Answers
<1>8. \A u \in Slots \ {s} : Same(u)
    BY <1>2, GotoFacts DEF Same
<1> QED
    BY <1>2, <1>5, <1>6, <1>7, <1>8, MoveInv DEF IInv

LEMMA LoadUserInv ==
    ASSUME IInv, NEW s \in Slots, LoadUser(s)
    PROVE  IInv'
<1> DEFINE at == IF users[who[s]] = None THEN "refused" ELSE "savePassword"
<1>1. pc[s] = "loadUser" /\ Goto(s, at) /\ UNCHANGED <<tables, held>>
    BY DEF LoadUser
<1>2. op[s] = "reset" /\ who[s] = held[s].user /\ held[s] \in ResetToken
    BY <1>1 DEF IInv, Holds, Resetting
<1>3. at = "savePassword" => users[who[s]] \in {0, 1}
    BY <1>2 DEF IInv, TypeOK, ResetToken
<1>4. at \in {"refused", "savePassword"}
    OBVIOUS
<1> HIDE DEF at
<1>5. Holds(s)'
    BY <1>1, <1>2, <1>3, <1>4, GotoFacts
    DEF IInv, Holds, Registering, Issuing, Resetting, ByInvitation, tables
<1> QED
    BY <1>1, <1>4, <1>5, GotoInv DEF Waiting, Answers

LEMMA SavePasswordInv ==
    ASSUME IInv, NEW s \in Slots, SavePassword(s)
    PROVE  IInv'
<1>1. /\ pc[s] = "savePassword" /\ Goto(s, "saveUsed")
      /\ UNCHANGED <<invites, drawn, resets, held>>
      /\ users' = [users EXCEPT ![who[s]] = 1 - users[who[s]]]
    BY DEF SavePassword
<1>2. op[s] = "reset" /\ users[who[s]] \in {0, 1}
    BY <1>1 DEF IInv, Holds, Resetting
<1>3. 1 - users[who[s]] \in {0, 1}
    BY <1>2
<1>4. Onward
    BY <1>1, <1>3 DEF Onward, IInv, TypeOK, Spent, Goto, Time
<1>5. Holds(s)'
    BY <1>1, <1>2, GotoFacts
    DEF IInv, Holds, Registering, Issuing, Resetting, ByInvitation
<1>6. TypeOK'
    BY <1>1, <1>3, GotoFacts DEF IInv, TypeOK, Waiting
<1>7. \A u \in Slots \ {s} : Same(u)
    BY <1>1, GotoFacts DEF Same
<1> QED
    BY <1>1, <1>4, <1>5, <1>6, <1>7, MoveInv DEF IInv

LEMMA SaveUsedInv ==
    ASSUME IInv, NEW s \in Slots, SaveUsed(s)
    PROVE  IInv'
<1> DEFINE row == [held[s] EXCEPT !.used = TRUE]
<1>1. /\ pc[s] = "saveUsed" /\ Goto(s, "done") /\ UNCHANGED <<users, invites, drawn, held>>
      /\ resets' = [resets EXCEPT ![tok[s]] = row]
    BY DEF SaveUsed
<1>2. /\ op[s] = "reset" /\ tok[s] \in ResetTokens /\ resets[tok[s]] # None
      /\ held[s] \in ResetToken
      /\ resets[tok[s]].user = held[s].user /\ who[s] = held[s].user
      /\ resets[tok[s]].expires = held[s].expires /\ held[s].expires >= began[s]
    BY <1>1 DEF IInv, Holds, Resetting
<1>3. /\ row \in ResetToken /\ row.used
      /\ row.user = held[s].user /\ row.expires = held[s].expires
    BY <1>2 DEF ResetToken
<1>4. row # None
    BY <1>3, NoneIsNoRow
<1> HIDE DEF row
<1>5. \A t \in ResetTokens : resets'[t] = IF t = tok[s] THEN row ELSE resets[t]
    BY <1>1 DEF IInv, TypeOK
<1>6. Onward
    BY <1>1, <1>2, <1>3, <1>4, <1>5 DEF Onward, IInv, TypeOK, Spent, Goto, Time
<1>7. Holds(s)'
    BY <1>1, <1>2, <1>3, <1>4, <1>5, GotoFacts
    DEF IInv, Holds, Registering, Issuing, Resetting, ByInvitation
<1>8. TypeOK'
    BY <1>1, <1>3, GotoFacts DEF IInv, TypeOK, Answers
<1>9. \A u \in Slots \ {s} : Same(u)
    BY <1>1, GotoFacts DEF Same
<1> QED
    BY <1>1, <1>6, <1>7, <1>8, <1>9, MoveInv DEF IInv

LEMMA QueryFailsInv ==
    ASSUME IInv, NEW s \in Slots, QueryFails(s)
    PROVE  IInv'
<1> DEFINE at == CASE op[s] = "forgot" -> "done"
                   [] op[s] = "reset" -> "refused"
                   [] OTHER -> "failed"
<1>1. Goto(s, at) /\ UNCHANGED <<tables, held>>
    BY DEF QueryFails
<1>2. at \in Answers /\ (at = "done" => op[s] = "forgot")
    BY DEF Answers
<1> HIDE DEF at
<1>3. Holds(s)'
    BY <1>1, <1>2, GotoFacts
    DEF IInv, Holds, Registering, Issuing, Resetting, ByInvitation, tables, Answers
<1> QED
    BY <1>1, <1>2, <1>3, GotoInv

LEMMA ForgetInv ==
    ASSUME IInv, NEW slots \in SUBSET Slots, Forget(slots)
    PROVE  IInv'
<1>1. Onward
    BY StillOnward DEF Forget
<1>2. TypeOK'
    BY ConstantsAssumption DEF IInv, TypeOK, Forget, tables, Time
<1>3. ASSUME NEW s \in slots PROVE Holds(s)'
  <2>1. pc'[s] = "idle" /\ op'[s] = "none" /\ began'[s] = 0 /\ now' \in Time
    BY DEF IInv, TypeOK, Forget
  <2> QED
    BY <2>1, ConstantsAssumption
    DEF Holds, Registering, Issuing, Resetting, ByInvitation, Time
<1>4. ASSUME NEW s \in Slots \ slots PROVE Holds(s)'
  <2>1. Same(s)
    BY DEF Forget, Same
  <2> QED
    BY <1>1, <2>1, SameHolds
<1> QED
    BY <1>2, <1>3, <1>4 DEF IInv, Forget, tables

\* The cron job and the clock, which touch no request.
LEMMA BackgroundInv ==
    ASSUME IInv, CleanupExpiredTokens \/ Tick
    PROVE  IInv'
<1>1. UNCHANGED <<mode, users, drawn, resets, reqVars>>
    BY DEF CleanupExpiredTokens, Tick, tables
<1>2. /\ invites' \in [Invitations -> Invitation \cup {None}]
      /\ \A t \in Invitations : invites'[t] \in {None, invites[t]}
      /\ now' \in Time /\ now <= now'
    BY ConstantsAssumption DEF CleanupExpiredTokens, Tick, tables, IInv, TypeOK, Time
<1>3. Onward
    BY <1>1, <1>2 DEF Onward, Spent, IInv, TypeOK
<1>4. \A s \in Slots : Same(s)
    BY <1>1 DEF Same, reqVars
<1>5. TypeOK'
    BY <1>1, <1>2 DEF IInv, TypeOK, reqVars
<1> QED
    BY <1>1, <1>2, <1>3, <1>4, <1>5, SameHolds DEF IInv

LEMMA InvStep == IInv /\ [Next]_vars => IInv'
<1> SUFFICES ASSUME IInv, [Next]_vars PROVE IInv'
    OBVIOUS
<1>1. ASSUME NEW s \in Slots, Step(s) PROVE IInv'
  <2>1. CASE Respond(s)
    BY <2>1, ForgetInv DEF Respond
  <2> QED
    BY <1>1, <2>1, ValidateTokenInv, SaveUserInv, UseTokenFindInv, UseTokenSaveInv, SaveTokenInv,
       SaveResetInv, LoadUserInv, SavePasswordInv, SaveUsedInv, QueryFailsInv
    DEF Step
<1>2. CASE Crash
    BY <1>2, ForgetInv DEF Crash
<1>3. CASE UNCHANGED vars
  <2>1. Onward /\ \A s \in Slots : Same(s)
    BY <1>3, StillOnward DEF vars, reqVars, Same
  <2> QED
    BY <1>3, <2>1, SameHolds DEF vars, tables, reqVars, IInv, TypeOK
<1> QED
    BY <1>1, <1>2, <1>3, ArrivalInv, BackgroundInv DEF Next

-----------------------------------------------------------------------------
\* The inductive invariant holds in every reachable state.
THEOREM InvariantHolds == Spec => []IInv
BY InvInit, InvStep, PTL DEF Spec

\* Every variable keeps its type: no save writes a row that is not one.
THEOREM TypeCorrect == Spec => []TypeOK
BY InvariantHolds, PTL DEF IInv

\* However requests, failures, restarts and the cron job interleave, whoever is told of
\* success had a good token when the request arrived, and nobody can use it again.
THEOREM SpentBySuccess == Spec => []SuccessSpendsToken
<1>1. IInv => SuccessSpendsToken
    BY DEF IInv, Holds, Registering, Resetting, ByInvitation, Spent, SuccessSpendsToken, Redeemable
<1> QED
    BY <1>1, InvariantHolds, PTL

\* A password never changes but by a token made for its user in time.
THEOREM TokenForPassword == Spec => PasswordNeedsToken
<1> DEFINE A == \A e \in Emails :
          users[e] # None /\ users'[e] # None /\ users'[e] # users[e] =>
              \E s \in Slots :
                  /\ op[s] = "reset"
                  /\ resets[tok[s]] # None
                  /\ resets[tok[s]].user = e
                  /\ resets[tok[s]].expires >= began[s]
<1>1. ASSUME IInv, [Next]_vars PROVE A
  <2>1. ASSUME NEW s \in Slots, SavePassword(s) PROVE A
    <3>1. \A e \in Emails : users'[e] # users[e] => e = who[s]
      BY <1>1, <2>1 DEF SavePassword, IInv, TypeOK
    <3>2. /\ op[s] = "reset" /\ resets[tok[s]] # None
          /\ resets[tok[s]].user = who[s] /\ resets[tok[s]].expires >= began[s]
      BY <1>1, <2>1 DEF SavePassword, IInv, Holds, Resetting
    <3> QED
      BY <3>1, <3>2
  <2>2. ASSUME NEW s \in Slots, SaveUser(s) PROVE A
    BY <1>1, <2>2 DEF SaveUser, IInv, TypeOK
  <2>3. ASSUME NEW s \in Slots, Arrival(s) PROVE A
    BY <2>3 DEF Arrival, Register, ForgotPassword, CreateToken, ResetPassword, tables
  <2>4. ASSUME NEW s \in Slots, Step(s) PROVE A
    BY <2>1, <2>2, <2>4
    DEF Step, ValidateToken, UseTokenFind, UseTokenSave, SaveToken, SaveReset, LoadUser, SaveUsed,
        QueryFails, Respond, Forget, tables
  <2> QED
    BY <1>1, <2>3, <2>4
    DEF Next, CleanupExpiredTokens, Tick, Crash, Forget, tables, vars
<1>2. IInv /\ [Next]_vars => [A]_vars
    BY <1>1
<1> QED
    BY <1>2, InvariantHolds, PTL DEF Spec, PasswordNeedsToken
=============================================================================
