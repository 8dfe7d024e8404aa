----------------------------- MODULE Onboarding -----------------------------
(***************************************************************************)
(* What one-time tokens let people do: registration under the              *)
(* registration modes, with the tokens of InvitationTokenService, and the  *)
(* forgotten password (AuthService.registerUser, forgotPassword,           *)
(* resetPassword), with the cron job that deletes expired invitations.     *)
(*                                                                         *)
(* Redeeming a token takes several queries without a transaction: requests *)
(* interleave at each of them, each may fail, and the process may stop.    *)
(***************************************************************************)
EXTENDS Naturals, FiniteSets

CONSTANTS
    Emails,          \* who may have a row in users, whose email is unique
    AllowedEmails,   \* those in a domain of ALLOWED_DOMAINS
    Invitations,     \* values of invitation_tokens.token, a unique column
    ResetTokens,     \* values of password_reset_tokens.token, likewise
    Slots,           \* requests that may be in flight together
    InviteTTL,       \* bound on expiresInHours
    ResetTTL,        \* 30 minutes
    MaxTime,         \* bound on the clock
    None             \* no row, email or token

ASSUME ConstantsAssumption ==
    /\ AllowedEmails \subseteq Emails
    /\ {InviteTTL, ResetTTL, MaxTime} \subseteq Nat
    /\ None \notin Emails \cup Invitations \cup ResetTokens

\* What REGISTRATION_MODE may say, "other" being any string that is not in the enum.
Modes == {"public", "invitation", "domainwhitelist", "closed", "other"}
Time == 0..MaxTime
ExpiryTime == 0..(MaxTime + InviteTTL + ResetTTL)

Invitation == [expires : ExpiryTime, used : BOOLEAN, usedBy : Emails \cup {None}]
ResetToken == [user : Emails, expires : ExpiryTime, used : BOOLEAN]

ASSUME NoneIsNoRow == None \notin Invitation \cup ResetToken

VARIABLES
    now,       \* the clock
    mode,      \* REGISTRATION_MODE
    users,     \* the table users: of each row only whether its password has changed
               \* an odd number of times, which tells an old one from a new one
    invites,   \* the table invitation_tokens
    drawn,     \* history: the invitations made so far, as a UUID is never made again
    resets,    \* the table password_reset_tokens
    pc,        \* the await a request is at, or its answer
    op,        \* the operation it runs
    who,       \* its email
    tok,       \* its token
    held,      \* the token's row it loaded last
    began      \* history: when it arrived

tables == <<users, invites, drawn, resets>>
reqVars == <<pc, op, who, tok, held, began>>
vars == <<now, mode, tables, reqVars>>

Waiting == {"validate", "saveUser", "useFind", "useSave", "saveInvite", "saveReset",
            "loadUser", "savePassword", "saveUsed"}
Answers == {"done", "refused", "failed"}

TypeOK ==
    /\ now \in Time
    /\ mode \in Modes
    /\ users \in [Emails -> {0, 1, None}]
    /\ invites \in [Invitations -> Invitation \cup {None}]
    /\ drawn \subseteq Invitations
    /\ resets \in [ResetTokens -> ResetToken \cup {None}]
    /\ pc \in [Slots -> {"idle"} \cup Waiting \cup Answers]
    /\ op \in [Slots -> {"none", "register", "invite", "forgot", "reset"}]
    /\ who \in [Slots -> Emails \cup {None}]
    /\ tok \in [Slots -> Invitations \cup ResetTokens \cup {None}]
    /\ held \in [Slots -> Invitation \cup ResetToken \cup {None}]
    /\ began \in [Slots -> Time]

Init ==
    /\ now = 0
    /\ mode \in Modes
    /\ users = [e \in Emails |-> None]
    /\ invites = [t \in Invitations |-> None]
    /\ drawn = {}
    /\ resets = [t \in ResetTokens |-> None]
    /\ pc = [s \in Slots |-> "idle"]
    /\ op = [s \in Slots |-> "none"]
    /\ who = [s \in Slots |-> None]
    /\ tok = [s \in Slots |-> None]
    /\ held = [s \in Slots |-> None]
    /\ began = [s \in Slots |-> 0]

Arrive(s, name, email, token, row, at) ==
    /\ pc[s] = "idle"
    /\ pc' = [pc EXCEPT ![s] = at]
    /\ op' = [op EXCEPT ![s] = name]
    /\ who' = [who EXCEPT ![s] = email]
    /\ tok' = [tok EXCEPT ![s] = token]
    /\ held' = [held EXCEPT ![s] = row]
    /\ began' = [began EXCEPT ![s] = now]
    /\ UNCHANGED <<now, mode>>

Goto(s, at) ==
    /\ pc' = [pc EXCEPT ![s] = at]
    /\ UNCHANGED <<now, mode, op, who, tok, began>>

\* Mutant of Redeemable: the expiry of the row is not compared.
RedeemableForEver(row) == row # None /\ ~row.used

\* The query asks for used: false, the handler compares the expiry.
Redeemable(row) == row # None /\ ~row.used /\ row.expires >= now

-----------------------------------------------------------------------------
(* AuthService.registerUser                                                *)

\* What the registration mode demands of the request: an unknown one as little as "public".
AfterMode(email, token) ==
    CASE mode = "closed" -> "refused"
      [] mode = "invitation" -> IF token = None THEN "refused" ELSE "validate"
      [] mode = "domainwhitelist" -> IF email \in AllowedEmails THEN "saveUser" ELSE "refused"
      [] mode \in {"public", "other"} -> "saveUser"

Register(s, email, token) ==
    /\ Arrive(s, "register", email, token, None, AfterMode(email, token))
    /\ UNCHANGED tables

\* InvitationTokenService.validateToken
ValidateToken(s) ==
    /\ pc[s] = "validate"
    /\ Goto(s, IF Redeemable(invites[tok[s]]) THEN "saveUser" ELSE "refused")
    /\ UNCHANGED <<tables, held>>

SaveUser(s) ==
    /\ pc[s] = "saveUser"
    /\ IF users[who[s]] = None
       THEN /\ users' = [users EXCEPT ![who[s]] = 0]
            /\ Goto(s, IF mode = "invitation" THEN "useFind" ELSE "done")
       ELSE Goto(s, "failed") /\ UNCHANGED users
    /\ UNCHANGED <<invites, drawn, resets, held>>

\* InvitationTokenService.useToken; if it is refused, the new user remains.
UseTokenFind(s) ==
    /\ pc[s] = "useFind"
    /\ Goto(s, IF Redeemable(invites[tok[s]]) THEN "useSave" ELSE "refused")
    /\ held' = [held EXCEPT ![s] = invites[tok[s]]]
    /\ UNCHANGED tables

\* Mutant of UseTokenSave: the arguments are swapped.
UseTokenSaveSwapped(s) ==
    /\ pc[s] = "useSave"
    /\ invites' = [invites EXCEPT ![tok[s]] = [held[s] EXCEPT !.used = TRUE, !.usedBy = tok[s]]]
    /\ Goto(s, "done")
    /\ UNCHANGED <<users, drawn, resets, held>>

\* save inserts the row again if it has been deleted meanwhile.
UseTokenSave(s) ==
    /\ pc[s] = "useSave"
    /\ invites' = [invites EXCEPT ![tok[s]] = [held[s] EXCEPT !.used = TRUE, !.usedBy = who[s]]]
    /\ Goto(s, "done")
    /\ UNCHANGED <<users, drawn, resets, held>>

-----------------------------------------------------------------------------
(* InvitationTokenService.createTokenForUser and cleanupExpiredTokens      *)

\* Refused to a caller without the role ADMIN or without a row.
CreateToken(s) ==
    /\ \E at \in {"saveInvite", "refused"} : Arrive(s, "invite", None, None, None, at)
    /\ UNCHANGED tables

SaveToken(s) ==
    /\ pc[s] = "saveInvite"
    /\ \E t \in Invitations \ drawn, ttl \in 0..InviteTTL :
        /\ invites' = [invites EXCEPT ![t] =
               [expires |-> now + ttl, used |-> FALSE, usedBy |-> None]]
        /\ drawn' = drawn \cup {t}
    /\ Goto(s, "done")
    /\ UNCHANGED <<users, resets, held>>

Expired(t) == invites[t] # None /\ invites[t].expires < now

\* Mutant of CleanupExpiredTokens: used tokens are kept.
CleanupExpiredUnused ==
    /\ \E t \in Invitations : Expired(t)
    /\ invites' = [t \in Invitations |->
           IF Expired(t) /\ ~invites[t].used THEN None ELSE invites[t]]
    /\ UNCHANGED <<now, mode, users, drawn, resets, reqVars>>

CleanupExpiredTokens ==
    /\ \E t \in Invitations : Expired(t)
    /\ invites' = [t \in Invitations |-> IF Expired(t) THEN None ELSE invites[t]]
    /\ UNCHANGED <<now, mode, users, drawn, resets, reqVars>>

-----------------------------------------------------------------------------
(* AuthService.forgotPassword and resetPassword                            *)

\* Whether or not there is such a user, and an active one, the answer is "done";
\* here a row may be active or not, as UserRecords has it.
ForgotPassword(s, email) ==
    /\ \E at \in {"done"} \cup (IF users[email] = None THEN {} ELSE {"saveReset"}) :
           Arrive(s, "forgot", email, None, None, at)
    /\ UNCHANGED tables

\* The new token is random.  Sending it fails, which is caught.
SaveReset(s) ==
    /\ pc[s] = "saveReset"
    /\ \E t \in ResetTokens :
        /\ resets[t] = None
        /\ resets' = [resets EXCEPT ![t] =
               [user |-> who[s], expires |-> now + ResetTTL, used |-> FALSE]]
    /\ Goto(s, "done")
    /\ UNCHANGED <<users, invites, drawn, held>>

ResetPassword(s, t) ==
    /\ IF Redeemable(resets[t])
       THEN Arrive(s, "reset", resets[t].user, t, resets[t], "loadUser")
       ELSE Arrive(s, "reset", None, t, None, "refused")
    /\ UNCHANGED tables

\* The user is loaded, active or not, and bcrypt hashes the new password.
LoadUser(s) ==
    /\ pc[s] = "loadUser"
    /\ Goto(s, IF users[who[s]] = None THEN "refused" ELSE "savePassword")
    /\ UNCHANGED <<tables, held>>

\* Mutant of SavePassword: the token is marked after the answer.
SavePasswordAndAnswer(s) ==
    /\ pc[s] = "savePassword"
    /\ users' = [users EXCEPT ![who[s]] = 1 - @]
    /\ Goto(s, "done")
    /\ UNCHANGED <<invites, drawn, resets, held>>

SavePassword(s) ==
    /\ pc[s] = "savePassword"
    /\ users' = [users EXCEPT ![who[s]] = 1 - @]
    /\ Goto(s, "saveUsed")
    /\ UNCHANGED <<invites, drawn, resets, held>>

SaveUsed(s) ==
    /\ pc[s] = "saveUsed"
    /\ resets' = [resets EXCEPT ![tok[s]] = [held[s] EXCEPT !.used = TRUE]]
    /\ Goto(s, "done")
    /\ UNCHANGED <<users, invites, drawn, held>>

-----------------------------------------------------------------------------
\* A query fails: forgotPassword answers as ever, resetPassword with a refusal,
\* and the others with an error.
QueryFails(s) ==
    /\ pc[s] \in Waiting
    /\ Goto(s, CASE op[s] = "forgot" -> "done"
                 [] op[s] = "reset" -> "refused"
                 [] OTHER -> "failed")
    /\ UNCHANGED <<tables, held>>

\* The answer is sent, or the process stops and its requests are gone.
Forget(slots) ==
    /\ pc' = [s \in Slots |-> IF s \in slots THEN "idle" ELSE pc[s]]
    /\ op' = [s \in Slots |-> IF s \in slots THEN "none" ELSE op[s]]
    /\ who' = [s \in Slots |-> IF s \in slots THEN None ELSE who[s]]
    /\ tok' = [s \in Slots |-> IF s \in slots THEN None ELSE tok[s]]
    /\ held' = [s \in Slots |-> IF s \in slots THEN None ELSE held[s]]
    /\ began' = [s \in Slots |-> IF s \in slots THEN 0 ELSE began[s]]
    /\ UNCHANGED <<now, mode, tables>>

Respond(s) == pc[s] \in Answers /\ Forget({s})
Crash == (\E s \in Slots : pc[s] # "idle") /\ Forget(Slots)

Tick ==
    /\ now < MaxTime
    /\ now' = now + 1
    /\ UNCHANGED <<mode, tables, reqVars>>

Arrival(s) ==
    \/ \E email \in Emails :
        \/ \E t \in Invitations \cup {None} : Register(s, email, t)
        \/ ForgotPassword(s, email)
    \/ CreateToken(s)
    \/ \E t \in ResetTokens : ResetPassword(s, t)

Step(s) ==
    \/ ValidateToken(s) \/ SaveUser(s) \/ UseTokenFind(s) \/ UseTokenSave(s)
    \/ SaveToken(s)
    \/ SaveReset(s) \/ LoadUser(s) \/ SavePassword(s) \/ SaveUsed(s)
    \/ QueryFails(s) \/ Respond(s)

Next ==
    \/ \E s \in Slots : Arrival(s) \/ Step(s)
    \/ CleanupExpiredTokens
    \/ Tick \/ Crash

Spec == Init /\ [][Next]_vars

\* The cron job fires every day, in a process that is started again when it stops;
\* nothing else has to happen.
FairSpec == Spec /\ WF_vars(CleanupExpiredTokens)

-----------------------------------------------------------------------------
(* Properties                                                              *)

\* Whoever is told that a registration or a reset has succeeded had a token that was
\* good when the request arrived and has spent it: nobody can redeem it from then on.
SuccessSpendsToken ==
    \A s \in Slots : pc[s] = "done" =>
        /\ op[s] = "register" /\ mode = "invitation" =>
               held[s].expires >= began[s] /\ ~Redeemable(invites[tok[s]])
        /\ op[s] = "reset" => held[s].expires >= began[s] /\ ~Redeemable(resets[tok[s]])

\* A password changes only by a token that was made for this user and had not
\* expired when the request arrived.
PasswordNeedsToken ==
    [][\A e \in Emails :
          users[e] # None /\ users'[e] # None /\ users'[e] # users[e] =>
              \E s \in Slots :
                  /\ op[s] = "reset"
                  /\ resets[tok[s]] # None
                  /\ resets[tok[s]].user = e
                  /\ resets[tok[s]].expires >= began[s]]_vars

\* Expired invitations are deleted, although a save may bring one back.
ExpiredInvitationsGo == \A t \in Invitations : Expired(t) ~> invites[t] = None
=============================================================================
