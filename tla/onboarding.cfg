SPECIFICATION FairSpec
CONSTANTS
    Emails = {e1, e2}
    AllowedEmails = {e1}
    Invitations = {i1}
    ResetTokens = {t1}
    Slots = {s1, s2}
    InviteTTL = 1
    ResetTTL = 0
    MaxTime = 1
    None = None
INVARIANTS
    TypeOK
    SuccessSpendsToken
PROPERTIES
    PasswordNeedsToken
    ExpiredInvitationsGo
CHECK_DEADLOCK FALSE
