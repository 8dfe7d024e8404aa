SPECIFICATION Spec
CONSTANTS
    Users = {u1}
    RoleNames = {}
    Slots = {s1, s2}
    AccessTTL = 1
    RefreshTTL = 1
    MaxTime = 1
    PidFitsColumn = TRUE
    DbMayFail = TRUE
    NoToken = NoToken
    NoUser = NoUser
SYMMETRY SlotSymmetry
INVARIANTS
    OnlyLiveTokens
    LogoutRevokes
CHECK_DEADLOCK FALSE
