SPECIFICATION Spec
CONSTANTS
    Users = {u1}
    RoleNames = {}
    Slots = {s1}
    AccessTTL = 1
    RefreshTTL = 1
    MaxTime = 0
    PidFitsColumn = FALSE
    DbMayFail = FALSE
    NoToken = NoToken
    NoUser = NoUser
PROPERTIES
    LogoutOfLiveTokenWorks
CHECK_DEADLOCK FALSE
