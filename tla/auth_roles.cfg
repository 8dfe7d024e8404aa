SPECIFICATION Spec
CONSTANTS
    Users = {u1}
    RoleNames = {ADMIN}
    Slots = {s1, s2}
    AccessTTL = 1
    RefreshTTL = 2
    MaxTime = 0
    PidFitsColumn = TRUE
    DbMayFail = FALSE
    NoToken = NoToken
    NoUser = NoUser
SYMMETRY SlotSymmetry
INVARIANTS
    TypeOK
    ClaimsWereTrue
    OneLogoutPerToken
CHECK_DEADLOCK FALSE
