SPECIFICATION Spec
CONSTANTS
    Users = {u1, u2}
    RoleNames = {ADMIN}
    Admin = ADMIN
    Passwords = {p1}
    Profiles = {q1}
    Slots = {s1, s2}
    MaxIds = 3
    NoUser = NoUser
SYMMETRY SlotSymmetry
INVARIANTS
    TypeOK
    GrantsAreKeyed
PROPERTIES
    RolesLeaveByRemoveRole
    ImplementsAccounts
CHECK_DEADLOCK FALSE
