SPECIFICATION Spec
CONSTANTS
    Users = {u1}
    RoleNames = {ADMIN}
    Admin = ADMIN
    Passwords = {p1, p2}
    Profiles = {q1}
    Slots = {s1, s2}
    MaxIds = 3
    NoUser = NoUser
PROPERTIES
    ProfileUpdateKeepsTheRest
CHECK_DEADLOCK FALSE
