SPECIFICATION Spec
CONSTANTS
    Slots = {s1, s2}
    Roles = {USER, ADMIN}
    NamedRoles = {USER, ADMIN, NOBODY}
    Permissions = {1, 2}
    Listed = {1, 2, 3}
    MaxGrants = 3
SYMMETRY SlotSymmetry
INVARIANTS
    TypeOK
    AssignedMeansHeld
PROPERTIES
    ReplaceKeepsShared
CHECK_DEADLOCK FALSE
