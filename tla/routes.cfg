SPECIFICATION Spec
CONSTANTS
    Slots = {s1, s2}
    Roles = {USER}
    Endpoints <- MCEndpoints
    Routes <- MCRoutes
    Actions <- MCActions
    Dyn = Dyn
    NoAction = NoAction
    Absent = Absent
    MaxPermissions = 2
SYMMETRY SlotSymmetry
INVARIANTS
    TypeOK
    ActionsComeFromRows
CHECK_DEADLOCK FALSE
