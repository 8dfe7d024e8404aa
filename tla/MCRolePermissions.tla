------------------------ MODULE MCRolePermissions ------------------------
EXTENDS RolePermissions, TLC
SlotSymmetry == Permutations(Slots)
==========================================================================
