\* Two slots compete for one role.
SPECIFICATION RolesSpec
CONSTANTS
    Slot = {p1, p2}
    MaxRoles = 1
    MaxCall = 2
    MaxOpen = 2
    MaxTry = 2
    MaxBoot = 2
    MaxQueue = 3
    NoSlot = NoSlot
SYMMETRY Sym
CHECK_DEADLOCK FALSE
INVARIANTS RolesBelongToTheirPane DaemonAgrees
