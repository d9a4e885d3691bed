SPECIFICATION MCSpec
CONSTANTS
    u1 = u1
    u2 = u2
    d1 = d1
    d2 = d2
    bad = bad
    c1 = c1
    c2 = c2
    NoRow = NoRow
    Users = {u1, u2}
    Domains = {d1, d2}
    BadNames = {bad}
    Commands = {c1, c2}
    Orders <- MCOrders
    Rows <- MCRows
    InitialDomains <- MCInitialDomains
    InitialPerms <- MCInitialPerms
    RestMay = {"createDomain", "deleteDomain", "createPermission", "movePermission", "deletePermission", "deleteUser"}
INVARIANTS
    PermissionsTypeOK
    FailsAlone
PROPERTIES
    HandledItemIsSettled
    OnlyOrderedPermissionsChange
    EveryCommandEnds
CHECK_DEADLOCK FALSE
