SPECIFICATION MCSpec
CONSTANTS
    u = u
    pa = pa
    a = a
    r1 = r1
    r2 = r2
    k1 = k1
    k2 = k2
    Unset = Unset
    NoTables = NoTables
    Users = {u}
    Fqdns = {pa, a}
    Bare <- MCBare
    Ids <- MCIds
    OldTables <- MCOldTables
    Repos = {r1, r2}
    Keys = {k1, k2}
    Configs <- MCConfigs
INVARIANTS
    FailuresHaveACause
    ServiceHasItsFiles
    WaitingTellsOfTheConfig
PROPERTIES
    MigrationsKeepGrants
    CompletedActionIsDone
    ConfigReachesContainer
CHECK_DEADLOCK FALSE
