SPECIFICATION ViewsSpec
CONSTANTS
    u1 = u1
    c1 = c1
    bad = bad
    host = host
    ex = ex
    com = com
    v0 = v0
    v1 = v1
    Acme = Acme
    Empty = Empty
    HostLabels = {host, ex, com}
    NoRow = NoRow
    Blank = Blank
    Users = {u1}
    Domains <- MCDomains
    BadNames = {bad}
    Commands = {c1}
    Orders <- MCOrders
    Rows <- MCRows
    InitialDomains <- MCInitialDomains
    InitialPerms <- MCInitialPerms
    RestMay = {"renameDomain", "deleteDomain", "deleteUser"}
    Requests = {r1}
    r1 = r1
    Calls <- MCCalls
    Values = {v0, v1}
INVARIANTS
    ViewsTypeOK
    UpdatesAreGranted
    RefusalsAreDue
    BreaksOnDeletionOnly
PROPERTIES
    RecordsChangeOnGrants
CHECK_DEADLOCK FALSE
