SPECIFICATION Safety
CONSTANTS
    a = a
    b = b
    example = example
    com = com
    net = net
    v1 = v1
    v2 = v2
    host = host
    remark = remark
    r1 = r1
    r2 = r2
    r3 = r3
    Acme = Acme
    Empty = Empty
    NoOwner = NoOwner
    NoValue = NoValue
    NoFile = NoFile
    Operator = Operator
    HostLabels <- MCHostLabels
    Words <- MCWords
    Zones <- MCZones
    InitialTree <- MCInitialTree
    HostLines <- MCHostLines
    Requests = {r1}
    Jobs <- SomeNames
    MaxOperatorCommits = 1
    RemoteMayRefuse = FALSE
INVARIANTS
    RemovingNothingSucceeds
CHECK_DEADLOCK FALSE
