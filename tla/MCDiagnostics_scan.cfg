CONSTANTS
    a1 = a1
    a2 = a2
    m1 = m1
    n1 = n1
    n2 = n2
    n3 = n3
    Null = Null
    Macs = {m1}
    IPs = {a1, a2}
    NameSet = {n1, n2, n3}
    Given = {n1, n2}
    Records = {1}
    Table <- MCTable
    ReverseDns <- MCReverseDns
    Scans = {s1}
    Checks = {c1}
    Jobs = {s1, c1}
    Ports = {p1}
    Keep = 1
    MaxBytes = 3
    LineSizes = {2}
    Responders <- MCResponders
    Announced <- MCAnnounced
    Forms <- MCForms
    MaxTime = 1
    MaxEdits = 1
SPECIFICATION DiagSpec
INVARIANTS DiagTypeOK LogsBounded CompleteIsWhole CuratedNameIfConnected ValidationNamesRecord
PROPERTIES ElapsedIsHonest PortsStayShown ScanCompletes
CHECK_DEADLOCK FALSE
