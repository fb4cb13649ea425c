CONSTANTS
    a1 = a1
    a2 = a2
    m1 = m1
    n1 = n1
    n2 = n2
    n3 = n3
    Null = Null
    Macs = {m1}
    IPs = {a1, a2}
    NameSet = {n1, n2, n3}
    Given = {n1, n2}
    Records = {1}
    Table <- MCTable
    ReverseDns <- MCReverseDns
    Scans = {s1}
    Checks = {c1}
    Jobs = {s1, c1}
    Ports = {p1}
    Keep = 1
    MaxBytes = 3
    LineSizes = {2}
    Responders <- MCResponders
    Announced <- MCHalves
    Forms <- MCForms
    MaxTime = 1
    MaxEdits = 0
SPECIFICATION DiagSpec
INVARIANTS CuratedNameWins
CHECK_DEADLOCK FALSE
