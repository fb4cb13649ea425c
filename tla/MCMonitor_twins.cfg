SPECIFICATION Spec
CONSTANTS
    Null = Null
    a1 = a1  a2 = a2  a3 = a3
    m1 = m1  m2 = m2
    web = web  ssh = ssh
    n1 = n1  n2 = n2
    h1 = h1  h2 = h2
    IPs = {a1, a2, a3}
    Macs <- TwinMacs
    Ports = {web, ssh}
    Home <- TwinHome
    Services <- TwinServices
    Faults = {"sweep", "connect", "crash"}
    MaxStimuli = 3
    Npms = {n1, n2}
    ForwardPort <- SomeForwardPorts
    HostIds = {h1, h2}
    Fleet <- TwinFleet
    QuietTimes = {"delete"}
INVARIANTS
    TypeOK
    StampInv
