SPECIFICATION HealerSpec
CONSTANTS
    Null = Null
    a1 = a1  a2 = a2  a3 = a3
    m1 = m1  m2 = m2
    web = web  ssh = ssh
    n1 = n1  n2 = n2
    h1 = h1  h2 = h2
    IPs = {a1, a2, a3}
    Macs <- BothMacs
    Ports = {web, ssh}
    Home <- BothHome
    Services <- AlikeServices
    Faults = {"sweep", "connect", "mariadb", "reload", "signal", "crash"}
    MaxStimuli = 2
    Npms = {n1, n2}
    ForwardPort <- SomeForwardPorts
    HostIds = {h1, h2}
    Fleet <- AlikeFleet
    QuietTimes = {}
    Ops = {"force"}
    Forms = {}
INVARIANTS
    AddressesBelongToDevice
