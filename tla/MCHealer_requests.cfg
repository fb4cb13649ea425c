SPECIFICATION HealerSpec
CONSTANTS
    Null = Null
    a1 = a1  a2 = a2  a3 = a3
    m1 = m1  m2 = m2
    web = web  ssh = ssh
    n1 = n1  n2 = n2
    h1 = h1  h2 = h2
    IPs = {a1, a2, a3}
    Macs <- BothMacs
    Ports = {web, ssh}
    Home <- BothHome
    Services <- ApartServices
    Faults = {}
    MaxStimuli = 3
    Npms = {n1, n2}
    ForwardPort <- SomeForwardPorts
    HostIds = {h1, h2}
    Fleet <- ApartFleet
    QuietTimes = {}
    Ops = {"force", "edit", "delete"}
    Forms <- SomeForms
INVARIANTS
    HealerTypeOK
    RecoveringIsInHand
    NginxServesDatabase
PROPERTIES
    UpdatedMeansServing
