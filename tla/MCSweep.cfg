CONSTANTS
    o1 = o1
    l1 = l1
    l2 = l2
    v1 = v1
    t1 = t1
    r1 = r1
    d1 = d1
    g1 = g1
    lan = lan
    vlan = vlan
    tun = tun
    far = far
    huge = huge
    tiny = tiny
    e0 = e0
    e1 = e1
    w0 = w0
    Null = Null
    Macs = {d1, g1}
    IPs = {o1, l1, l2, v1, t1, r1}
    Nets = {lan, vlan, tun, far, huge, tiny}
    Ifaces = {e0, e1, w0}
    TooSmall = {tiny}
    TooLarge = {huge}
    Primary = lan
    Default = e0
    BroadcastFlag = {e0, e1}
    PointToPointFlag = {w0}
    TunnelNamed = {w0}
    Addr <- MCAddr
    AutoIface <- MCAuto
    Route <- MCRoute
    Holds <- MCHolds
    Peer <- MCPeer
    Scopes <- MCScopes
    MaxMoves = 1
SPECIFICATION SweepSpec
INVARIANTS SweepTypeOK RowsAreTrue NothingLeaks StableIsFound
PROPERTIES SearchEnds
CHECK_DEADLOCK FALSE
