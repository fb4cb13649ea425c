SPECIFICATION ServiceSpec
CONSTANTS
    Nobody = Nobody
    app = app  cli = cli
    Procs = {app, cli}
    Columns = {"port", "subnet_cidr", "subnet_id"}
    Carried = {"port"}
    HostRows = {1, 2}
    Null = Null
    m1 = m1  a1 = a1  a2 = a2  n1 = n1
    Requests = {r1, r2}
    r1 = r1  r2 = r2
    Forms <- MCForms
    Forwards <- MCForwards
    AtFirst <- MCAtFirst
    Hours = 3
    Deaths = 1
    NoNet = NoNet
    c1 = c1  c2 = c2
    Cidrs = {c1, c2}
    Loose = {c1}
    Edits = {e1}
    e1 = e1
    MaxSubnets = 2
    Types = {"updated", "manual"}
    Important = {"updated"}
    Visits = {v1, v2, v3}
    v1 = v1  v2 = v2  v3 = v3
    Sends = {s1}
    s1 = s1
INVARIANTS
    UpIsUpgraded
CHECK_DEADLOCK FALSE
