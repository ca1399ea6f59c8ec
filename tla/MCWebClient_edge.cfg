\* The same, for where the edge is drawn.
CONSTANTS
    inst = inst
    h1 = h1
    h2 = h2
    ip1 = ip1
    ip2 = ip2
    lan = lan
    Name = {inst, h1, h2}
    ServiceType = {1}
    NoType = NoType
    Iface = {lan}
    NoIface = NoIface
    Ip = {ip1, ip2}
    Nothing = Nothing
    TopTypes = 1
    MaxRelated = 1
    Graphs <- MCGraphs
    News <- MCNews
    Sent = Sent
    InFlight = 2
    Queries = {inst}
    Rows = {"offline"}
    Mounts = 2
    Clicks = 1
SPECIFICATION Spec
INVARIANT
    EdgesDrawnInPlace
