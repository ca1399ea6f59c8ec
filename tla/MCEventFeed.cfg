\* Two bars of width 2, a list of 1, two events for each bucket: the bars can count four
\* times what the list holds.
CONSTANTS
    h1 = h1
    nas = nas
    ip1 = ip1
    ip2 = ip2
    Name = {h1, nas}
    ServiceType = {}
    NoType = NoType
    Iface = {}
    NoIface = NoIface
    Ip = {ip1, ip2}
    Nothing = Nothing
    TopTypes = 1
    MaxRelated = 1
    Graph <- MCGraph
    Hosts <- MCHosts
    Short = {}
    EventRingCap = 1
    Width = 2
    Buckets = 2
    PruneMargin = 0
    Ahead = 1
    Lag = 2
    MaxTime = 9
    MaxPerBucket = 2
SPECIFICATION Spec
INVARIANTS
    TypeOK
    BarsExact
    BucketsBounded
    PulseIsListed
