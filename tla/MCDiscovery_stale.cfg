\* The default stale ratio, a TTL long enough for it to matter.
CONSTANTS
    inst = inst
    type = type
    h1 = h1
    h2 = h2
    attr = attr
    ip = ip
    Instance = {inst}
    ServiceType = {type}
    NoType = NoType
    Host = {h1, h2}
    NoHost = NoHost
    Attr = {attr}
    InferredType <- MCInferredType
    NewWindow = 1
    StaleNum = 3
    StaleDen = 20
    Listener = {l1}
    Ip = {ip}
    Packet <- LongAnnouncement
    Absent = Absent
    Idle = Idle
    Cap = 2
    MaxTime = 11
    MaxPackets = 1
SPECIFICATION Spec
INVARIANT
    StaleWhenLow
CHECK_DEADLOCK FALSE
