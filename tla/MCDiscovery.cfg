\* Two sockets hear the same small link.
CONSTANTS
    inst = inst
    type = type
    h1 = h1
    h2 = h2
    attr = attr
    ip = ip
    Instance = {inst}
    ServiceType = {type}
    NoType = NoType
    Host = {h1, h2}
    NoHost = NoHost
    Attr = {attr}
    InferredType <- MCInferredType
    NewWindow = 1
    StaleNum = 3
    StaleDen = 20
    Listener = {l1, l2}
    Ip = {ip}
    Packet <- MCPacket
    Absent = Absent
    Idle = Idle
    Cap = 2
    MaxTime = 3
    MaxPackets = 3
SPECIFICATION Spec
INVARIANTS
    TypeOK
    LifetimeHeard
    EventsReflected
    TargetKnown
    LiveMatchesHistory
PROPERTIES
    HistoryKept
    YoungerOnlyByRecord
CHECK_DEADLOCK FALSE
