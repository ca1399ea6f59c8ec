\* Every small registry; the ARP cache is reloaded at most once during the request.
CONSTANTS
    inst = inst
    type = type
    i4 = i4
    j4 = j4
    i6 = i6
    m1 = m1
    m2 = m2
    Instance = {inst}
    Host = {1, 2, 3}
    NoHost = NoHost
    Type = {type}
    NoType = NoType
    Ip = {i4, j4, i6}
    Ipv4 = {i4, j4}
    IpKey = {i4, j4, i6}
    NoKey = NoKey
    MergeKey <- MCMergeKey
    Mac = {m1, m2}
    NoMac = NoMac
    ArpTable <- MCArpTable
    Score <- MCScore
    RegistryHosts <- MCRegistryHosts
    RegistryServices <- MCRegistryServices
    MaxReloads = 1
SPECIFICATION Spec
INVARIANTS
    TypeOK
    MergedIffConnected
    IdentityAtOneHost
    ServiceAtOneHost
CHECK_DEADLOCK FALSE
