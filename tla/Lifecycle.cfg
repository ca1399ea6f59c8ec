\* Two sockets, of which either may fail; two types; a bad interval or a good one.
CONSTANTS
    Socket = {s1, s2}
    Type = {t1, t2}
    QueryInterval = {0, 60}
    MaxPackets = 2
SPECIFICATION Spec
INVARIANTS
    TypeOK
    NothingHandledAfterShutdown
PROPERTIES
    QuietShutdown
    ExitsUnlessStalled
    SeenTypesBrowsed
CHECK_DEADLOCK FALSE
